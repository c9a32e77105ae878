-------------------------- MODULE TaskSystemProofs --------------------------
(***************************************************************************)
(* Proofs about TaskSystem: for every number of tasks, futures, threads,   *)
(* prerequisites and captures, the reference counts and the counters of    *)
(* prerequisites are exact, and a task starts only when it may.            *)
(***************************************************************************)
EXTENDS TaskSystem, FiniteSetTheorems, TLAPS

InCall == {"prereq", "ready", "aborted", "signal"}
InExecute == {"start", "body", "unblock", "release"}

\* Where a thread is tells which of its locals are set.
LocalsFollowPc ==
  \A th \in Thread :
    /\ new[th] # None <=> pc[th] \in {"prereq", "ready", "aborted"}
    /\ pc[th] # "prereq" =>
         todo[th] = {} /\ adding[th] = None /\ inactive[th] = {} /\ ~node[th]
    /\ adding[th] # None => node[th]
    /\ adding[th] \notin todo[th] \cup inactive[th]
    /\ todo[th] \cap inactive[th] = {}
    /\ list[th] # {} => pc[th] \in {"unblock", "signal"}
    /\ next[th] # None => pc[th] \in {"unblock", "release"} /\ th \in Worker

ExecFollowsPc ==
  \A th \in Thread :
    /\ pc[th] = "idle" => exec[th] = None
    /\ pc[th] \in InExecute => exec[th] # None
    /\ current_task[th] = IF pc[th] \in InCall \cup {"body"} THEN exec[th] ELSE None
    /\ pc[th] \in InCall /\ exec[th] = None => th \in Client
    /\ inline[th] => exec[th] # None /\ th \in Client

\* How far a task's execution is shows in its gate and in its function.
ExecutionStages ==
  /\ \A th \in Thread : exec[th] # None =>
       state[exec[th]] = IF pc[th] \in {"unblock", "release"} THEN "Done" ELSE "Pending"
  /\ \A t \in Task :
       /\ state[t] = "Pending" => function[t]
       /\ function[t] => state[t] = "Pending" \/ \E th \in Executors(t) : pc[th] = "unblock"
       /\ captures[t] # {} => function[t]
  /\ \A th \in Thread : pc[th] = "release" => ~function[exec[th]]

\* The prerequisites a creator still has to settle cannot go away meanwhile,
\* and the new task is not in their gates.
CreatorHolds ==
  \A th \in Thread : \A p \in Unsettled(th) :
    /\ p \in held[th] \/ (exec[th] # None /\ p \in captures[exec[th]])
    /\ new[th] \notin dependents[p]

\* Nobody has a handle of a task before InitializeTask returns it.
NewUnshared ==
  \A th \in Thread :
    /\ new[th] # None => /\ Holders(new[th]) = {} /\ Capturers(new[th]) = {}
                         /\ Creators(new[th]) = {th}
    /\ inline[th] => /\ Holders(exec[th]) = {} /\ Capturers(exec[th]) = {}
                     /\ Creators(exec[th]) = {}

\* Every place a task can be executed from.
Places(t) ==
  In(t, ready) + In(t, readyNamed) + Cardinality(Nexts(t))
  + Cardinality(Pushers(t))
  + Cardinality(Executors(t))

\* A pending task waits for a decrement or is in one place; a finished one is
\* with the thread that finishes it, or nowhere.
OnePlace ==
  \A t \in Task :
    /\ state[t] = "Pending" => Places(t) = IF Owed(t) = 0 THEN 1 ELSE 0
    /\ state[t] = "Done" => /\ Owed(t) = 0
                            /\ Places(t) = Cardinality(Executors(t)) /\ Places(t) <= 1

\* A pending future with tasks behind it has an owner that has promised it: a
\* handle, or a function that has not ended yet.
FutureAnchored ==
  \A f \in Future :
    state[f] = "Pending" /\ dependents[f] # {} =>
      Holders(f) # {} \/ \E t \in Capturers(f) : state[t] = "Pending"

SystemInv ==
  /\ TypeOK /\ CounterExact /\ RefsExact /\ PooledClean
  /\ LocalsFollowPc /\ ExecFollowsPc /\ ExecutionStages /\ CreatorHolds
  /\ NewUnshared /\ OnePlace /\ FutureAnchored
-----------------------------------------------------------------------------
(* Counting. *)

\* Everything that can refer to an object.
Referrer == Thread \cup Object

LEMMA ReferrerFinite == IsFiniteSet(Referrer)
<1> QED
  BY PoolAssumption, ThreadAssumption, FS_Union DEF Referrer, Thread, Object

LEMMA CountNat ==
  \A S \in SUBSET Referrer :
    Cardinality(S) \in Nat /\ (Cardinality(S) = 0 <=> S = {}) /\ IsFiniteSet(S)
<1> QED
  BY ReferrerFinite, FS_Subset, FS_CardinalityType, FS_EmptySet

LEMMA CountGain ==
  \A S \in SUBSET Referrer : \A T, x : x \notin S /\ T = S \cup {x} =>
    Cardinality(T) = Cardinality(S) + 1
<1> QED
  BY CountNat, FS_AddElement

LEMMA CountLoss ==
  \A S \in SUBSET Referrer : \A T, x : x \in S /\ T = S \ {x} =>
    Cardinality(T) = Cardinality(S) - 1
<1> QED
  BY CountNat, FS_RemoveElement

LEMMA CountOne ==
  \A S \in SUBSET Referrer : Cardinality(S) = 1 => \A x, y \in S : x = y
<1> QED
  BY CountNat, FS_Singleton

\* The sets that are counted, before and after a step.
LEMMA Counted ==
  ASSUME NEW o
  PROVE  /\ Holders(o) \in SUBSET Referrer /\ Holders(o)' \in SUBSET Referrer
         /\ Capturers(o) \in SUBSET Referrer /\ Capturers(o)' \in SUBSET Referrer
         /\ Gates(o) \in SUBSET Referrer /\ Gates(o)' \in SUBSET Referrer
         /\ Lists(o) \in SUBSET Referrer /\ Lists(o)' \in SUBSET Referrer
         /\ Nodes(o) \in SUBSET Referrer /\ Nodes(o)' \in SUBSET Referrer
         /\ Creators(o) \in SUBSET Referrer /\ Creators(o)' \in SUBSET Referrer
         /\ Nexts(o) \in SUBSET Referrer /\ Nexts(o)' \in SUBSET Referrer
         /\ Executors(o) \in SUBSET Referrer /\ Executors(o)' \in SUBSET Referrer
         /\ Pushers(o) \in SUBSET Referrer /\ Pushers(o)' \in SUBSET Referrer
         /\ UnsettledOf(o) \in SUBSET Referrer /\ UnsettledOf(o)' \in SUBSET Referrer
<1> QED
  BY DEF Holders, Capturers, Gates, Lists, Nodes, Creators, Nexts, Executors, Pushers,
         UnsettledOf, Referrer, Object

LEMMA CountsNat ==
  ASSUME NEW o
  PROVE  /\ Cardinality(Holders(o)) \in Nat /\ Cardinality(Holders(o)') \in Nat
         /\ Cardinality(Capturers(o)) \in Nat /\ Cardinality(Capturers(o)') \in Nat
         /\ Cardinality(Gates(o)) \in Nat /\ Cardinality(Gates(o)') \in Nat
         /\ Cardinality(Lists(o)) \in Nat /\ Cardinality(Lists(o)') \in Nat
         /\ Cardinality(Nodes(o)) \in Nat /\ Cardinality(Nodes(o)') \in Nat
         /\ Cardinality(Creators(o)) \in Nat /\ Cardinality(Creators(o)') \in Nat
         /\ Cardinality(Nexts(o)) \in Nat /\ Cardinality(Nexts(o)') \in Nat
         /\ Cardinality(Executors(o)) \in Nat /\ Cardinality(Executors(o)') \in Nat
         /\ Cardinality(Pushers(o)) \in Nat /\ Cardinality(Pushers(o)') \in Nat
         /\ Cardinality(UnsettledOf(o)) \in Nat /\ Cardinality(UnsettledOf(o)') \in Nat
<1> QED
  BY Counted, CountNat

LEMMA InCount ==
  \A o, queue : In(o, queue) \in Nat /\ In(o, queue) <= 1 /\ (In(o, queue) = 0 <=> o \notin queue)
<1> QED
  BY DEF In

LEMMA CountsZero ==
  ASSUME NEW o
  PROVE  /\ Cardinality(Holders(o)) = 0 <=> Holders(o) = {}
         /\ Cardinality(Capturers(o)) = 0 <=> Capturers(o) = {}
         /\ Cardinality(Gates(o)) = 0 <=> Gates(o) = {}
         /\ Cardinality(Lists(o)) = 0 <=> Lists(o) = {}
         /\ Cardinality(Nodes(o)) = 0 <=> Nodes(o) = {}
         /\ Cardinality(Creators(o)) = 0 <=> Creators(o) = {}
         /\ Cardinality(Nexts(o)) = 0 <=> Nexts(o) = {}
         /\ Cardinality(Executors(o)) = 0 <=> Executors(o) = {}
         /\ Cardinality(Pushers(o)) = 0 <=> Pushers(o) = {}
         /\ Cardinality(UnsettledOf(o)) = 0 <=> UnsettledOf(o) = {}
<1> QED
  BY Counted, CountNat

\* What a step leaves alone it does not count differently.
LEMMA SameCounts ==
  ASSUME NEW o
  PROVE  /\ UNCHANGED held => Holders(o)' = Holders(o)
         /\ UNCHANGED captures => Capturers(o)' = Capturers(o)
         /\ UNCHANGED dependents => Gates(o)' = Gates(o)
         /\ UNCHANGED list => Lists(o)' = Lists(o)
         /\ UNCHANGED <<new, node>> => Nodes(o)' = Nodes(o)
         /\ UNCHANGED new => Creators(o)' = Creators(o)
         /\ UNCHANGED next => Nexts(o)' = Nexts(o)
         /\ UNCHANGED exec => Executors(o)' = Executors(o)
         /\ UNCHANGED <<new, pc>> => Pushers(o)' = Pushers(o)
         /\ UNCHANGED <<new, todo, adding, inactive>> => UnsettledOf(o)' = UnsettledOf(o)
         /\ UNCHANGED ready => In(o, ready)' = In(o, ready)
         /\ UNCHANGED readyNamed => In(o, readyNamed)' = In(o, readyNamed)
<1> QED
  BY DEF Holders, Capturers, Gates, Lists, Nodes, Creators, Nexts, Executors, Pushers,
         UnsettledOf, Unsettled, In

\* What the sum of the references tells about its parts.
LEMMA RefsSum ==
  ASSUME NEW o
  PROVE  /\ RefsTo(o) \in Nat
         /\ RefsTo(o) = 0 =>
              /\ Holders(o) = {} /\ Capturers(o) = {} /\ Gates(o) = {} /\ Lists(o) = {}
              /\ Nodes(o) = {} /\ Creators(o) = {} /\ Nexts(o) = {} /\ Executors(o) = {}
              /\ o \notin ready /\ o \notin readyNamed
         /\ RefsTo(o) = 1 /\ (Holders(o) # {} \/ Capturers(o) # {}) =>
              /\ Gates(o) = {} /\ Lists(o) = {} /\ Creators(o) = {} /\ Nexts(o) = {}
              /\ Executors(o) = {} /\ o \notin ready /\ o \notin readyNamed
         /\ RefsTo(o) = 1 => Cardinality(Gates(o)) + Cardinality(Lists(o)) <= 1
         /\ RefsTo(o) = 1 /\ Creators(o) # {} => Gates(o) = {} /\ Lists(o) = {} /\ Nodes(o) = {}
         /\ RefsTo(o) = 1 /\ Holders(o) # {} =>
              Capturers(o) = {} /\ Cardinality(Holders(o)) = 1
         /\ RefsTo(o) = 1 /\ Capturers(o) # {} => Cardinality(Capturers(o)) = 1
<1>1. PICK h \in Nat : h = Cardinality(Holders(o))
  BY CountsNat
<1>2. PICK c \in Nat : c = Cardinality(Capturers(o))
  BY CountsNat
<1>3. PICK g \in Nat : g = Cardinality(Gates(o))
  BY CountsNat
<1>4. PICK l \in Nat : l = Cardinality(Lists(o))
  BY CountsNat
<1>5. PICK n \in Nat : n = Cardinality(Nodes(o))
  BY CountsNat
<1>6. PICK k \in Nat : k = Cardinality(Creators(o))
  BY CountsNat
<1>7. PICK x \in Nat : x = Cardinality(Nexts(o))
  BY CountsNat
<1>8. PICK e \in Nat : e = Cardinality(Executors(o))
  BY CountsNat
<1>9. PICK r \in Nat : r = In(o, ready)
  BY InCount
<1>10. PICK m \in Nat : m = In(o, readyNamed)
  BY InCount
<1>11. RefsTo(o) = h + c + g + l + n + k + x + e + r + m
  BY <1>1, <1>2, <1>3, <1>4, <1>5, <1>6, <1>7, <1>8, <1>9, <1>10 DEF RefsTo
<1>12. /\ RefsTo(o) \in Nat
       /\ RefsTo(o) = 0 => /\ h = 0 /\ c = 0 /\ g = 0 /\ l = 0 /\ n = 0
                           /\ k = 0 /\ x = 0 /\ e = 0 /\ r = 0 /\ m = 0
       /\ RefsTo(o) = 1 /\ (h # 0 \/ c # 0) =>
            g = 0 /\ l = 0 /\ k = 0 /\ x = 0 /\ e = 0 /\ r = 0 /\ m = 0
       /\ RefsTo(o) = 1 => g + l <= 1
       /\ RefsTo(o) = 1 /\ k # 0 => g = 0 /\ l = 0 /\ n = 0
       /\ RefsTo(o) = 1 /\ h # 0 => c = 0 /\ h = 1
       /\ RefsTo(o) = 1 /\ c # 0 => c = 1
  BY <1>11
<1>13. /\ h = 0 <=> Holders(o) = {}
       /\ c = 0 <=> Capturers(o) = {}
       /\ g = 0 <=> Gates(o) = {}
       /\ l = 0 <=> Lists(o) = {}
       /\ n = 0 <=> Nodes(o) = {}
       /\ k = 0 <=> Creators(o) = {}
       /\ x = 0 <=> Nexts(o) = {}
       /\ e = 0 <=> Executors(o) = {}
  BY <1>1, <1>2, <1>3, <1>4, <1>5, <1>6, <1>7, <1>8, CountsZero
<1>14. (r = 0 <=> o \notin ready) /\ (m = 0 <=> o \notin readyNamed)
  BY <1>9, <1>10, InCount
<1> QED
  BY <1>1, <1>2, <1>3, <1>4, <1>12, <1>13, <1>14

\* Nothing refers to an object in its pool.
LEMMA PooledUnreferenced ==
  ASSUME SystemInv, NEW o \in Object, state[o] = "Pooled"
  PROVE  /\ Holders(o) = {} /\ Capturers(o) = {} /\ Gates(o) = {} /\ Lists(o) = {}
         /\ Nodes(o) = {} /\ Creators(o) = {} /\ Nexts(o) = {} /\ Executors(o) = {}
         /\ o \notin ready /\ o \notin readyNamed
<1>1. RefsTo(o) = 0
  BY DEF SystemInv, PooledClean, RefsExact
<1> QED
  BY <1>1, RefsSum

\* What the number of places tells about its parts.
LEMMA PlacesSum ==
  ASSUME NEW t
  PROVE  /\ Places(t) \in Nat
         /\ Places(t) = 0 <=> /\ Nexts(t) = {} /\ Executors(t) = {} /\ Pushers(t) = {}
                              /\ t \notin ready /\ t \notin readyNamed
         /\ Places(t) = 1 =>
              /\ t \in ready => /\ t \notin readyNamed /\ Nexts(t) = {}
                                /\ Executors(t) = {} /\ Pushers(t) = {}
              /\ t \in readyNamed => /\ t \notin ready /\ Nexts(t) = {}
                                     /\ Executors(t) = {} /\ Pushers(t) = {}
              /\ Nexts(t) # {} => /\ t \notin ready /\ t \notin readyNamed
                                  /\ Executors(t) = {} /\ Pushers(t) = {}
                                  /\ Cardinality(Nexts(t)) = 1
              /\ Pushers(t) # {} => /\ t \notin ready /\ t \notin readyNamed
                                    /\ Executors(t) = {} /\ Nexts(t) = {}
                                    /\ Cardinality(Pushers(t)) = 1
              /\ Executors(t) # {} => /\ t \notin ready /\ t \notin readyNamed
                                      /\ Nexts(t) = {} /\ Pushers(t) = {}
                                      /\ Cardinality(Executors(t)) = 1
<1>1. PICK r \in Nat : r = In(t, ready)
  BY InCount
<1>2. PICK m \in Nat : m = In(t, readyNamed)
  BY InCount
<1>3. PICK x \in Nat : x = Cardinality(Nexts(t))
  BY CountsNat
<1>4. PICK p \in Nat : p = Cardinality(Pushers(t))
  BY CountsNat
<1>5. PICK e \in Nat : e = Cardinality(Executors(t))
  BY CountsNat
<1>6. Places(t) = r + m + x + p + e
  BY <1>1, <1>2, <1>3, <1>4, <1>5 DEF Places
<1>7. /\ Places(t) \in Nat
      /\ Places(t) = 0 <=> r = 0 /\ m = 0 /\ x = 0 /\ p = 0 /\ e = 0
      /\ Places(t) = 1 =>
           /\ r # 0 => m = 0 /\ x = 0 /\ p = 0 /\ e = 0
           /\ m # 0 => r = 0 /\ x = 0 /\ p = 0 /\ e = 0
           /\ x # 0 => r = 0 /\ m = 0 /\ p = 0 /\ e = 0 /\ x = 1
           /\ p # 0 => r = 0 /\ m = 0 /\ x = 0 /\ e = 0 /\ p = 1
           /\ e # 0 => r = 0 /\ m = 0 /\ x = 0 /\ p = 0 /\ e = 1
  BY <1>6
<1>8. /\ x = 0 <=> Nexts(t) = {}
      /\ p = 0 <=> Pushers(t) = {}
      /\ e = 0 <=> Executors(t) = {}
  BY <1>3, <1>4, <1>5, CountsZero
<1>9. (r = 0 <=> t \notin ready) /\ (m = 0 <=> t \notin readyNamed)
  BY <1>1, <1>2, InCount
<1> QED
  BY <1>3, <1>4, <1>5, <1>7, <1>8, <1>9

LEMMA OwedNat ==
  ASSUME NEW t
  PROVE  /\ Owed(t) \in Nat
         /\ Owed(t) = 0 <=> Gates(t) = {} /\ Lists(t) = {} /\ UnsettledOf(t) = {}
<1> QED
  BY CountsNat, CountsZero DEF Owed

\* A task that is in some place is in no other, and waits for nothing.
LEMMA PlaceUnique ==
  ASSUME SystemInv, NEW t \in Task,
         \/ t \in ready \/ t \in readyNamed
         \/ Nexts(t) # {} \/ Executors(t) # {} \/ Pushers(t) # {}
  PROVE  state[t] # "Pooled" /\ Owed(t) = 0 /\ Places(t) = 1
<1>1. Places(t) \in Nat /\ Places(t) # 0
  BY PlacesSum
<1>2. Pushers(t) \subseteq Creators(t) /\ t \in Object
  BY DEF Pushers, Object
<1>3. state[t] # "Pooled"
  BY <1>2, PooledUnreferenced
<1>4. state[t] \in {"Pending", "Done"}
  BY <1>2, <1>3 DEF SystemInv, TypeOK
<1> QED
  BY <1>1, <1>3, <1>4, OwedNat DEF SystemInv, OnePlace

-----------------------------------------------------------------------------
(* Which locals are set where: no count is involved. *)

LEMMA LocalsStep == SystemInv /\ [Next]_vars => LocalsFollowPc' /\ ExecFollowsPc'
<1> SUFFICES ASSUME SystemInv, [Next]_vars PROVE LocalsFollowPc' /\ ExecFollowsPc'
  OBVIOUS
<1> USE DEF SystemInv, TypeOK, LocalsFollowPc, ExecFollowsPc, InCall, InExecute, Thread,
            TaskOrNone
<1>1. ASSUME NEW th \in Thread, NEW t \in Task, NEW P \in SUBSET Usable(th),
             NEW C \in SUBSET Usable(th), NEW f, CreateTask(th, t, P, C, f)
      PROVE  LocalsFollowPc' /\ ExecFollowsPc'
  BY <1>1, PoolAssumption DEF CreateTask, User, Usable, Object, execVars
<1>2. ASSUME NEW th \in Thread, NEW f \in Future, MakeFuture(th, f)
      PROVE  LocalsFollowPc' /\ ExecFollowsPc'
  BY <1>2 DEF MakeFuture, execVars, newVars
<1>3. ASSUME NEW th \in Thread, NEW f \in Future, FutureDone(th, f)
      PROVE  LocalsFollowPc' /\ ExecFollowsPc'
  BY <1>3 DEF FutureDone, ConsumeAll, User, execVars, newVars
<1>4. ASSUME NEW th \in Thread, NEW o \in Object, DropHandle(th, o) \/ DropCapture(th, o)
      PROVE  LocalsFollowPc' /\ ExecFollowsPc'
  BY <1>4 DEF DropHandle, DropCapture, execVars, newVars
<1>5. ASSUME NEW th \in Thread, NEW p \in Object, CheckPrereq(th, p)
      PROVE  LocalsFollowPc' /\ ExecFollowsPc'
  BY <1>5 DEF CheckPrereq, execVars
<1>6. ASSUME NEW th \in Thread, AddDependency(th) \/ ReturnNode(th)
      PROVE  LocalsFollowPc' /\ ExecFollowsPc'
  <2>1. CASE AddDependency(th)
    BY <2>1, PoolAssumption DEF AddDependency, Object, execVars
  <2>2. CASE ReturnNode(th)
    BY <2>2, PoolAssumption DEF ReturnNode, Object, execVars
  <2> QED
    BY <1>6, <2>1, <2>2
<1>7. ASSUME NEW th \in Thread, SubtractInactive(th) \/ PushNew(th)
      PROVE  LocalsFollowPc' /\ ExecFollowsPc'
  <2>1. CASE SubtractInactive(th)
    BY <1>7, <2>1, PoolAssumption DEF SubtractInactive, ReturnNew, Caller, Object, execVars
  <2>2. CASE PushNew(th)
    BY <1>7, <2>2 DEF PushNew, ReturnNew, Caller, execVars
  <2> QED
    BY <1>7, <2>1, <2>2
<1>8. ASSUME NEW th \in Thread, ExecuteNew(th)
      PROVE  LocalsFollowPc' /\ ExecFollowsPc'
  BY <1>8 DEF ExecuteNew, objVars
<1>9. ASSUME NEW th \in Thread, FutureDoneReturns(th) \/ StartFunction(th)
      PROVE  LocalsFollowPc' /\ ExecFollowsPc'
  BY <1>9 DEF FutureDoneReturns, StartFunction, Caller, objVars, execVars, newVars
<1>10. ASSUME NEW th \in Thread, EndFunction(th)
      PROVE  LocalsFollowPc' /\ ExecFollowsPc'
  BY <1>10 DEF EndFunction, ConsumeAll, newVars
<1>11. ASSUME NEW th \in Thread, NEW t \in Task, OnUnblocked(th, t)
      PROVE  LocalsFollowPc' /\ ExecFollowsPc'
  BY <1>11 DEF OnUnblocked, newVars, execVars
<1>12. ASSUME NEW th \in Thread, ClearFunction(th) \/ EndExecute(th)
      PROVE  LocalsFollowPc' /\ ExecFollowsPc'
  BY <1>12, ThreadAssumption DEF ClearFunction, EndExecute, newVars, execVars
<1>13. ASSUME NEW th \in Thread, NEW t \in Task, Pop(th, t) \/ ExecuteATask(th, t)
      PROVE  LocalsFollowPc' /\ ExecFollowsPc'
  BY <1>13, PoolAssumption DEF Pop, ExecuteATask, Take, objVars, newVars, Object
<1>14. CASE UNCHANGED vars
  BY <1>14 DEF vars, newVars, execVars
<1> QED
  BY <1>1, <1>2, <1>3, <1>4, <1>5, <1>6, <1>7, <1>8, <1>9, <1>10, <1>11, <1>12, <1>13,
     <1>14
  DEF Next, UserStep, SystemStep
-----------------------------------------------------------------------------
(* What each step does to the counts. *)

Counts == RefsExact /\ CounterExact /\ OnePlace

\* User code can only reach objects that are not in their pool.
LEMMA UsableAlive ==
  ASSUME SystemInv, NEW th \in Thread, User(th), NEW o \in Usable(th)
  PROVE  o \in Object /\ state[o] # "Pooled"
<1>1. o \in Object
  BY DEF Usable, SystemInv, TypeOK, ExecFollowsPc, InExecute, TaskOrNone, InCall
<1>2. Holders(o) # {} \/ Capturers(o) # {}
  BY DEF Usable, Holders, Capturers, SystemInv, TypeOK, ExecFollowsPc, InExecute, InCall,
         TaskOrNone
<1> QED
  BY <1>1, <1>2, PooledUnreferenced

LEMMA CreateTaskCounts ==
  ASSUME SystemInv, NEW th \in Thread, NEW t \in Task, NEW P \in SUBSET Usable(th),
         NEW C \in SUBSET Usable(th), NEW f, CreateTask(th, t, P, C, f)
  PROVE  Counts'
<1>1. t \in Object /\ new[th] = None /\ ~node[th] /\ captures[t] = {} /\ None \notin Object
  BY PoolAssumption
  DEF Object, CreateTask, User, SystemInv, LocalsFollowPc, PooledClean, TypeOK
<1>2. /\ Holders(t) = {} /\ Capturers(t) = {} /\ Gates(t) = {} /\ Lists(t) = {}
      /\ Nodes(t) = {} /\ Creators(t) = {} /\ Nexts(t) = {} /\ Executors(t) = {}
      /\ t \notin ready /\ t \notin readyNamed
  BY <1>1, PooledUnreferenced DEF CreateTask
<1>3. P \subseteq Object /\ C \subseteq Object /\ t \notin P /\ t \notin C
  BY UsableAlive DEF CreateTask
<1>4. ASSUME NEW o \in Object
      PROVE  /\ Creators(o)' = IF o = t THEN {th} ELSE Creators(o)
             /\ UnsettledOf(o)' = IF o = t THEN P ELSE UnsettledOf(o)
             /\ Pushers(o)' = IF o = t THEN IF P = {} THEN {th} ELSE {} ELSE Pushers(o)
             /\ Nodes(o)' = Nodes(o)
             /\ Capturers(o)' = IF o \in C THEN Capturers(o) \cup {t} ELSE Capturers(o)
             /\ t \notin Capturers(o)
  <2>1. Creators(o)' = IF o = t THEN {th} ELSE Creators(o)
    BY <1>1, <1>2 DEF CreateTask, Creators, SystemInv, TypeOK
  <2>2. UnsettledOf(o)' = IF o = t THEN P ELSE UnsettledOf(o)
    <3>1. ASSUME o # t PROVE UnsettledOf(o)' = UnsettledOf(o)
      BY <1>1, <2>1, <3>1 DEF CreateTask, UnsettledOf, Unsettled, Creators, SystemInv, TypeOK
    <3>2. ASSUME o = t PROVE UnsettledOf(o)' = P
      BY <1>1, <1>3, <2>1, <3>2 DEF CreateTask, UnsettledOf, Unsettled, SystemInv, TypeOK,
         LocalsFollowPc, User
    <3> QED
      BY <3>1, <3>2
  <2>3. Pushers(o)' = IF o = t THEN IF P = {} THEN {th} ELSE {} ELSE Pushers(o)
    BY <1>1, <1>2, <2>1 DEF CreateTask, Pushers, Creators, SystemInv, TypeOK
  <2>4. Nodes(o)' = Nodes(o)
    BY <1>1, <1>2 DEF CreateTask, Nodes, SystemInv, TypeOK
  <2>5. /\ Capturers(o)' = IF o \in C THEN Capturers(o) \cup {t} ELSE Capturers(o)
        /\ t \notin Capturers(o)
    BY <1>1 DEF CreateTask, Capturers, SystemInv, TypeOK
  <2> QED
    BY <2>1, <2>2, <2>3, <2>4, <2>5
<1>5. ASSUME NEW o \in Object
      PROVE  /\ Holders(o)' = Holders(o) /\ Gates(o)' = Gates(o) /\ Lists(o)' = Lists(o)
             /\ Nexts(o)' = Nexts(o) /\ Executors(o)' = Executors(o)
             /\ In(o, ready)' = In(o, ready) /\ In(o, readyNamed)' = In(o, readyNamed)
  BY SameCounts DEF CreateTask, execVars
<1>6. RefsExact'
  <2> SUFFICES ASSUME NEW o \in Object PROVE refs'[o] = RefsTo(o)'
    BY DEF RefsExact
  <2>1. refs'[o] = IF o = t \/ o \in C THEN refs[o] + 1 ELSE refs[o]
    BY DEF CreateTask, AddRef
  <2>2. Cardinality(Creators(o)') = Cardinality(Creators(o)) + IF o = t THEN 1 ELSE 0
    <3>1. Cardinality({th}) = 1 /\ Cardinality({}) = 0
      BY FS_EmptySet, FS_Singleton
    <3>2. CASE o = t
      <4>1. Creators(o) = {} /\ Creators(o)' = {th}
        BY <1>2, <1>4, <3>2
      <4> QED
        BY <3>1, <3>2, <4>1
    <3>3. CASE o # t
      BY <1>4, <3>3, CountsNat
    <3> QED
      BY <3>2, <3>3
  <2>3. Cardinality(Capturers(o)') = Cardinality(Capturers(o)) + IF o \in C THEN 1 ELSE 0
    BY <1>4, Counted, CountGain, CountsNat
  <2> QED
    BY <1>3, <1>4, <1>5, <2>1, <2>2, <2>3, CountsNat, InCount
    DEF RefsTo, SystemInv, RefsExact
<1>7. /\ Owed(t)' = Cardinality(P) /\ Cardinality(P) \in Nat
      /\ Cardinality(P) = 0 <=> P = {}
  <2>1. Gates(t)' = {} /\ Lists(t)' = {} /\ UnsettledOf(t)' = P
    BY <1>1, <1>2, <1>4, <1>5
  <2>2. Cardinality(P) \in Nat /\ (Cardinality(P) = 0 <=> P = {})
    BY <1>3, CountNat DEF Referrer
  <2> QED
    BY <2>1, <2>2, FS_EmptySet DEF Owed
<1>8. CounterExact'
  <2> SUFFICES ASSUME NEW x \in Task PROVE prerequires'[x] = Owed(x)'
    BY DEF CounterExact
  <2>1. x \in Object
    BY DEF Object
  <2>2. CASE x = t
    BY <1>7, <2>2 DEF CreateTask, InitialCount, SystemInv, TypeOK
  <2>3. CASE x # t
    BY <1>4, <1>5, <2>1, <2>3
    DEF CreateTask, Owed, SystemInv, TypeOK, CounterExact
  <2> QED
    BY <2>2, <2>3
<1>9. OnePlace'
  <2> SUFFICES ASSUME NEW x \in Task
               PROVE  /\ state'[x] = "Pending" => Places(x)' = IF Owed(x)' = 0 THEN 1 ELSE 0
                      /\ state'[x] = "Done" => /\ Owed(x)' = 0 /\ Places(x)' <= 1
                                              /\ Places(x)' = Cardinality(Executors(x)')
    BY DEF OnePlace
  <2>1. x \in Object
    BY DEF Object
  <2>2. CASE x = t
    <3>1. /\ Nexts(t)' = {} /\ Executors(t)' = {}
          /\ Pushers(t)' = IF P = {} THEN {th} ELSE {}
          /\ In(t, ready)' = 0 /\ In(t, readyNamed)' = 0
      BY <1>1, <1>2, <1>4, <1>5, InCount
    <3>2. Cardinality({th}) = 1 /\ Cardinality({}) = 0
      BY FS_EmptySet, FS_Singleton
    <3>3. Places(t)' = IF P = {} THEN 1 ELSE 0
      BY <3>1, <3>2 DEF Places
    <3>4. state'[t] = "Pending"
      BY <1>1 DEF CreateTask, SystemInv, TypeOK
    <3> QED
      BY <1>7, <2>2, <3>3, <3>4
  <2>3. CASE x # t
    BY <1>4, <1>5, <2>1, <2>3
    DEF CreateTask, Owed, Places, SystemInv, TypeOK, OnePlace
  <2> QED
    BY <2>2, <2>3
<1> QED
  BY <1>6, <1>8, <1>9 DEF Counts

\* A thread that creates a task: it is its only creator.
LEMMA CreatorAlone ==
  ASSUME SystemInv, NEW th \in Thread, new[th] # None
  PROVE  /\ new[th] \in Task /\ new[th] \in Object
         /\ Creators(new[th]) = {th}
         /\ UnsettledOf(new[th]) = Unsettled(th)
         /\ Pushers(new[th]) = IF pc[th] = "prereq" THEN {} ELSE {th}
         /\ Holders(new[th]) = {}
         /\ \A o \in Object : o # new[th] => th \notin Creators(o)
<1>1. new[th] \in Task /\ new[th] \in Object
  BY DEF SystemInv, TypeOK, TaskOrNone, Object
<1>2. Creators(new[th]) = {th}
  BY DEF SystemInv, NewUnshared
<1>3. UnsettledOf(new[th]) = Unsettled(th)
  BY <1>2, PoolAssumption DEF UnsettledOf, Unsettled, SystemInv, TypeOK
<1>4. Pushers(new[th]) = IF pc[th] = "prereq" THEN {} ELSE {th}
  BY <1>2 DEF Pushers, SystemInv, LocalsFollowPc
<1> QED
  BY <1>1, <1>2, <1>3, <1>4 DEF SystemInv, NewUnshared, Creators

LEMMA CheckPrereqCounts ==
  ASSUME SystemInv, NEW th \in Thread, NEW p \in Object, CheckPrereq(th, p)
  PROVE  Counts'
<1> DEFINE t == new[th]
<1>1. /\ t \in Task /\ t \in Object /\ None \notin Object
      /\ \A o \in Object : o # t => th \notin Creators(o)
  BY CreatorAlone, PoolAssumption DEF CheckPrereq, SystemInv, LocalsFollowPc
<1>2. ASSUME NEW o \in Object
      PROVE  /\ Nodes(o)' = IF o = t /\ state[p] = "Pending" THEN Nodes(o) \cup {th}
                            ELSE Nodes(o)
             /\ (o = t /\ ~node[th]) <=> (o = t /\ th \notin Nodes(o))
             /\ UnsettledOf(o)' = UnsettledOf(o)
             /\ Pushers(o)' = Pushers(o) /\ Creators(o)' = Creators(o)
  BY <1>1
  DEF CheckPrereq, Nodes, UnsettledOf, Unsettled, Creators, Pushers, SystemInv, TypeOK
<1>3. ASSUME NEW o \in Object
      PROVE  /\ Holders(o)' = Holders(o) /\ Capturers(o)' = Capturers(o)
             /\ Gates(o)' = Gates(o) /\ Lists(o)' = Lists(o)
             /\ Nexts(o)' = Nexts(o) /\ Executors(o)' = Executors(o)
             /\ In(o, ready)' = In(o, ready) /\ In(o, readyNamed)' = In(o, readyNamed)
  BY SameCounts DEF CheckPrereq, execVars
<1>4. RefsExact'
  <2> SUFFICES ASSUME NEW o \in Object PROVE refs'[o] = RefsTo(o)'
    BY DEF RefsExact
  <2> DEFINE d == IF o = t /\ state[p] = "Pending" /\ ~node[th] THEN 1 ELSE 0
  <2>1. refs'[o] = refs[o] + d
    BY DEF CheckPrereq, AddRef, SystemInv, TypeOK
  <2>2. Cardinality(Nodes(o)') = Cardinality(Nodes(o)) + d
    <3>1. CASE d = 1
      BY <1>2, <3>1, Counted, CountGain
    <3>2. CASE d = 0
      <4>1. Nodes(o)' = Nodes(o)
        BY <1>2, <3>2
      <4> QED
        BY <4>1, <3>2, CountsNat
    <3> QED
      BY <3>1, <3>2
  <2>3. d \in Nat
    OBVIOUS
  <2> HIDE DEF d
  <2> QED
    BY <1>2, <1>3, <2>3, <2>1, <2>2, CountsNat, InCount DEF RefsTo, SystemInv, RefsExact
<1>5. CounterExact'
  BY <1>2, <1>3 DEF CheckPrereq, Object, CounterExact, Owed, SystemInv
<1>6. OnePlace'
  BY <1>2, <1>3 DEF CheckPrereq, AddRef, Object, OnePlace, Owed, Places, SystemInv
<1> QED
  BY <1>4, <1>5, <1>6 DEF Counts

LEMMA AddDependencyCounts ==
  ASSUME SystemInv, NEW th \in Thread, AddDependency(th)
  PROVE  Counts'
<1> DEFINE t == new[th]
           p == adding[th]
           added == state[p] = "Pending"
<1>1. /\ t \in Task /\ t \in Object /\ p \in Object /\ node[th] /\ None \notin Object
      /\ t \notin dependents[p] /\ p \in Unsettled(th)
      /\ p \notin todo[th] \cup inactive[th]
      /\ UnsettledOf(t) = Unsettled(th) /\ Creators(t) = {th}
      /\ \A o \in Object : o # t => th \notin Creators(o)
  BY CreatorAlone, PoolAssumption
  DEF AddDependency, SystemInv, LocalsFollowPc, CreatorHolds, Unsettled, TypeOK
<1>2. ASSUME NEW o \in Object
      PROVE  /\ Nodes(o)' = IF o = t /\ added THEN Nodes(o) \ {th} ELSE Nodes(o)
             /\ o = t => th \in Nodes(o)
             /\ Gates(o)' = IF o = t /\ added THEN Gates(o) \cup {p} ELSE Gates(o)
             /\ o = t => p \notin Gates(o)
             /\ UnsettledOf(o)' = IF o = t /\ added THEN UnsettledOf(o) \ {p}
                                  ELSE UnsettledOf(o)
             /\ o = t => p \in UnsettledOf(o)
  <2>1. /\ Nodes(o)' = IF o = t /\ added THEN Nodes(o) \ {th} ELSE Nodes(o)
        /\ o = t => th \in Nodes(o)
    BY <1>1 DEF AddDependency, Nodes, SystemInv, TypeOK
  <2>2. /\ Gates(o)' = IF o = t /\ added THEN Gates(o) \cup {p} ELSE Gates(o)
        /\ o = t => p \notin Gates(o)
    BY <1>1 DEF AddDependency, Gates, SystemInv, TypeOK
  <2>3. Creators(o)' = Creators(o)
    BY DEF AddDependency, Creators
  <2>4. CASE o = t
    <3>1. UnsettledOf(o)' = Unsettled(th)'
      BY <1>1, <2>3, <2>4 DEF AddDependency, UnsettledOf, Unsettled, SystemInv, TypeOK
    <3>2. Unsettled(th)' = IF added THEN Unsettled(th) \ {p} ELSE Unsettled(th)
      BY <1>1 DEF AddDependency, Unsettled, SystemInv, TypeOK
    <3> QED
      BY <1>1, <2>1, <2>2, <2>4, <3>1, <3>2
  <2>5. CASE o # t
    <3>1. \A h \in Creators(o) : Unsettled(h)' = Unsettled(h)
      BY <1>1, <2>5 DEF AddDependency, Unsettled, Creators, SystemInv, TypeOK
    <3>2. UnsettledOf(o)' = UnsettledOf(o)
      BY <2>3, <3>1 DEF UnsettledOf
    <3> QED
      BY <2>1, <2>2, <2>5, <3>2
  <2> QED
    BY <2>4, <2>5
<1>3. ASSUME NEW o \in Object
      PROVE  /\ Holders(o)' = Holders(o) /\ Capturers(o)' = Capturers(o)
             /\ Lists(o)' = Lists(o) /\ Creators(o)' = Creators(o)
             /\ Nexts(o)' = Nexts(o) /\ Executors(o)' = Executors(o)
             /\ Pushers(o)' = Pushers(o)
             /\ In(o, ready)' = In(o, ready) /\ In(o, readyNamed)' = In(o, readyNamed)
  BY SameCounts DEF AddDependency, execVars
<1>4. ASSUME NEW o \in Object
      PROVE  /\ Cardinality(Nodes(o)') = Cardinality(Nodes(o)) - IF o = t /\ added THEN 1 ELSE 0
             /\ Cardinality(Gates(o)') = Cardinality(Gates(o)) + IF o = t /\ added THEN 1 ELSE 0
             /\ Cardinality(UnsettledOf(o)') =
                  Cardinality(UnsettledOf(o)) - IF o = t /\ added THEN 1 ELSE 0
  BY <1>2, Counted, CountGain, CountLoss, CountsNat
<1>5. RefsExact'
  <2> SUFFICES ASSUME NEW o \in Object PROVE refs'[o] = RefsTo(o)'
    BY DEF RefsExact
  <2>1. refs'[o] = refs[o]
    BY DEF AddDependency
  <2> QED
    BY <1>3, <1>4, <2>1, CountsNat, InCount DEF RefsTo, SystemInv, RefsExact
<1>6. ASSUME NEW x \in Task PROVE Owed(x)' = Owed(x) /\ Places(x)' = Places(x)
  BY <1>3, <1>4, CountsNat DEF Owed, Places, Object
<1>7. CounterExact' /\ OnePlace'
  BY <1>3, <1>6 DEF AddDependency, CounterExact, OnePlace, SystemInv, Object
<1> QED
  BY <1>5, <1>7 DEF Counts

LEMMA ReturnNodeCounts ==
  ASSUME SystemInv, NEW th \in Thread, ReturnNode(th)
  PROVE  Counts'
<1> DEFINE t == new[th]
<1>1. t \in Task /\ t \in Object /\ None \notin Object
  BY CreatorAlone, PoolAssumption DEF ReturnNode, SystemInv, LocalsFollowPc
<1>2. ASSUME NEW o \in Object
      PROVE  /\ Nodes(o)' = IF o = t THEN Nodes(o) \ {th} ELSE Nodes(o)
             /\ o = t => th \in Nodes(o)
  BY <1>1 DEF ReturnNode, Nodes, SystemInv, TypeOK
<1>3. ASSUME NEW o \in Object
      PROVE  /\ Holders(o)' = Holders(o) /\ Capturers(o)' = Capturers(o)
             /\ Gates(o)' = Gates(o) /\ Lists(o)' = Lists(o) /\ Creators(o)' = Creators(o)
             /\ Nexts(o)' = Nexts(o) /\ Executors(o)' = Executors(o)
             /\ Pushers(o)' = Pushers(o) /\ UnsettledOf(o)' = UnsettledOf(o)
             /\ In(o, ready)' = In(o, ready) /\ In(o, readyNamed)' = In(o, readyNamed)
  BY SameCounts DEF ReturnNode, execVars
<1>4. ASSUME NEW o \in Object
      PROVE  Cardinality(Nodes(o)') = Cardinality(Nodes(o)) - IF o = t THEN 1 ELSE 0
  BY <1>2, Counted, CountLoss, CountsNat
<1>5. RefsExact'
  <2> SUFFICES ASSUME NEW o \in Object PROVE refs'[o] = RefsTo(o)'
    BY DEF RefsExact
  <2>1. refs'[o] = refs[o] - IF o = t THEN 1 ELSE 0
    BY DEF ReturnNode, Release, SystemInv, TypeOK
  <2> QED
    BY <1>3, <1>4, <2>1, CountsNat, InCount DEF RefsTo, SystemInv, RefsExact
<1>6. ASSUME NEW x \in Task PROVE Owed(x)' = Owed(x) /\ Places(x)' = Places(x)
  BY <1>3 DEF Owed, Places, Object
<1>7. CounterExact' /\ OnePlace'
  BY <1>3, <1>6 DEF ReturnNode, Release, CounterExact, OnePlace, SystemInv, Object, TypeOK
<1> QED
  BY <1>5, <1>7 DEF Counts

LEMMA SubtractInactiveCounts ==
  ASSUME SystemInv, NEW th \in Thread, SubtractInactive(th), NEW t, t = new[th]
  PROVE  Counts'
<1> DEFINE n == Cardinality(inactive[th])
<1>1. /\ t \in Task /\ t \in Object /\ None \notin Object
      /\ Unsettled(th) = inactive[th] /\ UnsettledOf(t) = inactive[th]
      /\ Creators(t) = {th} /\ Pushers(t) = {} /\ Holders(t) = {}
      /\ \A o \in Object : o # t => th \notin Creators(o)
  <2>1. new[th] # None /\ pc[th] = "prereq" /\ None \notin Object
    BY PoolAssumption DEF SubtractInactive, SystemInv, LocalsFollowPc
  <2>2. Unsettled(th) = inactive[th]
    BY DEF SubtractInactive, Unsettled
  <2> QED
    BY <2>1, <2>2, CreatorAlone
<1>2. n \in Nat /\ (n = 0 <=> inactive[th] = {})
  BY <1>1, CountsNat, CountsZero
<1>3. ASSUME NEW o \in Object
      PROVE  /\ Capturers(o)' = Capturers(o)
             /\ Gates(o)' = Gates(o) /\ Lists(o)' = Lists(o)
             /\ Nexts(o)' = Nexts(o) /\ Executors(o)' = Executors(o)
             /\ In(o, ready)' = In(o, ready) /\ In(o, readyNamed)' = In(o, readyNamed)
  BY SameCounts DEF SubtractInactive, execVars
<1>4. Nodes(t) = {} /\ Nodes(t)' = {}
  BY <1>1 DEF SubtractInactive, Nodes, Creators, SystemInv, TypeOK, ReturnNew
<1>5. ASSUME NEW o \in Object, o # t
      PROVE  /\ Holders(o)' = Holders(o) /\ Creators(o)' = Creators(o)
             /\ Nodes(o)' = Nodes(o) /\ Pushers(o)' = Pushers(o)
             /\ UnsettledOf(o)' = UnsettledOf(o)
  <2>1. Holders(o)' = Holders(o) /\ Creators(o)' = Creators(o) /\ Nodes(o)' = Nodes(o)
    <3>1. /\ UNCHANGED node
          /\ \A h \in Thread : (o \in held'[h]) = (o \in held[h])
          /\ \A h \in Thread : (new'[h] = o) = (new[h] = o)
      <4>1. CASE TookLast(th)
        BY <4>1 DEF SubtractInactive
      <4>2. CASE ~TookLast(th)
        BY <1>1, <1>5, <4>2 DEF SubtractInactive, ReturnNew, SystemInv, TypeOK
      <4> QED
        BY <4>1, <4>2
    <3>2. Holders(o)' = Holders(o)
      BY <3>1 DEF Holders
    <3>3. Creators(o)' = Creators(o) /\ Nodes(o)' = Nodes(o)
      BY <3>1 DEF Creators, Nodes
    <3> QED
      BY <3>2, <3>3
  <2>2. \A h \in Creators(o) : Unsettled(h)' = Unsettled(h) /\ pc'[h] = pc[h]
    BY <1>1, <1>5
    DEF SubtractInactive, ReturnNew, Unsettled, Creators, SystemInv, TypeOK
  <2> QED
    BY <2>1, <2>2 DEF UnsettledOf, Pushers
<1>6. Unsettled(th)' = {}
  BY <1>1 DEF SubtractInactive, Unsettled, SystemInv, TypeOK
<1>7. UnsettledOf(t)' = {}
  <2>1. Creators(t)' \subseteq {th}
    BY <1>1 DEF SubtractInactive, ReturnNew, Creators, SystemInv, TypeOK
  <2> QED
    BY <2>1, <1>6 DEF UnsettledOf
<1>8. Owed(t) = Owed(t)' + n /\ Owed(t)' \in Nat
  BY <1>1, <1>2, <1>3, <1>7, CountsNat, FS_EmptySet DEF Owed
<1>9. ASSUME NEW x \in Task, x # t PROVE Owed(x)' = Owed(x) /\ Places(x)' = Places(x)
  BY <1>3, <1>5, <1>9 DEF Owed, Places, Object
<1>10. CounterExact'
  <2> SUFFICES ASSUME NEW x \in Task PROVE prerequires'[x] = Owed(x)'
    BY DEF CounterExact
  <2>1. CASE x = t
    BY <1>1, <1>2, <1>8, <2>1 DEF SubtractInactive, SystemInv, TypeOK, CounterExact
  <2>2. CASE x # t
    BY <1>1, <1>9, <2>2 DEF SubtractInactive, SystemInv, TypeOK, CounterExact
  <2> QED
    BY <2>1, <2>2
<1>11. prerequires[t] = Owed(t)
  BY <1>1 DEF SystemInv, CounterExact
<1>12. ASSUME NEW x \in Task, x # t
       PROVE  /\ state'[x] = "Pending" => Places(x)' = IF Owed(x)' = 0 THEN 1 ELSE 0
              /\ state'[x] = "Done" => /\ Owed(x)' = 0 /\ Places(x)' <= 1
                                      /\ Places(x)' = Cardinality(Executors(x)')
  BY <1>3, <1>9, <1>12 DEF SubtractInactive, SystemInv, OnePlace, Object
<1>13. CASE TookLast(th)
  <2>1. /\ Holders(t)' = Holders(t) /\ Creators(t)' = Creators(t) /\ Pushers(t)' = {th}
    BY <1>1, <1>13
    DEF SubtractInactive, Holders, Creators, Pushers, SystemInv, TypeOK
  <2>2. Owed(t)' = 0 /\ Owed(t) # 0
    BY <1>2, <1>8, <1>11, <1>13 DEF TookLast
  <2>3. state[t] = "Pending" /\ Places(t) = 0
    <3>1. state[t] # "Pooled"
      BY <1>1, PooledUnreferenced
    <3> QED
      BY <1>1, <2>2, <3>1 DEF SystemInv, OnePlace, TypeOK
  <2>4. Places(t)' = 1
    <3>1. Nexts(t) = {} /\ Executors(t) = {} /\ In(t, ready) = 0 /\ In(t, readyNamed) = 0
      BY <2>3, PlacesSum, InCount
    <3>2. Cardinality({th}) = 1 /\ Cardinality({}) = 0
      BY FS_EmptySet, FS_Singleton
    <3> QED
      BY <1>1, <1>3, <2>1, <3>1, <3>2 DEF Places
  <2>5. OnePlace'
    BY <1>1, <1>12, <2>2, <2>3, <2>4 DEF SubtractInactive, OnePlace
  <2>6. RefsExact'
    <3> SUFFICES ASSUME NEW o \in Object PROVE refs'[o] = RefsTo(o)'
      BY DEF RefsExact
    <3>1. Holders(o)' = Holders(o) /\ Creators(o)' = Creators(o) /\ Nodes(o)' = Nodes(o)
      BY <1>4, <1>5, <2>1
    <3> QED
      BY <1>3, <3>1 DEF SubtractInactive, RefsTo, SystemInv, RefsExact
  <2> QED
    BY <1>10, <2>5, <2>6 DEF Counts
<1>14. CASE ~TookLast(th)
  <2>1. /\ Holders(t)' = {th} /\ Creators(t)' = {} /\ Pushers(t)' = {}
    <3>1. /\ new' = [new EXCEPT ![th] = None] /\ held' = [held EXCEPT ![th] = @ \cup {t}]
          /\ new \in [Thread -> TaskOrNone] /\ held \in [Thread -> SUBSET Object]
      BY <1>14 DEF SubtractInactive, ReturnNew, SystemInv, TypeOK
    <3>2. Holders(t)' = {th}
      BY <1>1, <3>1 DEF Holders
    <3>3. Creators(t)' = {}
      BY <1>1, <3>1 DEF Creators
    <3> QED
      BY <3>2, <3>3 DEF Pushers
  <2>2. Owed(t)' = 0 <=> Owed(t) = 0
    BY <1>2, <1>8, <1>11, <1>14 DEF TookLast
  <2>3. Places(t)' = Places(t)
    BY <1>1, <1>3, <2>1 DEF Places
  <2>4. OnePlace'
    BY <1>1, <1>3, <1>12, <2>2, <2>3 DEF SubtractInactive, OnePlace, SystemInv
  <2>5. RefsExact'
    <3> SUFFICES ASSUME NEW o \in Object PROVE refs'[o] = RefsTo(o)'
      BY DEF RefsExact
    <3>1. refs'[o] = refs[o] /\ refs[o] = RefsTo(o)
      BY DEF SubtractInactive, SystemInv, RefsExact
    <3>2. CASE o = t
      <4>1. Cardinality({th}) = 1 /\ Cardinality({}) = 0
        BY FS_EmptySet, FS_Singleton
      <4>2. /\ Cardinality(Holders(t)') = 1 /\ Cardinality(Holders(t)) = 0
            /\ Cardinality(Creators(t)') = 0 /\ Cardinality(Creators(t)) = 1
            /\ Nodes(t)' = Nodes(t)
        BY <1>1, <1>4, <2>1, <4>1
      <4> QED
        BY <1>3, <3>1, <3>2, <4>2, CountsNat, InCount DEF RefsTo
    <3>3. CASE o # t
      BY <1>3, <1>5, <3>1, <3>3 DEF RefsTo
    <3> QED
      BY <3>2, <3>3
  <2> QED
    BY <1>10, <2>4, <2>5 DEF Counts
<1> QED
  BY <1>13, <1>14

LEMMA PushNewCounts ==
  ASSUME SystemInv, NEW th \in Thread, PushNew(th), NEW t, t = new[th]
  PROVE  Counts'
<1>1. /\ t \in Task /\ t \in Object /\ None \notin Object
      /\ Unsettled(th) = {} /\ UnsettledOf(t) = {}
      /\ Creators(t) = {th} /\ Pushers(t) = {th} /\ Holders(t) = {} /\ ~node[th]
      /\ \A o \in Object : o # t => th \notin Creators(o)
  BY CreatorAlone, PoolAssumption DEF PushNew, SystemInv, LocalsFollowPc, Unsettled
<1>2. Owed(t) = 0 /\ Places(t) = 1
  BY <1>1, PlaceUnique
<1>3. t \notin ready /\ t \notin readyNamed /\ Nexts(t) = {} /\ Executors(t) = {}
  BY <1>1, <1>2, PlacesSum
<1>4. ASSUME NEW o \in Object
      PROVE  /\ Capturers(o)' = Capturers(o)
             /\ Gates(o)' = Gates(o) /\ Lists(o)' = Lists(o)
             /\ Nexts(o)' = Nexts(o) /\ Executors(o)' = Executors(o)
  BY SameCounts DEF PushNew, execVars
<1>5. ASSUME NEW o \in Object
      PROVE  /\ Holders(o)' = IF o = t THEN {th} ELSE Holders(o)
             /\ Creators(o)' = IF o = t THEN {} ELSE Creators(o)
             /\ Nodes(o)' = Nodes(o)
             /\ Pushers(o)' = IF o = t THEN {} ELSE Pushers(o)
             /\ UnsettledOf(o)' = UnsettledOf(o)
             /\ o = t => In(o, ready)' + In(o, readyNamed)' = 1
             /\ o # t => /\ In(o, ready)' = In(o, ready)
                        /\ In(o, readyNamed)' = In(o, readyNamed)
  <2>1. /\ Holders(o)' = IF o = t THEN {th} ELSE Holders(o)
        /\ Creators(o)' = IF o = t THEN {} ELSE Creators(o)
        /\ Nodes(o)' = Nodes(o)
    BY <1>1 DEF PushNew, ReturnNew, Holders, Creators, Nodes, SystemInv, TypeOK
  <2>2. \A h \in Creators(o)' : Unsettled(h)' = Unsettled(h) /\ pc'[h] = pc[h]
    BY <1>1 DEF PushNew, ReturnNew, Unsettled, Creators, SystemInv, TypeOK
  <2>3. Pushers(o)' = IF o = t THEN {} ELSE Pushers(o)
    BY <2>1, <2>2 DEF Pushers
  <2>4. UnsettledOf(o)' = UnsettledOf(o)
    BY <1>1, <2>1, <2>2 DEF UnsettledOf
  <2>5. /\ o = t => In(o, ready)' + In(o, readyNamed)' = 1
        /\ o # t => /\ In(o, ready)' = In(o, ready)
                   /\ In(o, readyNamed)' = In(o, readyNamed)
    BY <1>3 DEF PushNew, Push, In
  <2> QED
    BY <2>1, <2>3, <2>4, <2>5
<1>6. Cardinality({th}) = 1 /\ Cardinality({}) = 0
  BY FS_EmptySet, FS_Singleton
<1>7. RefsExact'
  <2> SUFFICES ASSUME NEW o \in Object PROVE refs'[o] = RefsTo(o)'
    BY DEF RefsExact
  <2>1. refs[o] = RefsTo(o) /\ refs'[o] = IF o = t THEN refs[o] + 1 ELSE refs[o]
    BY DEF PushNew, AddRef, SystemInv, RefsExact
  <2>2. CASE o = t
    <3>1. /\ Cardinality(Holders(t)') = 1 /\ Cardinality(Holders(t)) = 0
          /\ Cardinality(Creators(t)') = 0 /\ Cardinality(Creators(t)) = 1
      BY <1>1, <1>5, <1>6
    <3>2. In(t, ready) = 0 /\ In(t, readyNamed) = 0
      BY <1>3, InCount
    <3>3. In(t, ready)' + In(t, readyNamed)' = 1
      BY <1>1, <1>5
    <3> QED
      BY <1>4, <1>5, <2>1, <2>2, <3>1, <3>2, <3>3, CountsNat, InCount DEF RefsTo
  <2>3. CASE o # t
    BY <1>4, <1>5, <2>1, <2>3, CountsNat, InCount DEF RefsTo
  <2> QED
    BY <2>2, <2>3
<1>8. ASSUME NEW x \in Task PROVE Owed(x)' = Owed(x)
  BY <1>4, <1>5 DEF Owed, Object
<1>9. ASSUME NEW x \in Task PROVE Places(x)' = Places(x)
  <2>1. x \in Object
    BY DEF Object
  <2>2. CASE x = t
    <3>1. In(t, ready)' + In(t, readyNamed)' = 1
      BY <1>1, <1>5
    <3>2. /\ Cardinality(Nexts(t)') = 0 /\ Cardinality(Executors(t)') = 0
          /\ Cardinality(Pushers(t)') = 0
      BY <1>1, <1>3, <1>4, <1>5, <1>6
    <3> QED
      BY <1>2, <2>2, <3>1, <3>2 DEF Places
  <2>3. CASE x # t
    BY <1>4, <1>5, <2>1, <2>3 DEF Places
  <2> QED
    BY <2>2, <2>3
<1>10. CounterExact' /\ OnePlace'
  BY <1>4, <1>8, <1>9 DEF PushNew, CounterExact, OnePlace, SystemInv, Object
<1> QED
  BY <1>7, <1>10 DEF Counts

LEMMA ExecuteNewCounts ==
  ASSUME SystemInv, NEW th \in Thread, ExecuteNew(th), NEW t, t = new[th]
  PROVE  Counts'
<1>1. /\ t \in Task /\ t \in Object /\ None \notin Object
      /\ Unsettled(th) = {} /\ UnsettledOf(t) = {}
      /\ Creators(t) = {th} /\ Pushers(t) = {th} /\ ~node[th]
      /\ \A o \in Object : o # t => th \notin Creators(o)
  BY CreatorAlone, PoolAssumption DEF ExecuteNew, SystemInv, LocalsFollowPc, Unsettled
<1>2. Owed(t) = 0 /\ Places(t) = 1
  BY <1>1, PlaceUnique
<1>3. t \notin ready /\ t \notin readyNamed /\ Nexts(t) = {} /\ Executors(t) = {}
  BY <1>1, <1>2, PlacesSum
<1>4. ASSUME NEW o \in Object
      PROVE  /\ Holders(o)' = Holders(o) /\ Capturers(o)' = Capturers(o)
             /\ Gates(o)' = Gates(o) /\ Lists(o)' = Lists(o) /\ Nexts(o)' = Nexts(o)
             /\ In(o, ready)' = In(o, ready) /\ In(o, readyNamed)' = In(o, readyNamed)
  BY SameCounts DEF ExecuteNew, objVars
<1>5. refs' = refs /\ prerequires' = prerequires /\ state' = state
  BY DEF ExecuteNew, objVars
<1>6. CASE current_task[th] # None
  <2>1. ASSUME NEW o \in Object
        PROVE  /\ Creators(o)' = Creators(o) /\ Nodes(o)' = Nodes(o)
               /\ UnsettledOf(o)' = UnsettledOf(o) /\ Executors(o)' = Executors(o)
    BY <1>6, SameCounts DEF ExecuteNew
  <2>2. ASSUME NEW o \in Object PROVE Pushers(o)' = Pushers(o)
    <3>1. \A h \in Thread : pc'[h] \in {"ready", "aborted"} <=> pc[h] \in {"ready", "aborted"}
      BY <1>6 DEF ExecuteNew, SystemInv, TypeOK
    <3>2. Creators(o)' = Creators(o) /\ Creators(o) \subseteq Thread
      BY <2>1, <2>2 DEF Creators
    <3> QED
      BY <3>1, <3>2 DEF Pushers
  <2> QED
    BY <1>4, <1>5, <2>1, <2>2
    DEF Counts, RefsExact, CounterExact, OnePlace, RefsTo, Owed, Places, SystemInv, Object
<1>7. CASE current_task[th] = None
  <2>1. exec[th] = None
    BY <1>7 DEF ExecuteNew, SystemInv, ExecFollowsPc, InCall
  <2>2. ASSUME NEW o \in Object
        PROVE  /\ Creators(o)' = IF o = t THEN {} ELSE Creators(o)
               /\ Nodes(o)' = Nodes(o)
               /\ Executors(o)' = IF o = t THEN {th} ELSE Executors(o)
               /\ Pushers(o)' = IF o = t THEN {} ELSE Pushers(o)
               /\ UnsettledOf(o)' = UnsettledOf(o)
    <3>1. /\ Creators(o)' = IF o = t THEN {} ELSE Creators(o)
          /\ Nodes(o)' = Nodes(o)
      BY <1>1, <1>7 DEF ExecuteNew, Creators, Nodes, SystemInv, TypeOK
    <3>2. Executors(o)' = IF o = t THEN {th} ELSE Executors(o)
      BY <1>1, <1>3, <1>7, <2>1 DEF ExecuteNew, Executors, SystemInv, TypeOK
    <3>3. \A h \in Creators(o)' : Unsettled(h)' = Unsettled(h) /\ pc'[h] = pc[h]
      BY <1>1, <1>7 DEF ExecuteNew, Unsettled, Creators, SystemInv, TypeOK
    <3>4. Pushers(o)' = IF o = t THEN {} ELSE Pushers(o)
      BY <3>1, <3>3 DEF Pushers
    <3>5. UnsettledOf(o)' = UnsettledOf(o)
      BY <1>1, <3>1, <3>3 DEF UnsettledOf
    <3> QED
      BY <3>1, <3>2, <3>4, <3>5
  <2>3. Cardinality({th}) = 1 /\ Cardinality({}) = 0
    BY FS_EmptySet, FS_Singleton
  <2>4. RefsExact'
    <3> SUFFICES ASSUME NEW o \in Object PROVE refs'[o] = RefsTo(o)'
      BY DEF RefsExact
    <3>1. refs'[o] = RefsTo(o)
      BY <1>5 DEF SystemInv, RefsExact
    <3>2. CASE o = t
      <4>1. /\ Cardinality(Executors(t)') = 1 /\ Cardinality(Executors(t)) = 0
            /\ Cardinality(Creators(t)') = 0 /\ Cardinality(Creators(t)) = 1
        BY <1>1, <1>3, <2>2, <2>3
      <4> QED
        BY <1>4, <2>2, <3>1, <3>2, <4>1, CountsNat, InCount DEF RefsTo
    <3>3. CASE o # t
      BY <1>4, <2>2, <3>1, <3>3 DEF RefsTo
    <3> QED
      BY <3>2, <3>3
  <2>5. ASSUME NEW x \in Task PROVE Owed(x)' = Owed(x)
    BY <1>4, <2>2 DEF Owed, Object
  <2>6. state[t] = "Pending" \/ state[t] = "Done"
    BY <1>1, PlaceUnique DEF SystemInv, TypeOK
  <2>7. state[t] = "Pending"
    <3>1. state[t] = "Done" => Places(t) = 0
      BY <1>1, <1>3, <2>3 DEF SystemInv, OnePlace
    <3> QED
      BY <1>2, <2>6, <3>1
  <2>8. Places(t)' = 1
    <3>1. /\ Cardinality(Executors(t)') = 1 /\ Cardinality(Pushers(t)') = 0
          /\ Cardinality(Nexts(t)') = 0
          /\ In(t, ready)' = 0 /\ In(t, readyNamed)' = 0
      <4>1. Executors(t)' = {th} /\ Pushers(t)' = {} /\ Nexts(t)' = {}
        BY <1>1, <1>3, <1>4, <2>2
      <4>2. In(t, ready)' = 0 /\ In(t, readyNamed)' = 0
        BY <1>1, <1>3, <1>4, InCount
      <4> QED
        BY <2>3, <4>1, <4>2
    <3> QED
      BY <3>1 DEF Places
  <2>9. ASSUME NEW x \in Task, x # t
        PROVE  Places(x)' = Places(x) /\ Executors(x)' = Executors(x)
    BY <1>4, <2>2, <2>9 DEF Places, Object
  <2>10. OnePlace'
    BY <1>1, <1>2, <1>5, <2>5, <2>7, <2>8, <2>9 DEF OnePlace, SystemInv
  <2>11. CounterExact'
    BY <1>5, <2>5 DEF CounterExact, SystemInv
  <2> QED
    BY <2>4, <2>10, <2>11 DEF Counts
<1> QED
  BY <1>6, <1>7

\* A step that moves no task and settles no prerequisite.
LEMMA SamePlaces ==
  ASSUME NEW x,
         Gates(x)' = Gates(x), Lists(x)' = Lists(x), UnsettledOf(x)' = UnsettledOf(x),
         Nexts(x)' = Nexts(x), Executors(x)' = Executors(x), Pushers(x)' = Pushers(x),
         In(x, ready)' = In(x, ready), In(x, readyNamed)' = In(x, readyNamed)
  PROVE  Owed(x)' = Owed(x) /\ Places(x)' = Places(x)
<1> QED
  BY DEF Owed, Places

LEMMA UserHandleCounts ==
  ASSUME SystemInv, NEW th \in Thread, NEW o \in Object,
         (o \in Future /\ MakeFuture(th, o)) \/ DropHandle(th, o) \/ DropCapture(th, o)
  PROVE  Counts'
<1>1. ASSUME NEW x
      PROVE  /\ Gates(x)' = Gates(x) /\ Lists(x)' = Lists(x) /\ Nodes(x)' = Nodes(x)
             /\ Creators(x)' = Creators(x) /\ UnsettledOf(x)' = UnsettledOf(x)
             /\ Nexts(x)' = Nexts(x) /\ Executors(x)' = Executors(x)
             /\ Pushers(x)' = Pushers(x)
             /\ In(x, ready)' = In(x, ready) /\ In(x, readyNamed)' = In(x, readyNamed)
  BY SameCounts DEF MakeFuture, DropHandle, DropCapture, newVars, execVars
<1>2. CounterExact'
  BY <1>1, SamePlaces DEF MakeFuture, DropHandle, DropCapture, CounterExact, SystemInv
<1>3. OnePlace'
  <2> SUFFICES ASSUME NEW x \in Task
               PROVE  /\ state'[x] = "Pending" => Places(x)' = IF Owed(x)' = 0 THEN 1 ELSE 0
                      /\ state'[x] = "Done" => /\ Owed(x)' = 0 /\ Places(x)' <= 1
                                              /\ Places(x)' = Cardinality(Executors(x)')
    BY DEF OnePlace
  <2>1. state'[x] = state[x] \/ state'[x] = "Pooled"
    BY PoolAssumption
    DEF MakeFuture, DropHandle, DropCapture, Release, SystemInv, TypeOK, Object
  <2> QED
    BY <1>1, <2>1, SamePlaces DEF SystemInv, OnePlace
<1>4. RefsExact'
  <2> SUFFICES ASSUME NEW x \in Object PROVE refs'[x] = RefsTo(x)'
    BY DEF RefsExact
  <2>1. refs[x] = RefsTo(x)
    BY DEF SystemInv, RefsExact
  <2>2. CASE o \in Future /\ MakeFuture(th, o)
    <3>1. th \notin Holders(o)
      BY <2>2, PooledUnreferenced DEF MakeFuture
    <3>2. /\ Holders(x)' = IF x = o THEN Holders(x) \cup {th} ELSE Holders(x)
          /\ Capturers(x)' = Capturers(x)
      BY <2>2 DEF MakeFuture, Holders, Capturers, SystemInv, TypeOK
    <3>3. Cardinality(Holders(x)') = Cardinality(Holders(x)) + IF x = o THEN 1 ELSE 0
      BY <3>1, <3>2, Counted, CountGain, CountsNat
    <3>4. refs'[x] = refs[x] + IF x = o THEN 1 ELSE 0
      BY <2>2 DEF MakeFuture, AddRef, SystemInv, TypeOK
    <3> QED
      BY <1>1, <2>1, <3>2, <3>3, <3>4, CountsNat, InCount DEF RefsTo
  <2>3. CASE DropHandle(th, o)
    <3>1. /\ Holders(x)' = IF x = o THEN Holders(x) \ {th} ELSE Holders(x)
          /\ Capturers(x)' = Capturers(x) /\ th \in Holders(o)
      BY <2>3 DEF DropHandle, Holders, Capturers, SystemInv, TypeOK
    <3>2. Cardinality(Holders(x)') = Cardinality(Holders(x)) - IF x = o THEN 1 ELSE 0
      BY <3>1, Counted, CountLoss, CountsNat
    <3>3. refs'[x] = refs[x] - IF x = o THEN 1 ELSE 0
      BY <2>3 DEF DropHandle, Release, SystemInv, TypeOK
    <3> QED
      BY <1>1, <2>1, <3>1, <3>2, <3>3, CountsNat, InCount DEF RefsTo
  <2>4. CASE DropCapture(th, o)
    <3>1. current_task[th] \in Task
      BY <2>4 DEF DropCapture, SystemInv, ExecFollowsPc, TypeOK, InExecute, TaskOrNone
    <3>2. /\ Capturers(x)' = IF x = o THEN Capturers(x) \ {current_task[th]} ELSE Capturers(x)
          /\ Holders(x)' = Holders(x) /\ current_task[th] \in Capturers(o)
      BY <2>4, <3>1 DEF DropCapture, Holders, Capturers, SystemInv, TypeOK
    <3>3. Cardinality(Capturers(x)') = Cardinality(Capturers(x)) - IF x = o THEN 1 ELSE 0
      BY <3>2, Counted, CountLoss, CountsNat
    <3>4. refs'[x] = refs[x] - IF x = o THEN 1 ELSE 0
      BY <2>4 DEF DropCapture, Release, SystemInv, TypeOK
    <3> QED
      BY <1>1, <2>1, <3>2, <3>3, <3>4, CountsNat, InCount DEF RefsTo
  <2> QED
    BY <2>2, <2>3, <2>4
<1> QED
  BY <1>2, <1>3, <1>4 DEF Counts

\* Consuming a gate's nodes moves them, with their references and the decrements
\* they stand for, from the gate to the thread.
LEMMA ConsumeAllCounts ==
  ASSUME SystemInv, NEW th \in Thread, NEW p \in Object, ConsumeAll(th, p), list[th] = {},
         UNCHANGED <<refs, prerequires, captures, held, exec, newVars, next, ready, readyNamed>>,
         \A x \in Task : Pushers(x)' = Pushers(x)
  PROVE  /\ RefsExact' /\ CounterExact'
         /\ \A x \in Task : Owed(x)' = Owed(x) /\ Places(x)' = Places(x)
<1>1. ASSUME NEW x
      PROVE  /\ Holders(x)' = Holders(x) /\ Capturers(x)' = Capturers(x)
             /\ Nodes(x)' = Nodes(x) /\ Creators(x)' = Creators(x)
             /\ UnsettledOf(x)' = UnsettledOf(x)
             /\ Nexts(x)' = Nexts(x) /\ Executors(x)' = Executors(x)
             /\ In(x, ready)' = In(x, ready) /\ In(x, readyNamed)' = In(x, readyNamed)
  BY SameCounts DEF newVars
<1>2. ASSUME NEW x
      PROVE  /\ Gates(x)' = IF x \in dependents[p] THEN Gates(x) \ {p} ELSE Gates(x)
             /\ Lists(x)' = IF x \in dependents[p] THEN Lists(x) \cup {th} ELSE Lists(x)
             /\ x \in dependents[p] => p \in Gates(x)
             /\ th \notin Lists(x)
  BY DEF ConsumeAll, Gates, Lists, SystemInv, TypeOK
<1>3. ASSUME NEW x
      PROVE  /\ Cardinality(Gates(x)') =
                  Cardinality(Gates(x)) - IF x \in dependents[p] THEN 1 ELSE 0
             /\ Cardinality(Lists(x)') =
                  Cardinality(Lists(x)) + IF x \in dependents[p] THEN 1 ELSE 0
  BY <1>2, Counted, CountGain, CountLoss, CountsNat
<1>4. RefsExact'
  <2> SUFFICES ASSUME NEW x \in Object PROVE refs'[x] = RefsTo(x)'
    BY DEF RefsExact
  <2>1. refs'[x] = RefsTo(x)
    BY DEF SystemInv, RefsExact
  <2> QED
    BY <1>1, <1>3, <2>1, CountsNat, InCount DEF RefsTo
<1>5. ASSUME NEW x \in Task PROVE Owed(x)' = Owed(x) /\ Places(x)' = Places(x)
  BY <1>1, <1>3, CountsNat DEF Owed, Places
<1>6. CounterExact'
  BY <1>5 DEF CounterExact, SystemInv
<1> QED
  BY <1>4, <1>5, <1>6

LEMMA FutureDoneCounts ==
  ASSUME SystemInv, NEW th \in Thread, NEW f \in Future, FutureDone(th, f)
  PROVE  Counts'
<1>1. f \in Object /\ ConsumeAll(th, f) /\ list[th] = {}
  BY DEF FutureDone, User, SystemInv, LocalsFollowPc, Object
<1>2. ASSUME NEW x \in Task PROVE Pushers(x)' = Pushers(x)
  <2>1. new[th] = None /\ None # x
    BY PoolAssumption DEF FutureDone, User, SystemInv, LocalsFollowPc, Object
  <2> QED
    BY <2>1 DEF FutureDone, Pushers, Creators, newVars, SystemInv, TypeOK
<1>3. /\ RefsExact' /\ CounterExact'
      /\ \A x \in Task : Owed(x)' = Owed(x) /\ Places(x)' = Places(x)
  BY <1>1, <1>2, ConsumeAllCounts DEF FutureDone, execVars
<1>4. \A x \in Task : state'[x] = state[x] /\ Executors(x)' = Executors(x)
  BY <1>1, PoolAssumption, SameCounts DEF FutureDone, ConsumeAll, execVars, SystemInv, TypeOK
<1> QED
  BY <1>3, <1>4 DEF Counts, OnePlace, SystemInv

LEMMA EndFunctionCounts ==
  ASSUME SystemInv, NEW th \in Thread, EndFunction(th)
  PROVE  Counts'
<1> DEFINE t == exec[th]
<1>1. /\ t \in Task /\ t \in Object /\ ConsumeAll(th, t) /\ list[th] = {} /\ th \in Executors(t)
  BY DEF EndFunction, SystemInv, LocalsFollowPc, ExecFollowsPc, InExecute, TypeOK, TaskOrNone,
         Object, Executors
<1>2. ASSUME NEW x \in Task PROVE Pushers(x)' = Pushers(x)
  <2>1. new[th] = None /\ None # x
    BY PoolAssumption DEF EndFunction, SystemInv, LocalsFollowPc, Object
  <2> QED
    BY <2>1 DEF EndFunction, Pushers, Creators, newVars, SystemInv, TypeOK
<1>3. /\ RefsExact' /\ CounterExact'
      /\ \A x \in Task : Owed(x)' = Owed(x) /\ Places(x)' = Places(x)
  BY <1>1, <1>2, ConsumeAllCounts DEF EndFunction
<1>4. Owed(t) = 0 /\ Places(t) = 1 /\ Cardinality(Executors(t)) = 1
  BY <1>1, PlaceUnique, PlacesSum
<1>5. \A x \in Task : /\ Executors(x)' = Executors(x)
                      /\ x # t => state'[x] = state[x]
  BY <1>1, SameCounts DEF EndFunction, ConsumeAll, SystemInv, TypeOK
<1>6. state'[t] = "Done"
  BY <1>1 DEF EndFunction, ConsumeAll, SystemInv, TypeOK
<1> QED
  BY <1>1, <1>3, <1>4, <1>5, <1>6 DEF Counts, OnePlace, SystemInv

LEMMA QuietCounts ==
  ASSUME SystemInv, NEW th \in Thread,
         StartFunction(th) \/ FutureDoneReturns(th)
  PROVE  Counts'
<1>1. ASSUME NEW x \in Task PROVE Pushers(x)' = Pushers(x)
  <2>1. new[th] = None /\ None # x
    BY PoolAssumption DEF StartFunction, FutureDoneReturns, SystemInv, LocalsFollowPc, Object
  <2> QED
    BY <2>1
    DEF StartFunction, FutureDoneReturns, Pushers, Creators, newVars, SystemInv, TypeOK
<1>2. ASSUME NEW x
      PROVE  /\ Holders(x)' = Holders(x) /\ Capturers(x)' = Capturers(x)
             /\ Gates(x)' = Gates(x) /\ Lists(x)' = Lists(x)
             /\ Nodes(x)' = Nodes(x) /\ Creators(x)' = Creators(x)
             /\ UnsettledOf(x)' = UnsettledOf(x)
             /\ Nexts(x)' = Nexts(x) /\ Executors(x)' = Executors(x)
             /\ In(x, ready)' = In(x, ready) /\ In(x, readyNamed)' = In(x, readyNamed)
  BY SameCounts DEF StartFunction, FutureDoneReturns, objVars, newVars, execVars
<1> QED
  BY <1>1, <1>2
  DEF StartFunction, FutureDoneReturns, objVars, Counts, RefsExact, CounterExact, OnePlace,
      RefsTo, Owed, Places, SystemInv

LEMMA SingleCount ==
  \A th : Cardinality({th}) = 1 /\ Cardinality({}) = 0
<1> QED
  BY FS_EmptySet, FS_Singleton

LEMMA PopCounts ==
  ASSUME SystemInv, NEW th \in Thread, NEW t \in Task, Pop(th, t) \/ ExecuteATask(th, t)
  PROVE  Counts'
<1>1. /\ t \in Object /\ None \notin Object /\ exec[th] = None /\ new[th] = None
      /\ t \in ready \/ t \in readyNamed
  BY PoolAssumption
  DEF Pop, ExecuteATask, Object, SystemInv, ExecFollowsPc, LocalsFollowPc
<1>2. /\ Owed(t) = 0 /\ Places(t) = 1 /\ state[t] # "Pooled"
      /\ Nexts(t) = {} /\ Executors(t) = {} /\ Pushers(t) = {}
      /\ In(t, ready) + In(t, readyNamed) = 1
  <2>1. Owed(t) = 0 /\ Places(t) = 1 /\ state[t] # "Pooled"
    BY <1>1, PlaceUnique
  <2>2. /\ Nexts(t) = {} /\ Executors(t) = {} /\ Pushers(t) = {}
        /\ t \in ready <=> t \notin readyNamed
    BY <1>1, <2>1, PlacesSum
  <2> QED
    BY <2>1, <2>2 DEF In
<1>3. state[t] = "Pending"
  <2>1. state[t] = "Done" => Places(t) = 0
    BY <1>2, SingleCount DEF SystemInv, OnePlace
  <2> QED
    BY <1>1, <1>2, <2>1 DEF SystemInv, TypeOK
<1>4. ASSUME NEW x
      PROVE  /\ Holders(x)' = Holders(x) /\ Capturers(x)' = Capturers(x)
             /\ Gates(x)' = Gates(x) /\ Lists(x)' = Lists(x) /\ Nodes(x)' = Nodes(x)
             /\ Creators(x)' = Creators(x) /\ Nexts(x)' = Nexts(x)
             /\ UnsettledOf(x)' = UnsettledOf(x)
  BY SameCounts DEF Pop, ExecuteATask, Take, objVars, newVars
<1>5. ASSUME NEW x \in Object
      PROVE  /\ Executors(x)' = IF x = t THEN {th} ELSE Executors(x)
             /\ Pushers(x)' = Pushers(x)
             /\ x = t => In(x, ready)' + In(x, readyNamed)' = 0
             /\ x # t => In(x, ready)' = In(x, ready) /\ In(x, readyNamed)' = In(x, readyNamed)
  <2>1. Executors(x)' = IF x = t THEN {th} ELSE Executors(x)
    BY <1>1, <1>2 DEF Pop, ExecuteATask, Take, Executors, SystemInv, TypeOK
  <2>2. Pushers(x)' = Pushers(x)
    BY <1>1 DEF Pop, ExecuteATask, Take, newVars, Pushers, Creators, SystemInv, TypeOK
  <2>3. x = t => t \notin ready' /\ t \notin readyNamed'
    BY <1>2 DEF Pop, ExecuteATask, In
  <2>4. x # t => (x \in ready' <=> x \in ready) /\ (x \in readyNamed' <=> x \in readyNamed)
    BY DEF Pop, ExecuteATask
  <2> QED
    BY <2>1, <2>2, <2>3, <2>4 DEF In
<1>6. RefsExact'
  <2> SUFFICES ASSUME NEW x \in Object PROVE refs'[x] = RefsTo(x)'
    BY DEF RefsExact
  <2>1. refs'[x] = RefsTo(x)
    BY DEF Pop, ExecuteATask, Take, objVars, SystemInv, RefsExact
  <2>2. CASE x = t
    <3>1. Cardinality(Executors(t)') = 1 /\ Cardinality(Executors(t)) = 0
      BY <1>1, <1>2, <1>5, SingleCount
    <3>2. In(t, ready)' + In(t, readyNamed)' = 0
      BY <1>1, <1>5
    <3> QED
      BY <1>2, <1>4, <2>1, <2>2, <3>1, <3>2, CountsNat, InCount DEF RefsTo
  <2>3. CASE x # t
    BY <1>4, <1>5, <2>1, <2>3 DEF RefsTo
  <2> QED
    BY <2>2, <2>3
<1>7. ASSUME NEW x \in Task PROVE Owed(x)' = Owed(x)
  BY <1>4 DEF Owed
<1>8. ASSUME NEW x \in Task PROVE Places(x)' = Places(x)
  <2>1. x \in Object
    BY DEF Object
  <2>2. CASE x = t
    <3>1. /\ Cardinality(Executors(t)') = 1 /\ Cardinality(Nexts(t)') = 0
          /\ Cardinality(Pushers(t)') = 0
      BY <1>1, <1>2, <1>4, <1>5, SingleCount
    <3>2. In(t, ready)' + In(t, readyNamed)' = 0
      BY <1>1, <1>5
    <3> QED
      BY <1>2, <2>2, <3>1, <3>2 DEF Places
  <2>3. CASE x # t
    BY <1>4, <1>5, <2>1, <2>3 DEF Places
  <2> QED
    BY <2>2, <2>3
<1>9. CounterExact'
  BY <1>7 DEF Pop, ExecuteATask, Take, objVars, CounterExact, SystemInv
<1>10. OnePlace'
  <2>1. \A x \in Task : x # t => Executors(x)' = Executors(x)
    BY <1>5 DEF Object
  <2> QED
    BY <1>3, <1>7, <1>8, <2>1
    DEF Pop, ExecuteATask, Take, objVars, OnePlace, SystemInv
<1> QED
  BY <1>6, <1>9, <1>10 DEF Counts

\* A task that waits for a decrement is pending and in no place.
LEMMA WaitingNowhere ==
  ASSUME SystemInv, NEW t \in Task, Owed(t) # 0, state[t] # "Pooled"
  PROVE  state[t] = "Pending" /\ Places(t) = 0
<1> QED
  BY DEF SystemInv, OnePlace, TypeOK, Object

LEMMA OnUnblockedCounts ==
  ASSUME SystemInv, NEW th \in Thread, NEW t \in Task, OnUnblocked(th, t)
  PROVE  Counts'
<1>1. /\ t \in Object /\ None \notin Object /\ th \in Lists(t)
      /\ refs[t] \in Nat /\ prerequires[t] \in Nat
  BY PoolAssumption DEF OnUnblocked, Object, Lists, SystemInv, TypeOK
<1>2. state[t] # "Pooled"
  BY <1>1, PooledUnreferenced
<1>3. ASSUME NEW x
      PROVE  /\ Holders(x)' = Holders(x) /\ Capturers(x)' = Capturers(x)
             /\ Gates(x)' = Gates(x) /\ Nodes(x)' = Nodes(x)
             /\ Creators(x)' = Creators(x) /\ Executors(x)' = Executors(x)
             /\ UnsettledOf(x)' = UnsettledOf(x) /\ Pushers(x)' = Pushers(x)
  BY SameCounts DEF OnUnblocked, newVars, execVars
<1>4. ASSUME NEW x
      PROVE  Lists(x)' = IF x = t THEN Lists(x) \ {th} ELSE Lists(x)
  BY DEF OnUnblocked, Lists, SystemInv, TypeOK
<1>5. ASSUME NEW x
      PROVE  Cardinality(Lists(x)') = Cardinality(Lists(x)) - IF x = t THEN 1 ELSE 0
  BY <1>1, <1>4, Counted, CountLoss, CountsNat
<1>6. ASSUME NEW x \in Task PROVE Owed(x)' = Owed(x) - IF x = t THEN 1 ELSE 0
  BY <1>3, <1>5, CountsNat DEF Owed
<1>7. CounterExact'
  <2> SUFFICES ASSUME NEW x \in Task PROVE prerequires'[x] = Owed(x)'
    BY DEF CounterExact
  <2>1. prerequires'[x] = prerequires[x] - IF x = t THEN 1 ELSE 0
    BY DEF OnUnblocked, SystemInv, TypeOK
  <2> QED
    BY <1>6, <2>1 DEF SystemInv, CounterExact, TypeOK
<1>8. Owed(t) = prerequires[t] /\ Owed(t) \in Nat /\ Owed(t) # 0
  BY <1>1, OwedNat DEF SystemInv, CounterExact
<1>9. state[t] = "Pending" /\ Places(t) = 0
  BY <1>2, <1>8, WaitingNowhere
<1>10. /\ t \notin ready /\ t \notin readyNamed /\ Nexts(t) = {} /\ Executors(t) = {}
       /\ Pushers(t) = {}
  BY <1>9, PlacesSum
<1>11. CASE ~LastDecrement(t)
  <2>1. Release({t}) /\ UNCHANGED <<ready, readyNamed, next>>
    BY <1>11 DEF OnUnblocked
  <2>2. ASSUME NEW x
        PROVE  /\ Nexts(x)' = Nexts(x) /\ In(x, ready)' = In(x, ready)
               /\ In(x, readyNamed)' = In(x, readyNamed)
    BY <2>1, SameCounts
  <2>3. RefsExact'
    <3> SUFFICES ASSUME NEW x \in Object PROVE refs'[x] = RefsTo(x)'
      BY DEF RefsExact
    <3>1. refs'[x] = refs[x] - IF x = t THEN 1 ELSE 0
      BY <2>1 DEF Release, SystemInv, TypeOK
    <3>2. refs[x] = RefsTo(x)
      BY DEF SystemInv, RefsExact
    <3> QED
      BY <1>3, <1>5, <2>2, <3>1, <3>2, CountsNat, InCount DEF RefsTo
  <2>4. OnePlace'
    <3> SUFFICES ASSUME NEW x \in Task
                 PROVE  /\ state'[x] = "Pending" =>
                             Places(x)' = IF Owed(x)' = 0 THEN 1 ELSE 0
                        /\ state'[x] = "Done" => /\ Owed(x)' = 0 /\ Places(x)' <= 1
                                                /\ Places(x)' = Cardinality(Executors(x)')
      BY DEF OnePlace
    <3>1. Places(x)' = Places(x)
      BY <1>3, <2>2 DEF Places
    <3>2. state'[x] = state[x] \/ state'[x] = "Pooled"
      BY <2>1 DEF Release, Object
    <3>3. CASE x = t
      <4>1. Owed(t)' # 0
        BY <1>6, <1>8, <1>11 DEF LastDecrement
      <4> QED
        BY <1>9, <3>1, <3>2, <3>3, <4>1
    <3>4. CASE x # t
      <4>1. Owed(x)' = Owed(x)
        BY <1>6, <3>4, OwedNat
      <4> QED
        BY <1>3, <3>1, <3>2, <4>1 DEF SystemInv, OnePlace
    <3> QED
      BY <3>3, <3>4
  <2> QED
    BY <1>7, <2>3, <2>4 DEF Counts
<1>12. CASE LastDecrement(t)
  <2>1. UNCHANGED <<refs, state>>
    BY <1>12 DEF OnUnblocked
  <2>2. Owed(t)' = 0
    BY <1>6, <1>8, <1>12 DEF LastDecrement
  <2>3. ASSUME NEW x \in Object
        PROVE  /\ Cardinality(Nexts(x)') + In(x, ready)' + In(x, readyNamed)'
                    = Cardinality(Nexts(x)) + In(x, ready) + In(x, readyNamed)
                      + IF x = t THEN 1 ELSE 0
    <3>1. CASE /\ next[th] = None
               /\ next' = [next EXCEPT ![th] = t] /\ UNCHANGED <<ready, readyNamed>>
      <4>1. /\ Nexts(x)' = IF x = t THEN Nexts(x) \cup {th} ELSE Nexts(x)
            /\ th \notin Nexts(x)
        BY <1>1, <3>1 DEF Nexts, SystemInv, TypeOK
      <4>2. Cardinality(Nexts(x)') = Cardinality(Nexts(x)) + IF x = t THEN 1 ELSE 0
        BY <4>1, Counted, CountGain, CountsNat
      <4>3. In(x, ready)' = In(x, ready) /\ In(x, readyNamed)' = In(x, readyNamed)
        BY <3>1, SameCounts
      <4> QED
        BY <4>2, <4>3, CountsNat, InCount
    <3>2. CASE Push(t) /\ UNCHANGED next
      <4>1. Nexts(x)' = Nexts(x)
        BY <3>2, SameCounts
      <4>2. In(x, ready)' + In(x, readyNamed)'
              = In(x, ready) + In(x, readyNamed) + IF x = t THEN 1 ELSE 0
        BY <1>10, <3>2 DEF Push, In
      <4> QED
        BY <4>1, <4>2, CountsNat, InCount
    <3> QED
      BY <1>12, <3>1, <3>2 DEF OnUnblocked
  <2>4. RefsExact'
    <3> SUFFICES ASSUME NEW x \in Object PROVE refs'[x] = RefsTo(x)'
      BY DEF RefsExact
    <3>1. refs'[x] = RefsTo(x)
      BY <2>1 DEF SystemInv, RefsExact
    <3>2. PICK d \in {0, 1} : d = IF x = t THEN 1 ELSE 0
      OBVIOUS
    <3>3. /\ Cardinality(Lists(x)') = Cardinality(Lists(x)) - d
          /\ Cardinality(Nexts(x)') + In(x, ready)' + In(x, readyNamed)'
                = Cardinality(Nexts(x)) + In(x, ready) + In(x, readyNamed) + d
      BY <1>5, <2>3, <3>2
    <3>4. PICK a \in Nat : a = Cardinality(Lists(x))
      BY CountsNat
    <3>5. PICK b \in Nat : b = Cardinality(Nexts(x)) + In(x, ready) + In(x, readyNamed)
      BY CountsNat, InCount
    <3>6. PICK c \in Nat : c = Cardinality(Holders(x)) + Cardinality(Capturers(x))
                               + Cardinality(Gates(x)) + Cardinality(Nodes(x))
                               + Cardinality(Creators(x)) + Cardinality(Executors(x))
      BY CountsNat
    <3>7. RefsTo(x) = a + b + c
      BY <3>4, <3>5, <3>6, CountsNat, InCount DEF RefsTo
    <3>8. RefsTo(x)' = (a - d) + (b + d) + c
      <4>1. Cardinality(Lists(x)') = a - d
        BY <3>3, <3>4
      <4>2. Cardinality(Nexts(x)') + In(x, ready)' + In(x, readyNamed)' = b + d
        BY <3>3, <3>5
      <4> QED
        BY <1>3, <3>6, <4>1, <4>2, CountsNat, InCount DEF RefsTo
    <3> QED
      BY <3>1, <3>7, <3>8
  <2>5. ASSUME NEW x \in Task PROVE Places(x)' = Places(x) + IF x = t THEN 1 ELSE 0
    BY <1>3, <2>3, CountsNat, InCount DEF Places, Object
  <2>6. OnePlace'
    <3> SUFFICES ASSUME NEW x \in Task
                 PROVE  /\ state'[x] = "Pending" =>
                             Places(x)' = IF Owed(x)' = 0 THEN 1 ELSE 0
                        /\ state'[x] = "Done" => /\ Owed(x)' = 0 /\ Places(x)' <= 1
                                                /\ Places(x)' = Cardinality(Executors(x)')
      BY DEF OnePlace
    <3>1. CASE x = t
      BY <1>9, <2>1, <2>2, <2>5, <3>1
    <3>2. CASE x # t
      <4>1. Owed(x)' = Owed(x) /\ Places(x)' = Places(x)
        BY <1>6, <2>5, <3>2, OwedNat, PlacesSum
      <4> QED
        BY <1>3, <2>1, <4>1 DEF SystemInv, OnePlace
    <3> QED
      BY <3>1, <3>2
  <2> QED
    BY <1>7, <2>4, <2>6 DEF Counts
<1> QED
  BY <1>11, <1>12

LEMMA ClearFunctionCounts ==
  ASSUME SystemInv, NEW th \in Thread, ClearFunction(th)
  PROVE  Counts'
<1> DEFINE t == exec[th]
<1>1. t \in Task /\ new[th] = None /\ None \notin Object
  BY PoolAssumption
  DEF ClearFunction, SystemInv, ExecFollowsPc, LocalsFollowPc, InExecute, TypeOK, TaskOrNone,
      Object
<1>2. ASSUME NEW x \in Object
      PROVE  /\ Holders(x)' = Holders(x) /\ Gates(x)' = Gates(x) /\ Lists(x)' = Lists(x)
             /\ Nodes(x)' = Nodes(x) /\ Creators(x)' = Creators(x)
             /\ UnsettledOf(x)' = UnsettledOf(x)
             /\ Nexts(x)' = Nexts(x) /\ Executors(x)' = Executors(x)
             /\ Pushers(x)' = Pushers(x)
             /\ In(x, ready)' = In(x, ready) /\ In(x, readyNamed)' = In(x, readyNamed)
  <2>1. Pushers(x)' = Pushers(x)
    BY <1>1 DEF ClearFunction, newVars, Pushers, Creators, SystemInv, TypeOK
  <2> QED
    BY <2>1, SameCounts DEF ClearFunction, newVars, execVars
<1>3. ASSUME NEW x
      PROVE  /\ Capturers(x)' = IF x \in captures[t] THEN Capturers(x) \ {t} ELSE Capturers(x)
             /\ x \in captures[t] => t \in Capturers(x)
  BY <1>1 DEF ClearFunction, Capturers, SystemInv, TypeOK
<1>4. ASSUME NEW x
      PROVE  Cardinality(Capturers(x)') =
               Cardinality(Capturers(x)) - IF x \in captures[t] THEN 1 ELSE 0
  BY <1>3, Counted, CountLoss, CountsNat
<1>5. RefsExact'
  <2> SUFFICES ASSUME NEW x \in Object PROVE refs'[x] = RefsTo(x)'
    BY DEF RefsExact
  <2>1. refs'[x] = refs[x] - IF x \in captures[t] THEN 1 ELSE 0
    BY DEF ClearFunction, Release, SystemInv, TypeOK
  <2>2. refs[x] = RefsTo(x)
    BY DEF SystemInv, RefsExact
  <2> QED
    BY <1>2, <1>4, <2>1, <2>2, CountsNat, InCount DEF RefsTo
<1>6. ASSUME NEW x \in Task
      PROVE  Owed(x)' = Owed(x) /\ Places(x)' = Places(x) /\ Executors(x)' = Executors(x)
  BY <1>2 DEF Owed, Places, Object
<1>7. CounterExact'
  BY <1>6 DEF ClearFunction, CounterExact, SystemInv
<1>8. \A x \in Task : state'[x] = state[x] \/ state'[x] = "Pooled"
  BY DEF ClearFunction, Release, Object
<1>9. OnePlace'
  BY <1>6, <1>8 DEF OnePlace, SystemInv
<1> QED
  BY <1>5, <1>7, <1>9 DEF Counts

LEMMA EndExecuteCounts ==
  ASSUME SystemInv, NEW th \in Thread, EndExecute(th), NEW t, t = exec[th], NEW e, e = next[th]
  PROVE  Counts'
<1>1. /\ t \in Task /\ t \in Object /\ th \in Executors(t) /\ state[t] = "Done"
      /\ new[th] = None /\ None \notin Object
      /\ inline[th] => e = None /\ Holders(t) = {}
      /\ e # None => e \in Task /\ th \in Nexts(e)
  <2>1. t # None /\ pc[th] = "release" /\ new[th] = None
    BY DEF EndExecute, SystemInv, ExecFollowsPc, LocalsFollowPc, InExecute
  <2>2. t \in Task /\ t \in Object /\ th \in Executors(t) /\ None \notin Object
    BY <2>1, PoolAssumption DEF SystemInv, TypeOK, TaskOrNone, Executors, Object
  <2>3. state[t] = "Done"
    BY <2>1, <2>2 DEF SystemInv, ExecutionStages
  <2>4. inline[th] => e = None /\ Holders(t) = {}
    BY ThreadAssumption DEF SystemInv, ExecFollowsPc, LocalsFollowPc, NewUnshared
  <2>5. e # None => e \in Task /\ th \in Nexts(e)
    BY DEF SystemInv, TypeOK, TaskOrNone, Nexts
  <2> QED
    BY <2>1, <2>2, <2>3, <2>4, <2>5
<1>2. /\ Places(t) = 1 /\ Owed(t) = 0 /\ Nexts(t) = {} /\ Pushers(t) = {}
      /\ t \notin ready /\ t \notin readyNamed /\ Executors(t) = {th}
  <2>1. Places(t) = 1 /\ Owed(t) = 0
    BY <1>1, PlaceUnique
  <2>2. /\ Nexts(t) = {} /\ Pushers(t) = {} /\ t \notin ready /\ t \notin readyNamed
        /\ Cardinality(Executors(t)) = 1
    BY <1>1, <2>1, PlacesSum
  <2> QED
    BY <1>1, <2>1, <2>2, Counted, CountOne
<1>3. e # t /\ e \in Task \cup {None}
  BY <1>1, <1>2
<1>4. ASSUME e \in Task
      PROVE  /\ state[e] = "Pending" /\ Places(e) = 1 /\ Owed(e) = 0
             /\ Nexts(e) = {th} /\ Pushers(e) = {} /\ Executors(e) = {}
             /\ e \notin ready /\ e \notin readyNamed
  <2>1. th \in Nexts(e) /\ e \in Object
    BY <1>1, <1>4, PoolAssumption DEF Object
  <2>2. Places(e) = 1 /\ Owed(e) = 0 /\ state[e] # "Pooled"
    BY <1>4, <2>1, PlaceUnique
  <2>3. /\ Executors(e) = {} /\ Pushers(e) = {} /\ e \notin ready /\ e \notin readyNamed
        /\ Cardinality(Nexts(e)) = 1
    BY <2>1, <2>2, PlacesSum
  <2>4. state[e] # "Done"
    BY <1>4, <2>2, <2>3, SingleCount DEF SystemInv, OnePlace
  <2> QED
    BY <1>4, <2>1, <2>2, <2>3, <2>4, Counted, CountOne DEF SystemInv, TypeOK
<1>5. ASSUME NEW x \in Object
      PROVE  /\ Capturers(x)' = Capturers(x) /\ Gates(x)' = Gates(x) /\ Lists(x)' = Lists(x)
             /\ Nodes(x)' = Nodes(x) /\ Creators(x)' = Creators(x)
             /\ UnsettledOf(x)' = UnsettledOf(x) /\ Pushers(x)' = Pushers(x)
             /\ In(x, ready)' = In(x, ready) /\ In(x, readyNamed)' = In(x, readyNamed)
  <2>1. Pushers(x)' = Pushers(x)
    BY <1>1 DEF EndExecute, newVars, Pushers, Creators, SystemInv, TypeOK
  <2> QED
    BY <2>1, SameCounts DEF EndExecute, newVars
<1>6. ASSUME NEW x \in Object
      PROVE  /\ Executors(x)' = IF x = t THEN {} ELSE IF x = e THEN {th} ELSE Executors(x)
             /\ Nexts(x)' = IF x = e THEN {} ELSE Nexts(x)
             /\ Holders(x)' = IF x = t /\ inline[th] THEN {th} ELSE Holders(x)
  <2>1. Executors(x)' = IF x = t THEN {} ELSE IF x = e THEN {th} ELSE Executors(x)
    <3>1. exec' = [exec EXCEPT ![th] = e] /\ exec \in [Thread -> TaskOrNone]
      BY DEF EndExecute, SystemInv, TypeOK
    <3>2. CASE x = e
      BY <1>1, <1>3, <1>4, <3>1, <3>2 DEF Executors
    <3>3. CASE x # e
      BY <1>1, <1>2, <3>1, <3>3 DEF Executors
    <3> QED
      BY <1>3, <3>2, <3>3
  <2>2. Nexts(x)' = IF x = e THEN {} ELSE Nexts(x)
    <3>1. next' = [next EXCEPT ![th] = None] /\ next \in [Thread -> TaskOrNone]
      BY DEF EndExecute, SystemInv, TypeOK
    <3>2. CASE x = e
      BY <1>1, <1>3, <1>4, <3>1, <3>2 DEF Nexts
    <3>3. CASE x # e
      BY <1>1, <3>1, <3>3 DEF Nexts
    <3> QED
      BY <3>2, <3>3
  <2>3. Holders(x)' = IF x = t /\ inline[th] THEN {th} ELSE Holders(x)
    BY <1>1 DEF EndExecute, Holders, SystemInv, TypeOK
  <2> QED
    BY <2>1, <2>2, <2>3
<1>7. RefsExact'
  <2> SUFFICES ASSUME NEW x \in Object PROVE refs'[x] = RefsTo(x)'
    BY DEF RefsExact
  <2>1. refs[x] = RefsTo(x)
    BY DEF SystemInv, RefsExact
  <2>2. refs'[x] = refs[x] - IF x = t /\ ~inline[th] THEN 1 ELSE 0
    BY DEF EndExecute, Release, SystemInv, TypeOK
  <2>3. CASE x = t
    <3>1. Cardinality(Executors(t)') = 0 /\ Cardinality(Executors(t)) = 1
      BY <1>1, <1>2, <1>6, SingleCount
    <3>2. Nexts(t)' = Nexts(t)
      BY <1>1, <1>3, <1>6
    <3>3. CASE inline[th]
      <4>1. Cardinality(Holders(t)') = 1 /\ Cardinality(Holders(t)) = 0
        BY <1>1, <1>6, <3>3, SingleCount
      <4> QED
        BY <1>5, <2>1, <2>2, <2>3, <3>1, <3>2, <3>3, <4>1, CountsNat, InCount DEF RefsTo
    <3>4. CASE ~inline[th]
      <4>1. Holders(t)' = Holders(t)
        BY <1>1, <1>6, <3>4
      <4> QED
        BY <1>5, <2>1, <2>2, <2>3, <3>1, <3>2, <3>4, <4>1, CountsNat, InCount DEF RefsTo
    <3> QED
      BY <3>3, <3>4
  <2>4. CASE x = e
    <3>1. /\ Cardinality(Executors(x)') = 1 /\ Cardinality(Executors(x)) = 0
          /\ Cardinality(Nexts(x)') = 0 /\ Cardinality(Nexts(x)) = 1
          /\ Holders(x)' = Holders(x)
      BY <1>1, <1>3, <1>4, <1>6, <2>4, SingleCount
    <3> QED
      BY <1>3, <1>5, <2>1, <2>2, <2>4, <3>1, CountsNat, InCount DEF RefsTo
  <2>5. CASE x # t /\ x # e
    <3>1. Executors(x)' = Executors(x) /\ Nexts(x)' = Nexts(x) /\ Holders(x)' = Holders(x)
      BY <1>6, <2>5
    <3>2. RefsTo(x)' = RefsTo(x)
      BY <1>5, <3>1 DEF RefsTo
    <3> QED
      BY <2>1, <2>2, <2>5, <3>2, RefsSum
  <2> QED
    BY <2>3, <2>4, <2>5
<1>8. ASSUME NEW x \in Task PROVE Owed(x)' = Owed(x)
  BY <1>5 DEF Owed, Object
<1>9. CounterExact'
  BY <1>8 DEF EndExecute, CounterExact, SystemInv
<1>10. OnePlace'
  <2> SUFFICES ASSUME NEW x \in Task
               PROVE  /\ state'[x] = "Pending" => Places(x)' = IF Owed(x)' = 0 THEN 1 ELSE 0
                      /\ state'[x] = "Done" => /\ Owed(x)' = 0 /\ Places(x)' <= 1
                                              /\ Places(x)' = Cardinality(Executors(x)')
    BY DEF OnePlace
  <2>1. x \in Object
    BY DEF Object
  <2>2. state'[x] = state[x] \/ (x = t /\ state'[x] = "Pooled")
    BY <2>1 DEF EndExecute, Release
  <2>3. CASE x = t
    <3>1. /\ Cardinality(Executors(t)') = 0 /\ Cardinality(Nexts(t)') = 0
          /\ Cardinality(Pushers(t)') = 0 /\ In(t, ready)' = 0 /\ In(t, readyNamed)' = 0
      BY <1>1, <1>2, <1>3, <1>5, <1>6, SingleCount, InCount
    <3>2. Places(t)' = 0
      BY <3>1 DEF Places
    <3> QED
      BY <1>1, <1>2, <1>8, <2>2, <2>3, <3>1, <3>2
  <2>4. CASE x = e
    <3>1. e \in Task /\ x # t
      BY <1>3, <2>4
    <3>2. /\ Executors(x)' = {th} /\ Nexts(x)' = {} /\ Pushers(x)' = {}
          /\ In(x, ready)' = In(x, ready) /\ In(x, readyNamed)' = In(x, readyNamed)
      BY <1>4, <1>5, <1>6, <2>1, <2>4, <3>1
    <3>3. In(x, ready) = 0 /\ In(x, readyNamed) = 0
      BY <1>4, <2>4, <3>1, InCount
    <3>4. Places(x)' = 1
      BY <3>2, <3>3, SingleCount DEF Places
    <3> QED
      BY <1>4, <1>8, <2>2, <2>4, <3>1, <3>4
  <2>5. CASE x # t /\ x # e
    <3>1. Executors(x)' = Executors(x) /\ Nexts(x)' = Nexts(x)
      BY <1>6, <2>1, <2>5
    <3>2. Places(x)' = Places(x)
      BY <1>5, <2>1, <3>1 DEF Places
    <3> QED
      BY <1>8, <2>2, <2>5, <3>1, <3>2 DEF SystemInv, OnePlace
  <2> QED
    BY <2>3, <2>4, <2>5
<1> QED
  BY <1>7, <1>9, <1>10 DEF Counts

LEMMA CountsStep == SystemInv /\ [Next]_vars => Counts'
<1> SUFFICES ASSUME SystemInv, [Next]_vars PROVE Counts'
  OBVIOUS
<1>1. ASSUME NEW th \in Thread, UserStep(th) PROVE Counts'
  BY <1>1, CreateTaskCounts, UserHandleCounts, FutureDoneCounts DEF UserStep, Object
<1>2. ASSUME NEW th \in Thread, SystemStep(th) PROVE Counts'
  BY <1>2, CheckPrereqCounts, AddDependencyCounts, ReturnNodeCounts, SubtractInactiveCounts,
     PushNewCounts, ExecuteNewCounts, QuietCounts, EndFunctionCounts, OnUnblockedCounts,
     ClearFunctionCounts, EndExecuteCounts
  DEF SystemStep
<1>3. ASSUME NEW th \in Thread, NEW t \in Task, Pop(th, t) \/ ExecuteATask(th, t)
      PROVE  Counts'
  BY <1>3, PopCounts
<1>4. CASE UNCHANGED vars
  <2>1. ASSUME NEW x
        PROVE  RefsTo(x)' = RefsTo(x) /\ Owed(x)' = Owed(x) /\ Places(x)' = Places(x)
               /\ Executors(x)' = Executors(x)
    <3>1. UNCHANGED <<held, captures, dependents, list, new, node, next, exec, pc, todo,
                      adding, inactive, ready, readyNamed>>
      BY <1>4 DEF vars, objVars, newVars, execVars
    <3> QED
      BY <3>1, SameCounts DEF RefsTo, Owed, Places
  <2>2. UNCHANGED <<refs, prerequires, state>>
    BY <1>4 DEF vars, objVars
  <2> QED
    BY <2>1, <2>2 DEF Counts, RefsExact, CounterExact, OnePlace, SystemInv
<1> QED
  BY <1>1, <1>2, <1>3, <1>4 DEF Next, Thread
-----------------------------------------------------------------------------
(* Types.  That the counters never go below zero is what Counts says. *)

LEMMA TypeStep ==
  ASSUME SystemInv, [Next]_vars, Counts'
  PROVE  TypeOK'
<1>1. \A o \in Object : RefsTo(o)' \in Nat
  BY CountsNat, InCount DEF RefsTo
<1>2. \A t \in Task : Owed(t)' \in Nat
  BY CountsNat DEF Owed
<1>3. ASSUME refs' = [o \in Object |-> refs'[o]] PROVE refs' \in [Object -> Nat]
  BY <1>1, <1>3 DEF Counts, RefsExact
<1>4. ASSUME prerequires' = [t \in Task |-> prerequires'[t]] PROVE prerequires' \in [Task -> Nat]
  BY <1>2, <1>4 DEF Counts, CounterExact
<1> USE DEF SystemInv, TypeOK, Thread, Object, TaskOrNone, PCs
<1>5. ASSUME NEW th \in Thread, NEW t \in Task, NEW P \in SUBSET Usable(th),
             NEW C \in SUBSET Usable(th), NEW f \in Flags \cup BodyFlags,
             CreateTask(th, t, P, C, f)
      PROVE  TypeOK'
  <2>1. P \subseteq Object /\ C \subseteq Object
    BY <1>5, UsableAlive DEF CreateTask
  <2> QED
    BY <1>3, <1>4, <1>5, <2>1 DEF CreateTask, AddRef, execVars
<1>6. ASSUME NEW th \in Thread, NEW f \in Future, MakeFuture(th, f) \/ FutureDone(th, f)
      PROVE  TypeOK'
  <2>1. CASE MakeFuture(th, f)
    BY <1>3, <2>1 DEF MakeFuture, AddRef, execVars, newVars
  <2>2. CASE FutureDone(th, f)
    BY <2>2 DEF FutureDone, ConsumeAll, execVars, newVars
  <2> QED
    BY <1>6, <2>1, <2>2
<1>7. ASSUME NEW th \in Thread, NEW o \in Object, DropHandle(th, o) \/ DropCapture(th, o)
      PROVE  TypeOK'
  <2>1. refs' \in [Object -> Nat] /\ state' \in [Object -> {"Pooled", "Pending", "Done"}]
    BY <1>3, <1>7 DEF DropHandle, DropCapture, Release
  <2>2. CASE DropHandle(th, o)
    BY <2>1, <2>2 DEF DropHandle, execVars, newVars
  <2>3. CASE DropCapture(th, o)
    BY <2>1, <2>3 DEF DropCapture, execVars, newVars
  <2> QED
    BY <1>7, <2>2, <2>3
<1>8. ASSUME NEW th \in Thread, NEW p \in Object, CheckPrereq(th, p)
      PROVE  TypeOK'
  <2>1. CASE state[p] = "Pending"
    <3>1. refs' \in [Object -> Nat]
      BY <1>3, <1>8, <2>1 DEF CheckPrereq, AddRef
    <3> QED
      BY <1>8, <2>1, <3>1 DEF CheckPrereq, execVars
  <2>2. CASE state[p] # "Pending"
    BY <1>8, <2>2 DEF CheckPrereq, execVars
  <2> QED
    BY <2>1, <2>2
<1>9. ASSUME NEW th \in Thread, AddDependency(th) \/ ReturnNode(th)
      PROVE  TypeOK'
  <2>1. new[th] \in Task
    BY <1>9, CreatorAlone DEF AddDependency, ReturnNode, LocalsFollowPc
  <2> QED
    <3>1. CASE AddDependency(th)
      <4>1. adding[th] \in Object
        BY <3>1 DEF AddDependency
      <4>2. /\ dependents' \in [Object -> SUBSET Task] /\ node' \in [Thread -> BOOLEAN]
            /\ inactive' \in [Thread -> SUBSET Object]
            /\ adding' \in [Thread -> Object \cup {None}]
        <5>1. CASE state[adding[th]] = "Pending"
          <6>1. dependents' = [dependents EXCEPT ![adding[th]] = @ \cup {new[th]}]
            BY <3>1, <5>1 DEF AddDependency
          <6>2. dependents' \in [Object -> SUBSET Task]
            BY <2>1, <4>1, <6>1
          <6> QED
            BY <3>1, <5>1, <6>2 DEF AddDependency
        <5>2. CASE state[adding[th]] # "Pending"
          BY <2>1, <3>1, <4>1, <5>2 DEF AddDependency
        <5> QED
          BY <5>1, <5>2
      <4> QED
        BY <3>1, <4>2 DEF AddDependency, execVars
    <3>2. CASE ReturnNode(th)
      BY <1>3, <3>2 DEF ReturnNode, Release, execVars
    <3> QED
      BY <1>9, <3>1, <3>2
<1>10. ASSUME NEW th \in Thread, SubtractInactive(th) \/ PushNew(th) \/ ExecuteNew(th)
      PROVE  TypeOK'
  <2>1. new[th] \in Task
    BY <1>10, CreatorAlone DEF SubtractInactive, PushNew, ExecuteNew, LocalsFollowPc
  <2>2. CASE SubtractInactive(th)
    <3>1. prerequires' \in [Task -> Nat]
      BY <1>4, <2>2 DEF SubtractInactive
    <3>2. CASE TookLast(th)
      BY <2>2, <3>1, <3>2 DEF SubtractInactive, execVars
    <3>3. CASE ~TookLast(th)
      <4>1. ReturnNew(th)
        BY <2>2, <3>3 DEF SubtractInactive
      <4>2. new' \in [Thread -> TaskOrNone] /\ pc' \in [Thread -> PCs]
            /\ held' \in [Thread -> SUBSET Object]
        BY <2>1, <4>1 DEF ReturnNew, Caller
      <4> QED
        BY <2>2, <3>1, <4>2 DEF SubtractInactive, execVars
    <3> QED
      BY <3>2, <3>3
  <2>3. CASE PushNew(th)
    BY <1>3, <2>1, <2>3 DEF PushNew, Push, AddRef, ReturnNew, Caller, execVars
  <2>4. CASE ExecuteNew(th)
    <3>1. /\ exec' \in [Thread -> TaskOrNone] /\ pc' \in [Thread -> PCs]
          /\ inline' \in [Thread -> BOOLEAN] /\ new' \in [Thread -> TaskOrNone]
      <4>1. CASE current_task[th] = None
        <5>1. /\ exec' = [exec EXCEPT ![th] = new[th]] /\ pc' = [pc EXCEPT ![th] = "start"]
              /\ inline' = [inline EXCEPT ![th] = TRUE] /\ new' = [new EXCEPT ![th] = None]
          BY <2>4, <4>1 DEF ExecuteNew
        <5> QED
          BY <2>1, <5>1
      <4>2. CASE current_task[th] # None
        BY <2>4, <4>2 DEF ExecuteNew
      <4> QED
        BY <4>1, <4>2
    <3>2. UNCHANGED <<objVars, ready, readyNamed, held, current_task, todo, adding, inactive,
                      node, list, next>>
      BY <2>4 DEF ExecuteNew
    <3> QED
      BY <3>1, <3>2 DEF objVars
  <2> QED
    BY <1>10, <2>2, <2>3, <2>4
<1>11. ASSUME NEW th \in Thread, FutureDoneReturns(th) \/ StartFunction(th)
       PROVE  TypeOK'
  <2>1. CASE FutureDoneReturns(th)
    BY <2>1 DEF FutureDoneReturns, Caller, objVars, execVars, newVars
  <2>2. CASE StartFunction(th)
    BY <2>2 DEF StartFunction, objVars, newVars
  <2> QED
    BY <1>11, <2>1, <2>2
<1>12. ASSUME NEW th \in Thread, EndFunction(th) \/ ClearFunction(th) \/ EndExecute(th)
       PROVE  TypeOK'
  <2>1. CASE EndFunction(th)
    <3>1. exec[th] \in Object
      BY <2>1 DEF EndFunction, ExecFollowsPc, InExecute
    <3>2. /\ state' \in [Object -> {"Pooled", "Pending", "Done"}]
          /\ dependents' \in [Object -> SUBSET Task] /\ list' \in [Thread -> SUBSET Task]
      BY <2>1, <3>1 DEF EndFunction, ConsumeAll
    <3> QED
      BY <2>1, <3>2 DEF EndFunction, newVars
  <2>2. CASE ClearFunction(th)
    BY <1>3, <2>2 DEF ClearFunction, Release, newVars, execVars
  <2>3. CASE EndExecute(th)
    <3>1. refs' \in [Object -> Nat] /\ state' \in [Object -> {"Pooled", "Pending", "Done"}]
      BY <1>3, <2>3 DEF EndExecute, Release
    <3>2. exec[th] \in Object
      BY <2>3 DEF EndExecute, ExecFollowsPc, InExecute
    <3> QED
      BY <2>3, <3>1, <3>2 DEF EndExecute, newVars
  <2> QED
    BY <1>12, <2>1, <2>2, <2>3
<1>13. ASSUME NEW th \in Thread, NEW t \in Task, OnUnblocked(th, t)
       PROVE  TypeOK'
  <2>1. prerequires' \in [Task -> Nat]
    BY <1>4, <1>13 DEF OnUnblocked
  <2>2. CASE ~LastDecrement(t)
    BY <1>3, <1>13, <2>1, <2>2 DEF OnUnblocked, Release, newVars, execVars
  <2>3. CASE LastDecrement(t)
    BY <1>13, <2>1, <2>3 DEF OnUnblocked, Push, newVars, execVars
  <2> QED
    BY <2>2, <2>3
<1>14. ASSUME NEW th \in Thread, NEW t \in Task, Pop(th, t) \/ ExecuteATask(th, t)
       PROVE  TypeOK'
  <2>1. /\ ready' \subseteq Task /\ readyNamed' \subseteq Task
        /\ exec' \in [Thread -> TaskOrNone] /\ pc' \in [Thread -> PCs]
    <3>1. /\ ready' \subseteq ready /\ readyNamed' \subseteq readyNamed
          /\ exec' = [exec EXCEPT ![th] = t] /\ pc' = [pc EXCEPT ![th] = "start"]
      BY <1>14 DEF Pop, ExecuteATask, Take
    <3> QED
      BY <3>1
  <2>2. UNCHANGED <<objVars, held, current_task, inline, newVars, list, next>>
    BY <1>14 DEF Pop, ExecuteATask, Take
  <2> QED
    BY <2>1, <2>2 DEF objVars, newVars
<1>15. CASE UNCHANGED vars
  BY <1>15 DEF vars, objVars, newVars, execVars
<1> QED
  BY <1>5, <1>6, <1>7, <1>8, <1>9, <1>10, <1>11, <1>12, <1>13, <1>14, <1>15
  DEF Next, UserStep, SystemStep
-----------------------------------------------------------------------------
(* Who may touch what. *)

LEMMA ExecutorAlone ==
  ASSUME SystemInv, NEW th \in Thread, exec[th] # None
  PROVE  exec[th] \in Task /\ exec[th] \in Object /\ Executors(exec[th]) = {th}
<1>1. exec[th] \in Task /\ exec[th] \in Object /\ th \in Executors(exec[th])
  BY DEF SystemInv, TypeOK, TaskOrNone, Object, Executors
<1>2. Cardinality(Executors(exec[th])) = 1
  BY <1>1, PlaceUnique, PlacesSum
<1> QED
  BY <1>1, <1>2, Counted, CountOne

LEMMA UsableReferred ==
  ASSUME SystemInv, NEW th \in Thread, User(th), NEW o \in Usable(th)
  PROVE  Holders(o) # {} \/ Capturers(o) # {}
<1> QED
  BY DEF Usable, Holders, Capturers, SystemInv, TypeOK, ExecFollowsPc, InExecute, InCall,
         TaskOrNone

LEMMA NewUnsharedStep == SystemInv /\ [Next]_vars => NewUnshared'
<1> SUFFICES ASSUME SystemInv, [Next]_vars PROVE NewUnshared'
  OBVIOUS
<1> USE DEF NewUnshared, Holders, Capturers, Creators
<1>1. NewUnshared /\ TypeOK /\ Task \cap Future = {} /\ None \notin Object
  BY PoolAssumption DEF SystemInv
<1>2. \A h \in Thread : inline[h] => exec[h] # None
  BY DEF SystemInv, ExecFollowsPc
<1>3. \A h \in Thread : new[h] \in Task \cup {None} /\ exec[h] \in Task \cup {None}
  BY <1>1 DEF TypeOK, TaskOrNone
<1>4. ASSUME NEW th \in Thread, NEW t \in Task, NEW P \in SUBSET Usable(th),
             NEW C \in SUBSET Usable(th), NEW f, CreateTask(th, t, P, C, f)
      PROVE  NewUnshared'
  <2>1. /\ Holders(t) = {} /\ Capturers(t) = {} /\ Creators(t) = {} /\ Executors(t) = {}
    BY <1>4, PooledUnreferenced DEF CreateTask, Object
  <2>2. \A o \in C : Holders(o) # {} \/ Capturers(o) # {}
    BY <1>4, UsableReferred DEF CreateTask
  <2>3. /\ new' = [new EXCEPT ![th] = t] /\ captures' = [captures EXCEPT ![t] = C]
        /\ UNCHANGED <<held, exec, inline>>
    BY <1>4 DEF CreateTask, execVars
  <2>4. t \notin C
    BY <2>1, <2>2
  <2>5. ASSUME NEW h \in Thread, new'[h] # None
        PROVE  /\ \A g \in Thread : new'[h] \notin held'[g]
               /\ \A u \in Task : new'[h] \notin captures'[u]
               /\ \A g \in Thread : new'[g] = new'[h] <=> g = h
    <3>1. CASE h = th
      BY <1>1, <2>1, <2>3, <2>4, <3>1 DEF TypeOK
    <3>2. CASE h # th
      <4>1. new'[h] = new[h] /\ new[h] # t /\ new[h] \notin C
        BY <1>1, <2>1, <2>2, <2>3, <2>5, <3>2 DEF TypeOK
      <4> QED
        BY <1>1, <2>3, <2>5, <3>2, <4>1 DEF TypeOK
    <3> QED
      BY <3>1, <3>2
  <2>6. ASSUME NEW h \in Thread, inline'[h]
        PROVE  /\ \A g \in Thread : exec[h] \notin held'[g]
               /\ \A u \in Task : exec[h] \notin captures'[u]
               /\ \A g \in Thread : new'[g] # exec[h]
    <3>1. exec[h] # t /\ inline[h]
      BY <1>2, <2>1, <2>3, <2>6 DEF Executors
    <3> QED
      BY <1>1, <2>2, <2>3, <3>1 DEF TypeOK
  <2> QED
    BY <2>3, <2>5, <2>6
<1>5. ASSUME NEW th \in Thread, NEW f \in Future, MakeFuture(th, f)
      PROVE  NewUnshared'
  BY <1>1, <1>2, <1>3, <1>5 DEF MakeFuture, execVars, newVars, TypeOK, Object
<1>6. ASSUME NEW th \in Thread, NEW o \in Object, DropHandle(th, o) \/ DropCapture(th, o)
      PROVE  NewUnshared'
  <2>1. /\ \A h \in Thread : held'[h] \subseteq held[h]
        /\ \A t \in Task : captures'[t] \subseteq captures[t]
        /\ UNCHANGED <<new, exec, inline>>
    <3>1. held \in [Thread -> SUBSET Object] /\ captures \in [Task -> SUBSET Object]
      BY <1>1 DEF TypeOK
    <3>2. CASE DropHandle(th, o)
      BY <3>1, <3>2 DEF DropHandle, execVars, newVars
    <3>3. CASE DropCapture(th, o)
      BY <3>1, <3>3 DEF DropCapture, execVars, newVars
    <3> QED
      BY <1>6, <3>2, <3>3
  <2> QED
    BY <1>1, <2>1
<1>7. ASSUME NEW th \in Thread, ReturnNew(th), new[th] # None,
             UNCHANGED <<captures, exec, inline>>
      PROVE  NewUnshared'
  <2>1. /\ new' = [new EXCEPT ![th] = None]
        /\ held' = [held EXCEPT ![th] = @ \cup {new[th]}]
    BY <1>7 DEF ReturnNew
  <2>2. ASSUME NEW h \in Thread, new'[h] # None
        PROVE  h # th /\ new'[h] = new[h] /\ new[h] # new[th]
    BY <1>1, <1>7, <2>1, <2>2 DEF TypeOK
  <2>3. ASSUME NEW h \in Thread, inline'[h]
        PROVE  exec[h] # new[th]
    BY <1>1, <1>7, <2>3
  <2>4. ASSUME NEW h \in Thread, inline'[h]
        PROVE  exec[h] # None
    BY <1>2, <1>7, <2>4
  <2> QED
    BY <1>1, <1>7, <2>1, <2>2, <2>3, <2>4 DEF TypeOK
<1>8. ASSUME NEW th \in Thread, ExecuteNew(th)
      PROVE  NewUnshared'
  <2>1. CASE current_task[th] = None
    <3>1. new[th] # None /\ UNCHANGED <<held, captures>>
      BY <1>8 DEF ExecuteNew, SystemInv, LocalsFollowPc, objVars
    <3>2. /\ new' = [new EXCEPT ![th] = None] /\ exec' = [exec EXCEPT ![th] = new[th]]
          /\ inline' = [inline EXCEPT ![th] = TRUE]
      BY <1>8, <2>1 DEF ExecuteNew
    <3>3. ASSUME NEW h \in Thread, new'[h] # None
          PROVE  new'[h] = new[h] /\ h # th /\ new[h] # None
      BY <1>1, <3>2, <3>3 DEF TypeOK
    <3>4. ASSUME NEW h \in Thread, inline'[h], h # th
          PROVE  inline[h] /\ exec'[h] = exec[h] /\ exec[h] # None
      BY <1>1, <1>2, <3>2, <3>4 DEF TypeOK
    <3>5. exec'[th] = new[th]
      BY <1>1, <3>2 DEF TypeOK
    <3>6. ASSUME NEW h \in Thread, inline'[h]
          PROVE  /\ \A g \in Thread : exec'[h] \notin held'[g]
                 /\ \A u \in Task : exec'[h] \notin captures'[u]
                 /\ \A g \in Thread : new'[g] # exec'[h]
      <4>1. CASE h = th
        BY <1>1, <3>1, <3>2, <3>3, <3>5, <4>1
      <4>2. CASE h # th
        BY <1>1, <3>1, <3>2, <3>3, <3>4, <3>6, <4>2
      <4> QED
        BY <4>1, <4>2
    <3>7. ASSUME NEW h \in Thread, new'[h] # None
          PROVE  /\ \A g \in Thread : new'[h] \notin held'[g]
                 /\ \A u \in Task : new'[h] \notin captures'[u]
                 /\ \A g \in Thread : new'[g] = new'[h] <=> g = h
      BY <1>1, <3>1, <3>3, <3>7
    <3> QED
      BY <3>6, <3>7
  <2>2. CASE current_task[th] # None
    BY <1>1, <1>8, <2>2 DEF ExecuteNew, objVars
  <2> QED
    BY <2>1, <2>2
<1>9. ASSUME NEW th \in Thread, SubtractInactive(th) \/ PushNew(th)
      PROVE  NewUnshared'
  <2>1. new[th] # None /\ UNCHANGED <<captures, exec, inline>>
    BY <1>9 DEF SubtractInactive, PushNew, execVars, SystemInv, LocalsFollowPc
  <2>2. ReturnNew(th) \/ UNCHANGED <<new, held>>
    BY <1>9 DEF SubtractInactive, PushNew
  <2>3. UNCHANGED <<new, held>> => NewUnshared'
    BY <1>1, <2>1
  <2> QED
    BY <1>7, <2>1, <2>2, <2>3
<1>10. ASSUME NEW th \in Thread, ClearFunction(th)
       PROVE  NewUnshared'
  <2>1. /\ \A t \in Task : captures'[t] \subseteq captures[t]
        /\ UNCHANGED <<held, new, exec, inline>>
    BY <1>1, <1>10 DEF ClearFunction, execVars, newVars, TypeOK
  <2> QED
    BY <1>1, <2>1
<1>11. ASSUME NEW th \in Thread, EndExecute(th)
       PROVE  NewUnshared'
  <2>1. exec[th] # None /\ exec[th] \in Task
    BY <1>11, ExecutorAlone DEF EndExecute, SystemInv, ExecFollowsPc, InExecute
  <2>2. /\ UNCHANGED <<new, captures>> /\ inline' = [inline EXCEPT ![th] = FALSE]
        /\ \A h \in Thread : h # th => exec'[h] = exec[h]
    BY <1>1, <1>11 DEF EndExecute, newVars, TypeOK
  <2>3. \A h \in Thread : held'[h] \subseteq held[h] \cup IF inline[th] THEN {exec[th]} ELSE {}
    BY <1>1, <1>11 DEF EndExecute, TypeOK
  <2>4. \A h \in Thread : h # th => exec[h] # exec[th]
    <3>1. Executors(exec[th]) = {th}
      BY <2>1, ExecutorAlone
    <3> QED
      BY <3>1 DEF Executors
  <2>5. inline[th] => \A h \in Thread : new[h] # exec[th]
    BY <1>1
  <2>6. \A h \in Thread : inline'[h] => h # th /\ inline[h]
    BY <1>1, <2>2 DEF TypeOK
  <2> QED
    BY <1>1, <2>2, <2>3, <2>4, <2>5, <2>6
<1>12. ASSUME NEW th \in Thread, NEW t \in Task, Pop(th, t) \/ ExecuteATask(th, t)
       PROVE  NewUnshared'
  <2>1. exec[th] = None /\ ~inline[th]
    BY <1>2, <1>12 DEF Pop, ExecuteATask, SystemInv, ExecFollowsPc
  <2>2. /\ UNCHANGED <<held, captures, new, inline>>
        /\ \A h \in Thread : h # th => exec'[h] = exec[h]
    BY <1>1, <1>12 DEF Pop, ExecuteATask, Take, objVars, newVars, TypeOK
  <2> QED
    BY <1>1, <2>1, <2>2
<1>13. CASE UNCHANGED <<held, captures, new, exec, inline>>
  BY <1>1, <1>13
<1>14. ASSUME NEW th \in Thread,
              \/ \E f \in Future : FutureDone(th, f)
              \/ \E p \in Object : CheckPrereq(th, p)
              \/ AddDependency(th) \/ ReturnNode(th)
              \/ FutureDoneReturns(th) \/ StartFunction(th) \/ EndFunction(th)
              \/ \E t \in Task : OnUnblocked(th, t)
       PROVE  UNCHANGED <<held, captures, new, exec, inline>>
  BY <1>14
  DEF FutureDone, CheckPrereq, AddDependency, ReturnNode, FutureDoneReturns, StartFunction,
      EndFunction, OnUnblocked, objVars, execVars, newVars
<1>15. UNCHANGED vars => UNCHANGED <<held, captures, new, exec, inline>>
  BY DEF vars, objVars, execVars, newVars
<1> QED
  BY <1>4, <1>5, <1>6, <1>8, <1>9, <1>10, <1>11, <1>12, <1>13, <1>14, <1>15
  DEF Next, UserStep, SystemStep, Thread
-----------------------------------------------------------------------------
(* What the last reference to an object is. *)

\* A pending task is referred to from where it waits: the last handle of a task
\* is that of a finished one.
LEMMA LastHandle ==
  ASSUME SystemInv, NEW o \in Object, refs[o] = 1, Holders(o) # {} \/ Capturers(o) # {}
  PROVE  /\ Executors(o) = {} /\ Creators(o) = {}
         /\ o \in Task => /\ state[o] = "Done" /\ dependents[o] = {}
                          /\ ~function[o] /\ captures[o] = {}
<1>1. RefsTo(o) = 1
  BY DEF SystemInv, RefsExact
<1>2. /\ Gates(o) = {} /\ Lists(o) = {} /\ Creators(o) = {} /\ Nexts(o) = {}
      /\ Executors(o) = {} /\ o \notin ready /\ o \notin readyNamed
  BY <1>1, RefsSum
<1>3. Pushers(o) = {} /\ UnsettledOf(o) = {}
  BY <1>2 DEF Pushers, UnsettledOf
<1>4. Owed(o) = 0 /\ Places(o) = 0
  BY <1>2, <1>3, OwedNat, PlacesSum
<1>5. state[o] # "Pooled"
  BY DEF SystemInv, PooledClean
<1>6. ASSUME o \in Task PROVE state[o] = "Done"
  BY <1>4, <1>5, <1>6 DEF SystemInv, OnePlace, TypeOK
<1>7. ASSUME o \in Task PROVE ~function[o] /\ captures[o] = {}
  BY <1>2, <1>6, <1>7 DEF SystemInv, ExecutionStages, TypeOK
<1> QED
  BY <1>2, <1>6, <1>7 DEF SystemInv, PooledClean

\* The reference of a dependency node is never the last one: the task it refers
\* to waits for another gate, or its creator has it.
LEMMA NodeNotLast ==
  ASSUME SystemInv, NEW th \in Thread,
         ReturnNode(th) \/ \E t \in Task : OnUnblocked(th, t)
  PROVE  UNCHANGED state
<1>1. CASE ReturnNode(th)
  <2>1. new[th] \in Object /\ Creators(new[th]) # {} /\ Nodes(new[th]) # {}
    BY <1>1, CreatorAlone DEF ReturnNode, SystemInv, LocalsFollowPc, Nodes
  <2>2. refs[new[th]] # 1
    BY <2>1, RefsSum DEF SystemInv, RefsExact
  <2> QED
    BY <1>1, <2>2 DEF ReturnNode, Release, SystemInv, TypeOK
<1>2. ASSUME NEW t \in Task, OnUnblocked(th, t), ~LastDecrement(t)
      PROVE  UNCHANGED state
  <2>1. t \in Object /\ Lists(t) # {}
    BY <1>2 DEF OnUnblocked, Lists, Object
  <2>2. refs[t] # 1
    <3> SUFFICES ASSUME refs[t] = 1 PROVE FALSE
      OBVIOUS
    <3>1. Cardinality(Gates(t)) + Cardinality(Lists(t)) <= 1 /\ Creators(t) = {}
      BY <2>1, RefsSum DEF SystemInv, RefsExact
    <3>2. Cardinality(UnsettledOf(t)) = 0
      BY <3>1, CountsZero DEF UnsettledOf
    <3>3. Owed(t) <= 1 /\ Owed(t) # 0
      BY <2>1, <3>1, <3>2, CountsNat, CountsZero DEF Owed
    <3>4. Owed(t) \in Nat /\ prerequires[t] = Owed(t)
      BY OwedNat DEF SystemInv, CounterExact
    <3> QED
      BY <1>2, <3>3, <3>4 DEF LastDecrement
  <2> QED
    BY <1>2, <2>2 DEF OnUnblocked, Release, SystemInv, TypeOK
<1>3. ASSUME NEW t \in Task, OnUnblocked(th, t), LastDecrement(t)
      PROVE  UNCHANGED state
  BY <1>3 DEF OnUnblocked
<1> QED
  BY <1>1, <1>2, <1>3

\* What user code releases: nothing a thread executes, and of the tasks only
\* those that are finished for good.
LEMMA HandlesReleased ==
  ASSUME SystemInv, NEW th \in Thread,
         \/ \E o \in Object : DropHandle(th, o) \/ DropCapture(th, o)
         \/ ClearFunction(th)
  PROVE  /\ \A o \in Object : state'[o] # state[o] =>
              /\ state'[o] = "Pooled" /\ refs[o] = 1 /\ refs'[o] = 0
              /\ Executors(o) = {} /\ Creators(o) = {}
              /\ o \in Task => /\ state[o] = "Done" /\ dependents[o] = {}
                               /\ ~function[o] /\ captures[o] = {}
         /\ \A o \in Object : refs'[o] # refs[o] =>
              refs[o] # 0 /\ refs'[o] = refs[o] - 1 /\ (refs[o] = 1 => state'[o] = "Pooled")
<1> SUFFICES ASSUME NEW X \in SUBSET Object, Release(X),
                    \A o \in X : Holders(o) # {} \/ Capturers(o) # {}
             PROVE  /\ \A o \in Object : state'[o] # state[o] =>
                         /\ state'[o] = "Pooled" /\ refs[o] = 1 /\ refs'[o] = 0
                         /\ Executors(o) = {} /\ Creators(o) = {}
                         /\ o \in Task => /\ state[o] = "Done" /\ dependents[o] = {}
                                          /\ ~function[o] /\ captures[o] = {}
                    /\ \A o \in Object : refs'[o] # refs[o] =>
                         /\ refs[o] # 0 /\ refs'[o] = refs[o] - 1
                         /\ refs[o] = 1 => state'[o] = "Pooled"
  <2>1. ASSUME NEW o \in Object, DropHandle(th, o)
        PROVE  Release({o}) /\ Holders(o) # {}
    BY <2>1 DEF DropHandle, Holders
  <2>2. ASSUME NEW o \in Object, DropCapture(th, o)
        PROVE  Release({o}) /\ Capturers(o) # {}
    <3>1. current_task[th] \in Task
      BY <2>2 DEF DropCapture, SystemInv, ExecFollowsPc, TypeOK, InExecute, TaskOrNone
    <3> QED
      BY <2>2, <3>1 DEF DropCapture, Capturers
  <2>3. ASSUME ClearFunction(th)
        PROVE  /\ Release(captures[exec[th]]) /\ captures[exec[th]] \subseteq Object
               /\ \A o \in captures[exec[th]] : Capturers(o) # {}
    <3>1. exec[th] \in Task
      BY <2>3 DEF ClearFunction, SystemInv, ExecFollowsPc, TypeOK, InExecute, TaskOrNone
    <3> QED
      BY <2>3, <3>1 DEF ClearFunction, Capturers, SystemInv, TypeOK
  <2> QED
    BY <2>1, <2>2, <2>3
<1>1. \A o \in X : refs[o] # 0
  BY PooledUnreferenced DEF SystemInv, PooledClean
<1> QED
  BY <1>1, LastHandle DEF Release, SystemInv, TypeOK

\* A task that waits to be run is pending.
LEMMA ScheduledPending ==
  ASSUME SystemInv, NEW t \in Task,
         t \in ready \/ t \in readyNamed \/ Nexts(t) # {} \/ Pushers(t) # {}
  PROVE  state[t] = "Pending" /\ Executors(t) = {} /\ prerequires[t] = 0
<1>1. state[t] # "Pooled" /\ Places(t) = 1 /\ Owed(t) = 0
  BY PlaceUnique
<1>2. Executors(t) = {}
  BY <1>1, PlacesSum
<1>3. state[t] # "Done"
  BY <1>1, <1>2, SingleCount DEF SystemInv, OnePlace
<1> QED
  BY <1>1, <1>2, <1>3 DEF SystemInv, TypeOK, Object, CounterExact

Outside(at) == at # "unblock" /\ at # "release"

LEMMA ExecutionStagesStep == SystemInv /\ [Next]_vars => ExecutionStages'
<1> SUFFICES ASSUME SystemInv, [Next]_vars PROVE ExecutionStages'
  OBVIOUS
<1> USE DEF ExecutionStages, Executors, Outside
<1>1. /\ ExecutionStages /\ TypeOK /\ Task \cap Future = {} /\ None \notin Object
      /\ Task \subseteq Object
  BY PoolAssumption DEF SystemInv, Object
<1>2. \A h \in Thread : /\ exec[h] \in Task \cup {None}
                        /\ pc[h] \in InExecute => exec[h] # None
  BY <1>1 DEF TypeOK, TaskOrNone, SystemInv, ExecFollowsPc
<1>3. ASSUME UNCHANGED <<state, function, captures, exec>>,
             \A h \in Thread :
               pc'[h] = pc[h] \/ (Outside(pc[h]) /\ Outside(pc'[h]))
      PROVE  ExecutionStages'
  BY <1>1, <1>3
<1>4. ASSUME NEW th \in Thread,
             \/ \E p \in Object : CheckPrereq(th, p)
             \/ AddDependency(th) \/ ReturnNode(th) \/ SubtractInactive(th)
             \/ PushNew(th) \/ FutureDoneReturns(th) \/ StartFunction(th)
             \/ \E t \in Task : OnUnblocked(th, t)
      PROVE  ExecutionStages'
  <2>1. UNCHANGED <<state, function, captures, exec>>
    BY <1>4, NodeNotLast
    DEF CheckPrereq, AddDependency, ReturnNode, SubtractInactive, PushNew,
        FutureDoneReturns, StartFunction, OnUnblocked, execVars, objVars
  <2>2. \A h \in Thread :
          pc'[h] = pc[h] \/ (Outside(pc[h]) /\ Outside(pc'[h]))
    <3>1. \/ UNCHANGED pc
          \/ \E at : /\ pc' = [pc EXCEPT ![th] = at] /\ Outside(pc[th])
                    /\ at \in {"idle", "body", "ready"}
      BY <1>4
      DEF CheckPrereq, AddDependency, ReturnNode, SubtractInactive, PushNew, ReturnNew,
          Caller, FutureDoneReturns, StartFunction, OnUnblocked
    <3> QED
      BY <1>1, <3>1 DEF TypeOK
  <2> QED
    BY <1>3, <2>1, <2>2
<1>5. ASSUME NEW th \in Thread, NEW t \in Task, NEW P \in SUBSET Usable(th),
             NEW C \in SUBSET Usable(th), NEW f, CreateTask(th, t, P, C, f)
      PROVE  ExecutionStages'
  <2>1. \A h \in Thread : exec[h] # t
    BY <1>5, PooledUnreferenced DEF CreateTask, Object
  <2>2. /\ state' = [state EXCEPT ![t] = "Pending"]
        /\ function' = [function EXCEPT ![t] = TRUE]
        /\ captures' = [captures EXCEPT ![t] = C]
        /\ UNCHANGED exec
    BY <1>5 DEF CreateTask, execVars
  <2>3. \A h \in Thread :
          pc'[h] = pc[h] \/ (Outside(pc[h]) /\ Outside(pc'[h]))
    BY <1>1, <1>5 DEF CreateTask, User, TypeOK
  <2> QED
    <3>1. /\ state'[t] = "Pending" /\ function'[t]
          /\ \A x \in Task : x # t => /\ state'[x] = state[x] /\ function'[x] = function[x]
                                     /\ captures'[x] = captures[x]
      BY <1>1, <2>2 DEF TypeOK
    <3> QED
      BY <1>1, <1>2, <2>1, <2>2, <2>3, <3>1
<1>6. ASSUME NEW th \in Thread, NEW f \in Future, MakeFuture(th, f) \/ FutureDone(th, f)
      PROVE  ExecutionStages'
  <2>1. /\ \A t \in Task : state'[t] = state[t]
        /\ UNCHANGED <<function, captures, exec>>
    BY <1>1, <1>6 DEF MakeFuture, FutureDone, ConsumeAll, execVars, TypeOK
  <2>2. \A h \in Thread :
          pc'[h] = pc[h] \/ (Outside(pc[h]) /\ Outside(pc'[h]))
    BY <1>1, <1>6 DEF MakeFuture, FutureDone, User, TypeOK
  <2> QED
    BY <1>1, <1>2, <2>1, <2>2
<1>7. ASSUME NEW th \in Thread, NEW o \in Object, DropHandle(th, o) \/ DropCapture(th, o)
      PROVE  ExecutionStages'
  <2>1. /\ \A t \in Task : captures'[t] \subseteq captures[t]
        /\ UNCHANGED <<function, exec, pc>>
    <3>1. CASE DropHandle(th, o)
      BY <3>1 DEF DropHandle, execVars
    <3>2. CASE DropCapture(th, o)
      BY <1>1, <3>2 DEF DropCapture, execVars, TypeOK
    <3> QED
      BY <1>7, <3>1, <3>2
  <2>2. \A t \in Task : state'[t] # state[t] =>
          state'[t] = "Pooled" /\ ~function[t] /\ \A h \in Thread : exec[h] # t
    BY <1>1, <1>7, HandlesReleased
  <2> QED
    BY <1>1, <1>2, <2>1, <2>2
<1>8. ASSUME NEW th \in Thread, ExecuteNew(th)
      PROVE  ExecutionStages'
  <2>1. new[th] \in Task /\ state[new[th]] = "Pending"
    <3>1. new[th] \in Task /\ Pushers(new[th]) # {}
      <4>1. new[th] # None /\ pc[th] = "ready"
        BY <1>8 DEF ExecuteNew, SystemInv, LocalsFollowPc
      <4>2. new[th] \in Task /\ Pushers(new[th]) = {th}
        BY <4>1, CreatorAlone
      <4> QED
        BY <4>2
    <3> QED
      BY <3>1, ScheduledPending
  <2>2. UNCHANGED <<state, function, captures>>
    BY <1>8 DEF ExecuteNew, objVars
  <2>3. CASE current_task[th] = None
    <3>1. /\ exec' = [exec EXCEPT ![th] = new[th]] /\ pc' = [pc EXCEPT ![th] = "start"]
          /\ pc[th] = "ready"
      BY <1>8, <2>3 DEF ExecuteNew
    <3>2. \A h \in Thread : h # th => exec'[h] = exec[h] /\ pc'[h] = pc[h]
      BY <1>1, <3>1 DEF TypeOK
    <3>3. exec'[th] = new[th] /\ pc'[th] = "start"
      BY <1>1, <3>1 DEF TypeOK
    <3> QED
      BY <1>1, <2>1, <2>2, <3>1, <3>2, <3>3
  <2>4. CASE current_task[th] # None
    <3>1. /\ UNCHANGED exec
          /\ \A h \in Thread :
               pc'[h] = pc[h] \/ (Outside(pc[h]) /\ Outside(pc'[h]))
      BY <1>1, <1>8, <2>4 DEF ExecuteNew, TypeOK
    <3> QED
      BY <1>3, <2>2, <3>1
  <2> QED
    BY <2>3, <2>4
<1>9. ASSUME NEW th \in Thread, NEW t \in Task, Pop(th, t) \/ ExecuteATask(th, t)
      PROVE  ExecutionStages'
  <2>1. state[t] = "Pending"
    BY <1>9, ScheduledPending DEF Pop, ExecuteATask
  <2>2. /\ UNCHANGED <<state, function, captures>> /\ pc[th] = "idle"
        /\ exec' = [exec EXCEPT ![th] = t] /\ pc' = [pc EXCEPT ![th] = "start"]
    BY <1>9 DEF Pop, ExecuteATask, Take, objVars
  <2>3. \A h \in Thread : h # th => exec'[h] = exec[h] /\ pc'[h] = pc[h]
    BY <1>1, <2>2 DEF TypeOK
  <2>4. exec'[th] = t /\ pc'[th] = "start"
    BY <1>1, <2>2 DEF TypeOK
  <2> QED
    BY <1>1, <2>1, <2>2, <2>3, <2>4
<1>10. ASSUME NEW th \in Thread, EndFunction(th)
       PROVE  ExecutionStages'
  <2>1. exec[th] \in Task /\ \A h \in Thread : h # th => exec[h] # exec[th]
    <3>1. exec[th] # None
      BY <1>2, <1>10 DEF EndFunction, InExecute
    <3>2. exec[th] \in Task /\ Executors(exec[th]) = {th}
      BY <3>1, ExecutorAlone
    <3> QED
      BY <3>2
  <2>2. /\ state' = [state EXCEPT ![exec[th]] = "Done"] /\ UNCHANGED <<function, captures, exec>>
        /\ pc' = [pc EXCEPT ![th] = "unblock"] /\ pc[th] = "body"
    BY <1>10 DEF EndFunction, ConsumeAll
  <2>3. /\ state'[exec[th]] = "Done" /\ pc'[th] = "unblock"
        /\ \A t \in Task : t # exec[th] => state'[t] = state[t]
        /\ \A h \in Thread : h # th => pc'[h] = pc[h]
    BY <1>1, <2>1, <2>2 DEF TypeOK
  <2> QED
    BY <1>1, <1>2, <2>1, <2>2, <2>3
<1>11. ASSUME NEW th \in Thread, ClearFunction(th)
       PROVE  ExecutionStages'
  <2>1. /\ exec[th] \in Task /\ state[exec[th]] = "Done"
        /\ \A h \in Thread : h # th => exec[h] # exec[th]
    <3>1. exec[th] # None /\ pc[th] = "unblock"
      BY <1>2, <1>11 DEF ClearFunction, InExecute
    <3>2. exec[th] \in Task /\ Executors(exec[th]) = {th}
      BY <3>1, ExecutorAlone
    <3> QED
      BY <1>1, <3>1, <3>2
  <2>2. /\ UNCHANGED exec
        /\ \A t \in Task : t # exec[th] => function'[t] = function[t] /\ captures'[t] = captures[t]
        /\ ~function'[exec[th]] /\ captures'[exec[th]] = {}
        /\ \A h \in Thread : h # th => pc'[h] = pc[h]
        /\ pc'[th] = "release" /\ pc[th] = "unblock"
    BY <1>1, <1>11, <2>1 DEF ClearFunction, execVars, TypeOK
  <2>3. \A t \in Task : state'[t] # state[t] =>
          state'[t] = "Pooled" /\ ~function[t] /\ \A h \in Thread : exec[h] # t
    BY <1>1, <1>11, HandlesReleased
  <2>4. ASSUME NEW h \in Thread, exec'[h] # None
        PROVE  state'[exec'[h]] =
                 IF pc'[h] \in {"unblock", "release"} THEN "Done" ELSE "Pending"
    <3>1. exec[h] \in Task /\ state'[exec[h]] = state[exec[h]]
      BY <1>2, <2>2, <2>3, <2>4
    <3> QED
      BY <1>1, <2>1, <2>2, <2>4, <3>1
  <2>5. ASSUME NEW t \in Task
        PROVE  /\ state'[t] = "Pending" => function'[t]
               /\ function'[t] => state'[t] = "Pending" \/ \E h \in Executors(t)' : pc'[h] = "unblock"
               /\ captures'[t] # {} => function'[t]
    <3>1. CASE t = exec[th]
      <4>1. state'[t] # "Pending"
        BY <2>1, <2>3, <3>1
      <4> QED
        BY <2>2, <3>1, <4>1
    <3>2. CASE t # exec[th]
      <4>1. Executors(t)' = Executors(t) /\ \A h \in Executors(t) : pc'[h] = pc[h]
        BY <2>2, <3>2
      <4> QED
        BY <1>1, <2>2, <2>3, <3>2, <4>1
    <3> QED
      BY <3>1, <3>2
  <2>6. ASSUME NEW h \in Thread, pc'[h] = "release" PROVE ~function'[exec'[h]]
    <3>1. exec[h] \in Task
      BY <1>1, <1>2, <2>1, <2>2, <2>6 DEF InExecute
    <3> QED
      BY <1>1, <2>1, <2>2, <2>6, <3>1
  <2> QED
    BY <2>4, <2>5, <2>6
<1>12. ASSUME NEW th \in Thread, EndExecute(th)
       PROVE  ExecutionStages'
  <2>1. /\ exec[th] \in Task /\ ~function[exec[th]] /\ state[exec[th]] = "Done"
        /\ \A h \in Thread : h # th => exec[h] # exec[th]
    <3>1. exec[th] # None /\ pc[th] = "release"
      BY <1>2, <1>12 DEF EndExecute, InExecute
    <3>2. exec[th] \in Task /\ Executors(exec[th]) = {th}
      BY <3>1, ExecutorAlone
    <3> QED
      BY <1>1, <3>1, <3>2
  <2>2. next[th] # None =>
          next[th] \in Task /\ state[next[th]] = "Pending" /\ next[th] # exec[th]
    <3>1. next[th] # None => next[th] \in Task /\ Nexts(next[th]) # {}
      BY <1>1 DEF TypeOK, TaskOrNone, Nexts
    <3> QED
      BY <2>1, <3>1, ScheduledPending
  <2>3. /\ UNCHANGED <<function, captures>>
        /\ \A t \in Task : t # exec[th] => state'[t] = state[t]
        /\ state'[exec[th]] \in {"Pooled", "Done"}
    BY <1>1, <1>12, <2>1 DEF EndExecute, Release
  <2>4. /\ \A h \in Thread : h # th => exec'[h] = exec[h] /\ pc'[h] = pc[h]
        /\ exec'[th] = next[th]
        /\ pc'[th] = IF next[th] = None THEN "idle" ELSE "start"
    BY <1>1, <1>12 DEF EndExecute, TypeOK
  <2> QED
    BY <1>1, <1>2, <2>1, <2>2, <2>3, <2>4
<1>13. CASE UNCHANGED vars
  BY <1>3, <1>13 DEF vars, objVars, execVars
<1> QED
  BY <1>4, <1>5, <1>6, <1>7, <1>8, <1>9, <1>10, <1>11, <1>12, <1>13
  DEF Next, UserStep, SystemStep, Thread

\* A future that only a function holds when it is cleared has no dependents.
LEMMA ClearedAlone ==
  ASSUME SystemInv, NEW th \in Thread, ClearFunction(th), NEW f \in Future,
         state'[f] # state[f]
  PROVE  dependents[f] = {}
<1> DEFINE t == exec[th]
<1>1. /\ t \in Task /\ state[t] = "Done" /\ f \in Object
  BY DEF ClearFunction, SystemInv, ExecFollowsPc, ExecutionStages, InExecute, TypeOK,
         TaskOrNone, Object
<1>2. RefsTo(f) = 1 /\ f \in captures[t]
  BY <1>1 DEF ClearFunction, Release, SystemInv, RefsExact, TypeOK
<1>3. t \in Capturers(f)
  BY <1>1, <1>2 DEF Capturers
<1>4. Cardinality(Capturers(f)) = 1 /\ Holders(f) = {}
  BY <1>2, <1>3, RefsSum
<1>5. \A x \in Capturers(f) : x = t
  BY <1>3, <1>4, Counted, CountOne
<1>6. state[f] = "Pending" => dependents[f] = {}
  BY <1>1, <1>4, <1>5 DEF SystemInv, FutureAnchored
<1> QED
  BY <1>1, <1>6 DEF SystemInv, PooledClean

LEMMA PooledCleanStep == SystemInv /\ [Next]_vars => PooledClean'
<1> SUFFICES ASSUME SystemInv, [Next]_vars PROVE PooledClean'
  OBVIOUS
<1> USE DEF PooledClean
<1>1. /\ PooledClean /\ TypeOK /\ Task \cap Future = {} /\ None \notin Object
      /\ Task \subseteq Object /\ Future \subseteq Object
  BY PoolAssumption DEF SystemInv, Object
<1>2. ASSUME \A o \in Object : state'[o] = state[o] /\ (refs'[o] = 0 <=> refs[o] = 0),
             \A o \in Object : state[o] # "Pending" => dependents'[o] = dependents[o],
             UNCHANGED <<function, captures>>
      PROVE  PooledClean'
  BY <1>1, <1>2
<1>3. ASSUME NEW X \in SUBSET Object, AddRef(X), \A o \in X : state[o] # "Pooled",
             UNCHANGED <<state, dependents, function, captures>>
      PROVE  PooledClean'
  <2>1. \A o \in Object : refs'[o] = 0 <=> refs[o] = 0
    BY <1>1, <1>3 DEF AddRef, TypeOK
  <2> QED
    BY <1>2, <1>3, <2>1
<1>4. ASSUME NEW th \in Thread, new[th] # None
      PROVE  new[th] \in Object /\ state[new[th]] # "Pooled"
  <2>1. new[th] \in Object /\ Creators(new[th]) = {th}
    BY <1>4, CreatorAlone
  <2> QED
    BY <2>1, PooledUnreferenced
<1>5. ASSUME NEW th \in Thread, NEW t \in Task, NEW P \in SUBSET Usable(th),
             NEW C \in SUBSET Usable(th), NEW f, CreateTask(th, t, P, C, f)
      PROVE  PooledClean'
  <2>1. \A o \in C : o \in Object /\ state[o] # "Pooled"
    BY <1>5, UsableAlive DEF CreateTask
  <2>2. /\ UNCHANGED dependents /\ AddRef({t} \cup C) /\ state[t] = "Pooled"
        /\ state'[t] = "Pending"
        /\ \A o \in Object : o # t => state'[o] = state[o]
        /\ \A x \in Task : x # t => function'[x] = function[x] /\ captures'[x] = captures[x]
    BY <1>1, <1>5 DEF CreateTask, TypeOK
  <2>3. \A o \in Object : refs'[o] = 0 <=> refs[o] = 0 /\ o # t
    BY <1>1, <2>1, <2>2 DEF AddRef, TypeOK
  <2> QED
    BY <1>1, <2>2, <2>3
<1>6. ASSUME NEW th \in Thread, NEW f \in Future, MakeFuture(th, f)
      PROVE  PooledClean'
  <2>1. /\ UNCHANGED <<dependents, function, captures>> /\ AddRef({f})
        /\ state'[f] = "Pending" /\ \A o \in Object : o # f => state'[o] = state[o]
    BY <1>1, <1>6 DEF MakeFuture, TypeOK
  <2>2. \A o \in Object : refs'[o] = 0 <=> refs[o] = 0 /\ o # f
    BY <1>1, <2>1 DEF AddRef, TypeOK
  <2> QED
    BY <1>1, <2>1, <2>2
<1>7. ASSUME NEW th \in Thread, NEW o \in Object, state[o] = "Pending", ConsumeAll(th, o),
             UNCHANGED <<refs, function, captures>>
      PROVE  PooledClean'
  BY <1>1, <1>7 DEF ConsumeAll, TypeOK
<1>8. ASSUME NEW th \in Thread, NEW f \in Future, FutureDone(th, f)
      PROVE  PooledClean'
  BY <1>1, <1>7, <1>8 DEF FutureDone
<1>9. ASSUME NEW th \in Thread, EndFunction(th)
      PROVE  PooledClean'
  <2>1. exec[th] \in Object /\ state[exec[th]] = "Pending"
    BY <1>1, <1>9 DEF EndFunction, SystemInv, ExecFollowsPc, ExecutionStages, InExecute, TypeOK,
       TaskOrNone
  <2> QED
    BY <1>7, <1>9, <2>1 DEF EndFunction
<1>10. ASSUME NEW th \in Thread,
              \/ \E o \in Object : DropHandle(th, o) \/ DropCapture(th, o)
              \/ ClearFunction(th)
       PROVE  PooledClean'
  <2>1. /\ UNCHANGED dependents
        /\ \A x \in Task : /\ function'[x] => function[x]
                           /\ captures'[x] \subseteq captures[x]
    <3>1. CASE \E o \in Object : DropHandle(th, o)
      BY <3>1 DEF DropHandle
    <3>2. CASE \E o \in Object : DropCapture(th, o)
      BY <1>1, <3>2 DEF DropCapture, TypeOK
    <3>3. CASE ClearFunction(th)
      BY <1>1, <3>3 DEF ClearFunction, TypeOK
    <3> QED
      BY <1>10, <3>1, <3>2, <3>3
  <2>2. \A o \in Object : state'[o] # state[o] => dependents[o] = {}
    <3> SUFFICES ASSUME NEW o \in Object, state'[o] # state[o] PROVE dependents[o] = {}
      OBVIOUS
    <3>1. CASE o \in Task
      BY <1>10, <3>1, HandlesReleased
    <3>2. CASE o \in Future
      <4>1. CASE ClearFunction(th)
        BY <3>2, <4>1, ClearedAlone
      <4>2. CASE \E x \in Object : DropHandle(th, x) \/ DropCapture(th, x)
        <5>1. MayDrop(o)
          BY <1>1, <4>2 DEF DropHandle, DropCapture, Release, TypeOK
        <5> QED
          BY <1>1, <3>2, <5>1 DEF MayDrop
      <4> QED
        BY <1>10, <4>1, <4>2
    <3> QED
      BY <3>1, <3>2 DEF Object
  <2>3. \A o \in Object : state'[o] # state[o] =>
          /\ state'[o] = "Pooled" /\ refs'[o] = 0
          /\ o \in Task => ~function[o] /\ captures[o] = {}
    BY <1>10, HandlesReleased
  <2>4. \A o \in Object : state'[o] = state[o] => (refs'[o] = 0 <=> refs[o] = 0)
    <3> SUFFICES ASSUME NEW o \in Object, state'[o] = state[o], refs'[o] # refs[o]
                 PROVE  refs'[o] # 0 /\ refs[o] # 0
      OBVIOUS
    <3>1. /\ refs[o] # 0 /\ refs'[o] = refs[o] - 1
          /\ refs[o] = 1 => state'[o] = "Pooled"
      BY <1>10, HandlesReleased
    <3> QED
      BY <1>1, <3>1 DEF TypeOK
  <2> QED
    BY <1>1, <2>1, <2>2, <2>3, <2>4
<1>11. ASSUME NEW th \in Thread, NEW p \in Object, CheckPrereq(th, p)
       PROVE  PooledClean'
  <2>1. UNCHANGED <<state, dependents, function, captures>>
    BY <1>11 DEF CheckPrereq
  <2>2. new[th] # None
    BY <1>11 DEF CheckPrereq, SystemInv, LocalsFollowPc
  <2>3. AddRef({new[th]}) \/ AddRef({}) \/ UNCHANGED refs
    BY <1>11 DEF CheckPrereq
  <2>4. UNCHANGED refs => PooledClean'
    BY <1>2, <2>1
  <2> QED
    BY <1>3, <1>4, <2>1, <2>2, <2>3, <2>4
<1>12. ASSUME NEW th \in Thread, AddDependency(th)
       PROVE  PooledClean'
  <2>1. UNCHANGED <<state, refs, function, captures>>
    BY <1>12 DEF AddDependency
  <2>2. \A o \in Object : state[o] # "Pending" => dependents'[o] = dependents[o]
    BY <1>1, <1>12 DEF AddDependency, TypeOK
  <2> QED
    BY <1>2, <2>1, <2>2
<1>13. ASSUME NEW th \in Thread, NEW x \in Object, Release({x}), UNCHANGED state,
              state[x] # "Pooled", UNCHANGED <<dependents, function, captures>>
       PROVE  PooledClean'
  <2>1. refs[x] # 0 /\ refs[x] # 1
    BY <1>1, <1>13 DEF Release
  <2>2. \A o \in Object : refs'[o] = 0 <=> refs[o] = 0
    BY <1>1, <1>13, <2>1 DEF Release, TypeOK
  <2> QED
    BY <1>2, <1>13, <2>2
<1>14. ASSUME NEW th \in Thread, ReturnNode(th)
       PROVE  PooledClean'
  <2>1. new[th] # None
    BY <1>14 DEF ReturnNode, SystemInv, LocalsFollowPc
  <2>2. UNCHANGED state /\ Release({new[th]}) /\ UNCHANGED <<dependents, function, captures>>
    BY <1>14, NodeNotLast DEF ReturnNode
  <2> QED
    BY <1>4, <1>13, <2>1, <2>2
<1>15. ASSUME NEW th \in Thread, NEW t \in Task, OnUnblocked(th, t)
       PROVE  PooledClean'
  <2>1. t \in Object /\ Lists(t) # {}
    BY <1>1, <1>15 DEF OnUnblocked, Lists
  <2>2. state[t] # "Pooled"
    BY <2>1, PooledUnreferenced
  <2>3. UNCHANGED <<state, dependents, function, captures>>
    BY <1>15, NodeNotLast DEF OnUnblocked
  <2>4. Release({t}) \/ UNCHANGED refs
    BY <1>15 DEF OnUnblocked
  <2>5. UNCHANGED refs => PooledClean'
    BY <1>2, <2>3
  <2> QED
    BY <1>13, <2>1, <2>2, <2>3, <2>4, <2>5
<1>16. ASSUME NEW th \in Thread, PushNew(th)
       PROVE  PooledClean'
  <2>1. new[th] # None
    BY <1>16 DEF PushNew, SystemInv, LocalsFollowPc
  <2>2. AddRef({new[th]}) /\ UNCHANGED <<state, dependents, function, captures>>
    BY <1>16 DEF PushNew
  <2> QED
    BY <1>3, <1>4, <2>1, <2>2
<1>17. ASSUME NEW th \in Thread, EndExecute(th)
       PROVE  PooledClean'
  <2>1. /\ exec[th] \in Task /\ state[exec[th]] = "Done" /\ ~function[exec[th]]
        /\ captures[exec[th]] = {} /\ dependents[exec[th]] = {}
    BY <1>1, <1>17
    DEF EndExecute, SystemInv, ExecFollowsPc, ExecutionStages, InExecute, TypeOK, TaskOrNone
  <2>2. UNCHANGED <<dependents, function, captures>>
    BY <1>17 DEF EndExecute
  <2>3. UNCHANGED <<refs, state>> \/ Release({exec[th]})
    BY <1>17 DEF EndExecute
  <2>4. UNCHANGED <<refs, state>> => PooledClean'
    BY <1>2, <2>2
  <2>5. ASSUME Release({exec[th]}) PROVE PooledClean'
    <3>1. /\ refs'[exec[th]] = refs[exec[th]] - 1 /\ refs[exec[th]] # 0
          /\ state'[exec[th]] = IF refs[exec[th]] = 1 THEN "Pooled" ELSE "Done"
          /\ \A o \in Object : o # exec[th] => refs'[o] = refs[o] /\ state'[o] = state[o]
      BY <1>1, <2>1, <2>5 DEF Release
    <3>2. refs[exec[th]] \in Nat
      BY <1>1, <2>1 DEF TypeOK
    <3> QED
      BY <1>1, <2>1, <2>2, <3>1, <3>2
  <2> QED
    BY <2>3, <2>4, <2>5
<1>18. ASSUME NEW th \in Thread,
              \/ SubtractInactive(th) \/ ExecuteNew(th) \/ FutureDoneReturns(th)
              \/ StartFunction(th)
              \/ \E t \in Task : Pop(th, t) \/ ExecuteATask(th, t)
       PROVE  UNCHANGED <<state, refs, dependents, function, captures>>
  BY <1>18 DEF SubtractInactive, ExecuteNew, FutureDoneReturns, StartFunction, Pop,
     ExecuteATask, Take, objVars
<1>19. UNCHANGED vars => UNCHANGED <<state, refs, dependents, function, captures>>
  BY DEF vars, objVars
<1>20. UNCHANGED <<state, refs, dependents, function, captures>> => PooledClean'
  BY <1>2
<1> QED
  BY <1>5, <1>6, <1>8, <1>9, <1>10, <1>11, <1>12, <1>14, <1>15, <1>16, <1>17, <1>18, <1>19,
     <1>20
  DEF Next, UserStep, SystemStep, Thread

LEMMA CreatorHoldsStep == SystemInv /\ [Next]_vars => CreatorHolds'
<1> SUFFICES ASSUME SystemInv, [Next]_vars PROVE CreatorHolds'
  OBVIOUS
<1>1. /\ CreatorHolds /\ TypeOK /\ None \notin Object /\ Task \subseteq Object
      /\ NewUnshared
  BY PoolAssumption DEF SystemInv, Object
<1>2. \A h \in Thread : /\ pc[h] # "prereq" => Unsettled(h) = {}
                        /\ Unsettled(h) # {} => new[h] # None
  BY DEF SystemInv, LocalsFollowPc, Unsettled
<1>3. ASSUME NEW th \in Thread,
             \A h \in Thread :
               /\ Unsettled(h)' \subseteq Unsettled(h)
               /\ Unsettled(h)' # {} => /\ held[h] \subseteq held'[h] /\ exec'[h] = exec[h]
                                        /\ new'[h] = new[h]
                                        /\ exec[h] # None => captures[exec[h]] \subseteq captures'[exec[h]],
             \A p \in Object : dependents'[p] \subseteq dependents[p]
      PROVE  CreatorHolds'
  <2> SUFFICES ASSUME NEW h \in Thread, NEW p \in Unsettled(h)'
               PROVE  /\ p \in held'[h] \/ (exec'[h] # None /\ p \in captures'[exec'[h]])
                      /\ new'[h] \notin dependents'[p]
    BY DEF CreatorHolds
  <2>1. p \in Unsettled(h) /\ p \in Object
    BY <1>1, <1>3 DEF Unsettled, TypeOK
  <2> QED
    BY <1>1, <1>3, <2>1 DEF CreatorHolds
<1>4. ASSUME NEW th \in Thread, UNCHANGED <<new, todo, adding, inactive>>,
             pc[th] # "prereq", UNCHANGED <<captures, dependents>>,
             \A h \in Thread : h # th => held'[h] = held[h] /\ exec'[h] = exec[h]
      PROVE  CreatorHolds'
  <2>1. \A h \in Thread : Unsettled(h)' = Unsettled(h)
    BY <1>4 DEF Unsettled
  <2>2. Unsettled(th)' = {}
    BY <1>2, <1>4, <2>1
  <2> QED
    BY <1>3, <1>4, <2>1, <2>2
<1>5. ASSUME NEW th \in Thread, NEW t \in Task, NEW P \in SUBSET Usable(th),
             NEW C \in SUBSET Usable(th), NEW f, CreateTask(th, t, P, C, f)
      PROVE  CreatorHolds'
  <2>1. /\ \A h \in Thread : exec[h] # t
        /\ \A p \in Object : t \notin dependents[p]
    <3>1. Executors(t) = {} /\ Gates(t) = {}
      BY <1>1, <1>5, PooledUnreferenced DEF CreateTask
    <3> QED
      BY <3>1 DEF Executors, Gates
  <2>2. /\ UNCHANGED <<held, exec, dependents>> /\ new'[th] = t
        /\ \A x \in Task : x # t => captures'[x] = captures[x]
        /\ \A h \in Thread : h # th => new'[h] = new[h] /\ Unsettled(h)' = Unsettled(h)
    BY <1>1, <1>5 DEF CreateTask, Unsettled, execVars, TypeOK
  <2>3. Unsettled(th)' = P
    <3>1. adding[th] = None /\ th \in Thread
      BY <1>5 DEF CreateTask, User, SystemInv, LocalsFollowPc
    <3>2. todo'[th] = P /\ inactive'[th] = {} /\ adding'[th] = None
      BY <1>1, <1>5, <3>1 DEF CreateTask, TypeOK
    <3> QED
      BY <3>2 DEF Unsettled
  <2>4. \A p \in P : /\ p \in Object
                     /\ p \in held[th] \/ (exec[th] \in Task /\ p \in captures[exec[th]])
    <3>1. \A p \in P : p \in Object
      BY <1>5, UsableAlive DEF CreateTask
    <3>2. pc[th] = "body" => current_task[th] = exec[th] /\ exec[th] \in Task
      BY <1>1 DEF SystemInv, ExecFollowsPc, InExecute, TypeOK, TaskOrNone
    <3> QED
      BY <3>1, <3>2 DEF Usable
  <2> SUFFICES ASSUME NEW h \in Thread, NEW p \in Unsettled(h)'
               PROVE  /\ p \in held'[h] \/ (exec'[h] # None /\ p \in captures'[exec'[h]])
                      /\ new'[h] \notin dependents'[p]
    BY DEF CreatorHolds
  <2>5. CASE h = th
    BY <1>1, <2>1, <2>2, <2>3, <2>4, <2>5
  <2>6. CASE h # th
    <3>1. exec[h] # None => exec[h] \in Task /\ exec[h] # t
      BY <1>1, <2>1 DEF TypeOK, TaskOrNone
    <3> QED
      BY <1>1, <2>2, <2>6, <3>1 DEF CreatorHolds
  <2> QED
    BY <2>5, <2>6
<1>6. ASSUME NEW th \in Thread, NEW f \in Future, MakeFuture(th, f)
      PROVE  CreatorHolds'
  <2>1. \A h \in Thread : held[h] \subseteq held'[h] /\ Unsettled(h)' = Unsettled(h)
    BY <1>1, <1>6 DEF MakeFuture, newVars, Unsettled, TypeOK
  <2> QED
    BY <1>3, <1>6, <2>1 DEF MakeFuture, newVars, execVars
<1>7. ASSUME NEW th \in Thread, NEW o \in Object, ConsumeAll(th, o),
             UNCHANGED <<held, captures, exec, newVars>>
      PROVE  CreatorHolds'
  <2>1. \A p \in Object : dependents'[p] \subseteq dependents[p]
    BY <1>1, <1>7 DEF ConsumeAll, TypeOK
  <2>2. \A h \in Thread : Unsettled(h)' = Unsettled(h) /\ new'[h] = new[h]
    BY <1>7 DEF newVars, Unsettled
  <2> QED
    BY <1>3, <1>7, <2>1, <2>2
<1>8. ASSUME NEW th \in Thread, (\E f \in Future : FutureDone(th, f)) \/ EndFunction(th)
      PROVE  CreatorHolds'
  <2>1. EndFunction(th) => exec[th] \in Object
    BY <1>1 DEF EndFunction, SystemInv, ExecFollowsPc, InExecute, TypeOK, TaskOrNone
  <2> QED
    BY <1>7, <1>8, <2>1 DEF FutureDone, EndFunction, Object, execVars
<1>9. ASSUME NEW th \in Thread, NEW o \in Object, DropHandle(th, o)
      PROVE  CreatorHolds'
  <2>1. pc[th] # "prereq"
    BY <1>9 DEF DropHandle, User
  <2>2. \A h \in Thread : h # th => held'[h] = held[h]
    BY <1>1, <1>9 DEF DropHandle, TypeOK
  <2> QED
    BY <1>4, <1>9, <2>1, <2>2 DEF DropHandle, newVars, execVars
<1>10. ASSUME NEW th \in Thread, pc[th] # "prereq", exec[th] # None,
              UNCHANGED <<held, dependents, exec, new, todo, adding, inactive>>,
              \A x \in Task : x # exec[th] => captures'[x] = captures[x]
       PROVE  CreatorHolds'
  <2>1. \A h \in Thread : Unsettled(h)' = Unsettled(h)
    BY <1>10 DEF Unsettled
  <2>2. \A h \in Thread : h # th => exec[h] # exec[th]
    <3>1. Executors(exec[th]) = {th}
      BY <1>10, ExecutorAlone
    <3> QED
      BY <3>1 DEF Executors
  <2>3. \A h \in Thread : h # th /\ exec[h] # None => captures'[exec[h]] = captures[exec[h]]
    BY <1>1, <1>10, <2>2 DEF TypeOK, TaskOrNone
  <2>4. Unsettled(th) = {}
    BY <1>2, <1>10
  <2> QED
    BY <1>3, <1>10, <2>1, <2>3, <2>4
<1>11. ASSUME NEW th \in Thread, (\E o \in Object : DropCapture(th, o)) \/ ClearFunction(th)
       PROVE  CreatorHolds'
  <2>1. pc[th] # "prereq" /\ exec[th] # None
    BY <1>11 DEF DropCapture, ClearFunction, SystemInv, ExecFollowsPc, InExecute
  <2>2. UNCHANGED <<held, dependents, exec, new, todo, adding, inactive>>
    BY <1>11 DEF DropCapture, ClearFunction, newVars, execVars
  <2>3. \A x \in Task : x # exec[th] => captures'[x] = captures[x]
    <3>1. pc[th] = "body" => current_task[th] = exec[th]
      BY DEF SystemInv, ExecFollowsPc
    <3> QED
      BY <1>1, <1>11, <3>1 DEF DropCapture, ClearFunction, TypeOK
  <2> QED
    BY <1>10, <2>1, <2>2, <2>3
<1>12. ASSUME NEW th \in Thread, NEW p \in Object, CheckPrereq(th, p)
       PROVE  CreatorHolds'
  <2>1. \A h \in Thread : Unsettled(h)' = Unsettled(h)
    BY <1>1, <1>12 DEF CheckPrereq, Unsettled, TypeOK
  <2> QED
    BY <1>3, <1>12, <2>1 DEF CheckPrereq, execVars
<1>13. ASSUME NEW th \in Thread, AddDependency(th)
       PROVE  CreatorHolds'
  <2> DEFINE a == adding[th]
  <2>1. /\ a \in Object /\ a \in Unsettled(th) /\ a \notin todo[th] \cup inactive[th]
        /\ new[th] # None
    BY <1>1, <1>13 DEF AddDependency, Unsettled, TypeOK, SystemInv, LocalsFollowPc
  <2>2. UNCHANGED <<held, captures, exec, new, todo>>
    BY <1>13 DEF AddDependency, execVars
  <2>3. \A h \in Thread : h # th => Unsettled(h)' = Unsettled(h) /\ new[h] # new[th]
    <3>1. \A h \in Thread : h # th => new[h] # new[th]
      BY <1>1, <2>1 DEF NewUnshared, Creators
    <3> QED
      BY <1>1, <1>13, <3>1 DEF AddDependency, Unsettled, TypeOK
  <2>4. CASE state[a] = "Pending"
    <3>1. /\ Unsettled(th)' = Unsettled(th) \ {a}
          /\ \A p \in Object : dependents'[p] =
               IF p = a THEN dependents[p] \cup {new[th]} ELSE dependents[p]
      BY <1>1, <1>13, <2>1, <2>4 DEF AddDependency, Unsettled, TypeOK
    <3> SUFFICES ASSUME NEW h \in Thread, NEW p \in Unsettled(h)'
                 PROVE  /\ p \in held'[h] \/ (exec'[h] # None /\ p \in captures'[exec'[h]])
                        /\ new'[h] \notin dependents'[p]
      BY DEF CreatorHolds
    <3>2. p \in Unsettled(h) /\ (h = th => p # a)
      BY <2>3, <3>1
    <3>3. p \in Object
      BY <1>1, <3>2 DEF Unsettled, TypeOK
    <3>4. /\ p \in held[h] \/ (exec[h] # None /\ p \in captures[exec[h]])
          /\ new[h] \notin dependents[p]
      BY <1>1, <3>2 DEF CreatorHolds
    <3>5. new[h] \notin dependents'[p]
      BY <2>3, <3>1, <3>2, <3>3, <3>4
    <3> QED
      BY <2>2, <3>4, <3>5
  <2>5. CASE state[a] # "Pending"
    <3>1. UNCHANGED dependents /\ Unsettled(th)' = Unsettled(th)
      BY <1>1, <1>13, <2>1, <2>5 DEF AddDependency, Unsettled, TypeOK
    <3> QED
      BY <1>3, <2>2, <2>3, <3>1
  <2> QED
    BY <2>4, <2>5
<1>14. ASSUME NEW th \in Thread, SubtractInactive(th) \/ PushNew(th) \/ ExecuteNew(th)
       PROVE  CreatorHolds'
  <2>1. /\ UNCHANGED <<captures, dependents>>
        /\ Unsettled(th)' = {}
        /\ \A h \in Thread : h # th => held'[h] = held[h] /\ exec'[h] = exec[h] /\ new'[h] = new[h]
    <3>1. CASE SubtractInactive(th)
      <4>1. TookLast(th) \/ ReturnNew(th)
        BY <3>1 DEF SubtractInactive
      <4> QED
        BY <1>1, <3>1, <4>1 DEF SubtractInactive, ReturnNew, Unsettled, execVars, TypeOK
    <3>2. CASE PushNew(th)
      <4>1. Unsettled(th)' = Unsettled(th) /\ Unsettled(th) = {}
        BY <1>2, <3>2 DEF PushNew, Unsettled
      <4> QED
        BY <1>1, <3>2, <4>1 DEF PushNew, ReturnNew, execVars, TypeOK
    <3>3. CASE ExecuteNew(th)
      <4>1. Unsettled(th)' = Unsettled(th) /\ Unsettled(th) = {}
        BY <1>2, <3>3 DEF ExecuteNew, Unsettled
      <4> QED
        BY <1>1, <3>3, <4>1 DEF ExecuteNew, objVars, TypeOK
    <3> QED
      BY <1>14, <3>1, <3>2, <3>3
  <2>2. \A h \in Thread : h # th => Unsettled(h)' = Unsettled(h)
    BY <1>1, <1>14 DEF SubtractInactive, PushNew, ExecuteNew, Unsettled, TypeOK
  <2> QED
    BY <1>3, <2>1, <2>2
<1>15. ASSUME NEW th \in Thread,
              \/ EndExecute(th) \/ \E t \in Task : Pop(th, t) \/ ExecuteATask(th, t)
       PROVE  CreatorHolds'
  <2>1. /\ pc[th] # "prereq" /\ UNCHANGED <<new, todo, adding, inactive, captures, dependents>>
        /\ \A h \in Thread : h # th => held'[h] = held[h] /\ exec'[h] = exec[h]
    BY <1>1, <1>15 DEF EndExecute, Pop, ExecuteATask, Take, objVars, newVars, TypeOK
  <2> QED
    BY <1>4, <2>1
<1>16. ASSUME NEW th \in Thread,
              \/ ReturnNode(th) \/ FutureDoneReturns(th) \/ StartFunction(th)
              \/ \E t \in Task : OnUnblocked(th, t)
       PROVE  UNCHANGED <<held, captures, exec, new, todo, adding, inactive, dependents>>
  BY <1>16 DEF ReturnNode, FutureDoneReturns, StartFunction, OnUnblocked, objVars, execVars,
     newVars
<1>17. UNCHANGED vars =>
         UNCHANGED <<held, captures, exec, new, todo, adding, inactive, dependents>>
  BY DEF vars, objVars, execVars, newVars
<1>18. UNCHANGED <<held, captures, exec, new, todo, adding, inactive, dependents>>
         => CreatorHolds'
  BY <1>1 DEF CreatorHolds, Unsettled
<1> QED
  BY <1>5, <1>6, <1>8, <1>9, <1>11, <1>12, <1>13, <1>14, <1>15, <1>16, <1>17, <1>18
  DEF Next, UserStep, SystemStep, Thread

LEMMA FutureAnchoredStep == SystemInv /\ [Next]_vars => FutureAnchored'
<1> SUFFICES ASSUME SystemInv, [Next]_vars PROVE FutureAnchored'
  OBVIOUS
<1> USE DEF FutureAnchored, Holders, Capturers
<1>1. /\ FutureAnchored /\ TypeOK /\ Task \cap Future = {} /\ None \notin Object
      /\ Task \subseteq Object /\ Future \subseteq Object
  BY PoolAssumption DEF SystemInv, Object
<1>2. ASSUME \A f \in Future : state'[f] = "Pending" =>
               state[f] = "Pending" /\ dependents'[f] \subseteq dependents[f],
             \A h \in Thread : held[h] \subseteq held'[h],
             \A t \in Task : state[t] = "Pending" =>
               state'[t] = "Pending" /\ captures[t] \subseteq captures'[t]
      PROVE  FutureAnchored'
  BY <1>1, <1>2
<1>3. ASSUME NEW th \in Thread, NEW t \in Task, NEW P \in SUBSET Usable(th),
             NEW C \in SUBSET Usable(th), NEW f, CreateTask(th, t, P, C, f)
      PROVE  FutureAnchored'
  <2>1. /\ UNCHANGED <<held, dependents>> /\ state[t] = "Pooled"
        /\ \A o \in Object : o # t => state'[o] = state[o]
        /\ \A x \in Task : x # t => captures'[x] = captures[x]
    BY <1>1, <1>3 DEF CreateTask, TypeOK
  <2> QED
    BY <1>1, <1>2, <2>1
<1>4. ASSUME NEW th \in Thread, NEW f \in Future, MakeFuture(th, f)
      PROVE  FutureAnchored'
  <2>1. /\ UNCHANGED <<captures, dependents>> /\ dependents[f] = {}
        /\ \A o \in Object : o # f => state'[o] = state[o]
        /\ \A h \in Thread : held[h] \subseteq held'[h]
    BY <1>1, <1>4 DEF MakeFuture, SystemInv, PooledClean, TypeOK
  <2> QED
    BY <1>1, <2>1
<1>5. ASSUME NEW th \in Thread, NEW f \in Future, FutureDone(th, f)
      PROVE  FutureAnchored'
  <2>1. /\ UNCHANGED <<captures, held>> /\ state'[f] = "Done"
        /\ \A o \in Object : o # f => state'[o] = state[o] /\ dependents'[o] = dependents[o]
    BY <1>1, <1>5 DEF FutureDone, ConsumeAll, execVars, TypeOK
  <2> QED
    BY <1>1, <1>2, <2>1
<1>6. ASSUME NEW th \in Thread, NEW o \in Object, DropHandle(th, o) \/ DropCapture(th, o)
      PROVE  FutureAnchored'
  <2>1. \A t \in Task : state[t] = "Pending" => state'[t] = "Pending"
    BY <1>1, <1>6, HandlesReleased
  <2>2. /\ UNCHANGED dependents
        /\ \A x \in Object : state'[x] = "Pending" => state[x] = "Pending"
        /\ MayDrop(o)
    BY <1>1, <1>6 DEF DropHandle, DropCapture, Release
  <2>3. \A h \in Thread, f \in Future : f # o => (f \in held[h] => f \in held'[h])
    <3>1. CASE DropHandle(th, o)
      BY <1>1, <3>1 DEF DropHandle, TypeOK
    <3>2. CASE DropCapture(th, o)
      BY <3>2 DEF DropCapture
    <3> QED
      BY <1>6, <3>1, <3>2
  <2>4. \A t \in Task, f \in Future : f # o => (f \in captures[t] => f \in captures'[t])
    <3>1. CASE DropHandle(th, o)
      BY <3>1 DEF DropHandle
    <3>2. CASE DropCapture(th, o)
      BY <1>1, <3>2 DEF DropCapture, TypeOK
    <3> QED
      BY <1>6, <3>1, <3>2
  <2> SUFFICES ASSUME NEW f \in Future, state'[f] = "Pending", dependents'[f] # {}
               PROVE  \/ \E h \in Thread : f \in held'[h]
                      \/ \E t \in Task : f \in captures'[t] /\ state'[t] = "Pending"
    OBVIOUS
  <2>5. f # o /\ state[f] = "Pending" /\ dependents[f] # {}
    BY <1>1, <2>2 DEF MayDrop
  <2> QED
    BY <1>1, <2>1, <2>3, <2>4, <2>5
<1>7. ASSUME NEW th \in Thread, AddDependency(th)
      PROVE  FutureAnchored'
  <2> DEFINE a == adding[th]
  <2>1. UNCHANGED <<state, held, captures>>
    BY <1>7 DEF AddDependency
  <2>2. \A f \in Future : f # a => dependents'[f] = dependents[f]
    BY <1>1, <1>7 DEF AddDependency, TypeOK
  <2>3. a \in held[th] \/ (exec[th] # None /\ a \in captures[exec[th]])
    BY <1>7 DEF AddDependency, SystemInv, CreatorHolds, Unsettled
  <2>4. exec[th] # None => exec[th] \in Task /\ state[exec[th]] = "Pending"
    <3>1. pc[th] = "prereq" /\ ExecutionStages
      BY <1>7 DEF AddDependency, SystemInv
    <3>2. exec[th] # None => state[exec[th]] = "Pending"
      BY <3>1 DEF ExecutionStages
    <3> QED
      BY <1>1, <3>2 DEF TypeOK, TaskOrNone
  <2> QED
    BY <1>1, <2>1, <2>2, <2>3, <2>4
<1>8. ASSUME NEW th \in Thread, EndFunction(th)
      PROVE  FutureAnchored'
  <2>1. exec[th] \in Task
    BY <1>1, <1>8 DEF EndFunction, SystemInv, ExecFollowsPc, InExecute, TypeOK, TaskOrNone
  <2>2. /\ UNCHANGED <<held, captures>>
        /\ \A o \in Object : o # exec[th] => state'[o] = state[o] /\ dependents'[o] = dependents[o]
        /\ \A f \in captures[exec[th]] : MayDrop(f)
    BY <1>1, <1>8, <2>1 DEF EndFunction, ConsumeAll, TypeOK
  <2> SUFFICES ASSUME NEW f \in Future, state'[f] = "Pending", dependents'[f] # {}
               PROVE  \/ \E h \in Thread : f \in held'[h]
                      \/ \E t \in Task : f \in captures'[t] /\ state'[t] = "Pending"
    OBVIOUS
  <2>3. state[f] = "Pending" /\ dependents[f] # {}
    BY <1>1, <2>1, <2>2
  <2>4. f \notin captures[exec[th]]
    BY <2>2, <2>3 DEF MayDrop
  <2> QED
    BY <1>1, <2>2, <2>3, <2>4
<1>9. ASSUME NEW th \in Thread, ClearFunction(th)
      PROVE  FutureAnchored'
  <2>1. exec[th] \in Task /\ state[exec[th]] = "Done"
    BY <1>1, <1>9
    DEF ClearFunction, SystemInv, ExecFollowsPc, ExecutionStages, InExecute, TypeOK, TaskOrNone
  <2>2. /\ UNCHANGED <<held, dependents>>
        /\ \A t \in Task : t # exec[th] => captures'[t] = captures[t]
        /\ \A x \in Object : state'[x] = "Pending" => state[x] = "Pending"
    BY <1>1, <1>9 DEF ClearFunction, Release, TypeOK
  <2>3. \A t \in Task : state[t] = "Pending" => state'[t] = "Pending"
    BY <1>1, <1>9, HandlesReleased
  <2> QED
    BY <1>1, <1>2, <2>1, <2>2, <2>3
<1>10. ASSUME NEW th \in Thread, EndExecute(th)
       PROVE  FutureAnchored'
  <2>1. exec[th] \in Task /\ state[exec[th]] = "Done"
    BY <1>1, <1>10
    DEF EndExecute, SystemInv, ExecFollowsPc, ExecutionStages, InExecute, TypeOK, TaskOrNone
  <2>2. /\ UNCHANGED <<captures, dependents>>
        /\ \A o \in Object : o # exec[th] => state'[o] = state[o]
    BY <1>1, <1>10 DEF EndExecute, Release
  <2>3. \A h \in Thread : held[h] \subseteq held'[h]
    <3>1. held \in [Thread -> SUBSET Object]
      BY <1>1 DEF TypeOK
    <3>2. UNCHANGED held \/ held' = [held EXCEPT ![th] = @ \cup {exec[th]}]
      BY <1>10 DEF EndExecute
    <3> QED
      BY <3>1, <3>2
  <2> QED
    BY <1>1, <1>2, <2>1, <2>2, <2>3
<1>11. ASSUME NEW th \in Thread,
              \/ \E p \in Object : CheckPrereq(th, p)
              \/ ReturnNode(th) \/ SubtractInactive(th) \/ PushNew(th) \/ ExecuteNew(th)
              \/ FutureDoneReturns(th) \/ StartFunction(th)
              \/ \E t \in Task : OnUnblocked(th, t) \/ Pop(th, t) \/ ExecuteATask(th, t)
       PROVE  FutureAnchored'
  <2>1. UNCHANGED <<state, dependents, captures>>
    BY <1>11, NodeNotLast
    DEF CheckPrereq, ReturnNode, SubtractInactive, PushNew, ExecuteNew, FutureDoneReturns,
        StartFunction, OnUnblocked, Pop, ExecuteATask, Take, objVars
  <2>2. UNCHANGED held \/ ReturnNew(th)
    BY <1>11
    DEF CheckPrereq, ReturnNode, SubtractInactive, PushNew, ExecuteNew, FutureDoneReturns,
        StartFunction, OnUnblocked, Pop, ExecuteATask, Take
  <2>3. \A h \in Thread : held[h] \subseteq held'[h]
    <3>1. held \in [Thread -> SUBSET Object]
      BY <1>1 DEF TypeOK
    <3> QED
      BY <2>2, <3>1 DEF ReturnNew
  <2> QED
    BY <1>1, <1>2, <2>1, <2>3
<1>12. CASE UNCHANGED vars
  BY <1>1, <1>12 DEF vars, objVars
<1> QED
  BY <1>3, <1>4, <1>5, <1>6, <1>7, <1>8, <1>9, <1>10, <1>11, <1>12
  DEF Next, UserStep, SystemStep, Thread
-----------------------------------------------------------------------------
(* The invariant and what follows from it. *)

LEMMA InitInv == Init => SystemInv
<1> SUFFICES ASSUME Init PROVE SystemInv
  OBVIOUS
<1> USE DEF Init, Thread
<1>1. None \notin Object /\ Task \subseteq Object
  BY PoolAssumption DEF Object
<1>2. TypeOK
  BY <1>1 DEF TypeOK, PCs, TaskOrNone
<1>3. ASSUME NEW o \in Object
      PROVE  /\ Holders(o) = {} /\ Capturers(o) = {} /\ Gates(o) = {} /\ Lists(o) = {}
             /\ Nodes(o) = {} /\ Creators(o) = {} /\ Nexts(o) = {} /\ Executors(o) = {}
             /\ In(o, ready) = 0 /\ In(o, readyNamed) = 0 /\ UnsettledOf(o) = {}
  BY <1>1
  DEF Holders, Capturers, Gates, Lists, Nodes, Creators, Nexts, Executors, In, UnsettledOf
<1>4. \A o \in Object : RefsTo(o) = 0 /\ Owed(o) = 0
  <2> SUFFICES ASSUME NEW o \in Object PROVE RefsTo(o) = 0 /\ Owed(o) = 0
    OBVIOUS
  <2>1. Cardinality({}) = 0
    BY FS_EmptySet
  <2>2. Owed(o) = 0
    BY <1>3, OwedNat
  <2>3. /\ Cardinality(Holders(o)) = 0 /\ Cardinality(Capturers(o)) = 0
        /\ Cardinality(Gates(o)) = 0 /\ Cardinality(Lists(o)) = 0
        /\ Cardinality(Nodes(o)) = 0 /\ Cardinality(Creators(o)) = 0
        /\ Cardinality(Nexts(o)) = 0 /\ Cardinality(Executors(o)) = 0
    BY <1>3, <2>1
  <2> QED
    BY <1>3, <2>2, <2>3 DEF RefsTo
<1>5. RefsExact /\ CounterExact
  BY <1>1, <1>4 DEF RefsExact, CounterExact
<1>6. PooledClean /\ OnePlace
  BY <1>1 DEF PooledClean, OnePlace
<1>7. \A th \in Thread : Unsettled(th) = {}
  BY DEF Unsettled
<1>8. LocalsFollowPc /\ ExecFollowsPc /\ ExecutionStages /\ CreatorHolds
  BY <1>1, <1>7
  DEF LocalsFollowPc, ExecFollowsPc, ExecutionStages, CreatorHolds, InCall, InExecute
<1>9. NewUnshared /\ FutureAnchored
  BY DEF NewUnshared, FutureAnchored, Object
<1> QED
  BY <1>2, <1>5, <1>6, <1>8, <1>9 DEF SystemInv

\* Every reachable state satisfies the inductive invariant.
THEOREM Invariance == Spec => []SystemInv
<1>1. Init => SystemInv
  BY InitInv
<1>2. SystemInv /\ [Next]_vars => SystemInv'
  BY CountsStep, TypeStep, LocalsStep, NewUnsharedStep, ExecutionStagesStep, PooledCleanStep,
     CreatorHoldsStep, FutureAnchoredStep
  DEF SystemInv, Counts
<1> QED
  BY <1>1, <1>2, PTL DEF Spec

\* The types are as declared: no counter of references and no counter of
\* prerequisites (both unsigned in the code) ever goes below zero.
THEOREM TypesCorrect == Spec => []TypeOK
<1>1. SystemInv => TypeOK
  BY DEF SystemInv
<1> QED
  BY <1>1, Invariance, PTL

\* prerequires_ counts, at every step of every thread, exactly the decrements
\* that are still to come (Gate.h, HandlePrerequires and OnUnblocked of Task.cpp).
THEOREM CountersExact == Spec => []CounterExact
<1>1. SystemInv => CounterExact
  BY DEF SystemInv
<1> QED
  BY <1>1, Invariance, PTL

\* RefCount is, at every step, the number of references that exist: nothing is
\* released twice and nothing leaks (RefCount.h, Task.cpp, Future.h).
THEOREM ReferencesExact == Spec => []RefsExact
<1>1. SystemInv => RefsExact
  BY DEF SystemInv
<1> QED
  BY <1>1, Invariance, PTL

\* The asserts of OnRefCountZero, OnReturnToPool and CreateTask hold: what is in
\* a pool is not referred to, has no dependents, no function and no captures.
THEOREM PoolsAreClean == Spec => []PooledClean
<1>1. SystemInv => PooledClean
  BY DEF SystemInv
<1> QED
  BY <1>1, Invariance, PTL

\* Execute begins only when the gates of all prerequisites are done, and its
\* asserts hold (Task.cpp, BaseTask::Execute).
THEOREM StartsWhenReady == Spec => []StartsReady
<1>1. SystemInv => StartsReady
  <2> SUFFICES ASSUME SystemInv, NEW th \in Thread, pc[th] = "start", NEW t, t = exec[th]
               PROVE  /\ NeedsOf(t) = {}
                      /\ state[t] = "Pending" /\ prerequires[t] = 0 /\ function[t]
                      /\ refs[t] > 0 /\ current_task[th] = None
    BY DEF StartsReady
  <2>1. exec[th] # None /\ current_task[th] = None
    BY DEF SystemInv, ExecFollowsPc, InExecute, InCall
  <2>2. t \in Task /\ t \in Object /\ Executors(t) # {}
    BY <2>1, ExecutorAlone
  <2>3. Owed(t) = 0 /\ state[t] # "Pooled"
    BY <2>2, PlaceUnique
  <2>4. state[t] = "Pending" /\ function[t]
    BY <2>1, <2>2 DEF SystemInv, ExecutionStages
  <2>5. prerequires[t] = 0 /\ refs[t] > 0
    BY <2>2, <2>3 DEF SystemInv, CounterExact, PooledClean, TypeOK
  <2>6. NeedsOf(t) = {}
    <3>1. Gates(t) = {} /\ UnsettledOf(t) = {}
      BY <2>3, OwedNat
    <3> QED
      BY <3>1 DEF NeedsOf, Gates, UnsettledOf, Creators
  <2> QED
    BY <2>1, <2>4, <2>5, <2>6
<1> QED
  BY <1>1, Invariance, PTL

\* A task whose function has not started waits for a decrement or is in exactly
\* one place it will be run from: none is lost, none is run twice.
THEOREM ScheduledExactlyOnce == Spec => []ScheduledOnce
<1>1. SystemInv => ScheduledOnce
  <2> SUFFICES ASSUME SystemInv, NEW t \in Task
               PROVE  IF state[t] = "Pending" /\ ~Running(t)
                      THEN Scheduled(t) = IF Owed(t) = 0 THEN 1 ELSE 0
                      ELSE Scheduled(t) = 0
    BY DEF ScheduledOnce
  <2> DEFINE Starting == {th \in Executors(t) : pc[th] = "start"}
  <2>1. t \in Object /\ None # t
    BY PoolAssumption DEF Object
  <2>2. ASSUME Nexts(t) = {}, Pushers(t) = {}, t \notin ready, t \notin readyNamed,
               Starting = {}
        PROVE  Scheduled(t) = 0
    BY <2>2, SingleCount DEF Scheduled, In
  <2>3. CASE state[t] = "Pooled"
    BY <2>1, <2>2, <2>3, PooledUnreferenced DEF Pushers, Running, SystemInv, ExecFollowsPc
  <2>4. CASE state[t] = "Done"
    <3>1. \A th \in Executors(t) : pc[th] \in {"unblock", "release"}
      BY <2>1, <2>4 DEF Executors, SystemInv, ExecutionStages
    <3>2. /\ Nexts(t) = {} /\ Pushers(t) = {} /\ t \notin ready /\ t \notin readyNamed
      BY <2>4, ScheduledPending
    <3> QED
      BY <2>2, <2>4, <3>1, <3>2
  <2>5. CASE state[t] = "Pending" /\ Running(t)
    <3>1. PICK th \in Thread : current_task[th] = t
      BY <2>5 DEF Running
    <3>2. exec[th] = t /\ pc[th] # "start"
      BY <2>1, <3>1 DEF SystemInv, ExecFollowsPc, InCall
    <3>3. Executors(t) = {th}
      BY <2>1, <3>2, ExecutorAlone
    <3>4. Nexts(t) = {} /\ Pushers(t) = {} /\ t \notin ready /\ t \notin readyNamed
      BY <3>3, ScheduledPending
    <3> QED
      BY <2>2, <2>5, <3>2, <3>3, <3>4
  <2>6. CASE state[t] = "Pending" /\ ~Running(t)
    <3>1. Starting = Executors(t)
      BY <2>1, <2>6
      DEF Executors, Running, SystemInv, ExecFollowsPc, ExecutionStages, InCall, TypeOK, PCs
    <3>2. Scheduled(t) = Places(t)
      BY <3>1 DEF Scheduled, Places
    <3> QED
      BY <2>6, <3>2 DEF SystemInv, OnePlace
  <2>7. state[t] \in {"Pooled", "Pending", "Done"}
    BY <2>1 DEF SystemInv, TypeOK
  <2> QED
    BY <2>3, <2>4, <2>5, <2>6, <2>7
<1> QED
  BY <1>1, Invariance, PTL
=============================================================================
