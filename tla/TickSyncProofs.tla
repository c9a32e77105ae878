--------------------------- MODULE TickSyncProofs ---------------------------
(***************************************************************************)
(* Proofs about TickSync, for any number of tickers and frames.  They are  *)
(* about barriers with a permanent ticker: without one, the ticker that    *)
(* completes a frame may be overtaken, which TickSyncLeave shows.          *)
(***************************************************************************)
EXTENDS TickSync, FiniteSetTheorems, TLAPS

\* k has completed a frame in the word, and its future is not done yet.
Completer(k) == completes[k] /\ pc[k] \in {"load", "addref", "reset", "report", "complete"}

InCall(k) == pc[k] \notin {"out", "in"}

\* What the locals of a ticker are, by the call it is in and how far it is.
LocalsOf(k) ==
  /\ pc[k] = "out" => last[k] = Null
  /\ pc[k] = "in" => holds[k] = last[k]
  /\ pc[k] \in {"reset", "report", "complete"} => completes[k]
  /\ InCall(k) /\ op[k] = "register" =>
       last[k] = Null /\ ~completes[k] /\ seen[k] = word.frame
  /\ InCall(k) /\ op[k] = "wait" =>
       /\ pc[k] = "addref" => copied[k] = seen[k]
       /\ pc[k] \in {"reset", "report", "complete", "return"} => holds[k] = seen[k]
  /\ k \in Permanent => pc[k] # "out" /\ op[k] # "unregister"

LocalsFollowPc == \A k \in Ticker : LocalsOf(k)

\* Only the last completed frame can be unfinished, and one ticker finishes it.
OneCompleter ==
  /\ \A k \in Ticker : Completer(k) => word.frame > 0 /\ seen[k] = word.frame - 1
  /\ \A k, l \in Ticker : Completer(k) /\ Completer(l) => k = l

\* The futures and reports of the frames before that one are done.
FramesDone ==
  /\ done = IF \E k \in Ticker : Completer(k) THEN 0..(word.frame - 2) ELSE 0..(word.frame - 1)
  /\ reported = IF \E k \in Ticker : Completer(k) /\ pc[k] # "complete"
                THEN word.frame - 1 ELSE word.frame

\* A permanent ticker has waited for that frame and awaits its future, which keeps
\* the next frame from being completed.
PermanentBehind ==
  word.frame > 0 /\ word.frame - 1 \notin done =>
    \A p \in Permanent : WaitedFor(p) = word.frame - 1

\* The ring has the futures that may be read: of the current frame, the two before,
\* and the next one as soon as its maker got there.
RingFilled ==
  /\ \A x \in Nat : x <= word.frame /\ word.frame <= x + 2 => futures[Slot(x)] = x
  /\ \/ futures[Slot(word.frame + 1)] = word.frame + 1
     \/ \E k \in Ticker : Completer(k) /\ pc[k] \in {"load", "addref", "reset"}

BarrierInv ==
  /\ TypeOK /\ CountsExact /\ Lockstep /\ LocalsFollowPc
  /\ OneCompleter /\ FramesDone /\ PermanentBehind /\ RingFilled
  /\ failed \in {"none", "copy"}
-----------------------------------------------------------------------------
(* The ring and the counts. *)

LEMMA SlotFacts ==
  /\ \A x \in Nat : Slot(x) \in 0..(kNumberOfFutures - 1)
  /\ \A x, y \in Nat : x < y /\ y < x + kNumberOfFutures => Slot(x) # Slot(y)
<1> QED
  BY DEF Slot, kNumberOfFutures

RegisteredSet == {k \in Ticker : Registered(k)}
WaitingAt(frame) == {k \in Ticker : Registered(k) /\ WaitedFor(k) = frame}

LEMMA CountsAreOfSets ==
  CountsExact <=> /\ word.registered = Cardinality(RegisteredSet)
                  /\ word.waiting = Cardinality(WaitingAt(word.frame))
<1>1. WaitingAt(word.frame) = {k \in Ticker : Waiting(k)}
  BY DEF WaitingAt, Waiting
<1> QED
  BY <1>1 DEF CountsExact, RegisteredSet

\* What an InnerUpdate makes of the counts, when they are those after its step:
\* equal counts mean that all who are registered have waited.
LEMMA UpdatedCounts ==
  ASSUME TypeOK, NEW k \in Ticker, NEW call, NEW r \in Nat, NEW w \in Nat,
         InnerUpdate(k, call, r, w),
         r = Cardinality(RegisteredSet'),
         w = Cardinality({j \in Ticker : Registered(j)' /\ WaitedFor(j)' = word.frame}),
         \A j \in Ticker : Registered(j)' =>
           WaitedFor(j)' \in Int /\ WaitedFor(j)' <= word.frame
  PROVE  /\ CountsExact'
         /\ r = w => \A j \in Ticker : Registered(j)' => WaitedFor(j)' = word.frame
<1> DEFINE W == {j \in Ticker : Registered(j)' /\ WaitedFor(j)' = word.frame}
<1>1. word' = [registered |-> r, waiting |-> IF r = w THEN 0 ELSE w,
               frame |-> IF r = w THEN word.frame + 1 ELSE word.frame]
  BY DEF InnerUpdate
<1>2. word.frame \in Nat
  BY DEF TypeOK, Frames
<1>3. W \subseteq RegisteredSet' /\ IsFiniteSet(RegisteredSet')
  BY TickAssumption, FS_Subset DEF RegisteredSet
<1>4. r = w => W = RegisteredSet'
  BY <1>3, FS_Subset
<1>5. r = w => \A j \in Ticker : Registered(j)' => WaitedFor(j)' = word.frame
  BY <1>4 DEF RegisteredSet
<1>0. (CountsExact <=> /\ word.registered = Cardinality(RegisteredSet)
                       /\ word.waiting = Cardinality(WaitingAt(word.frame)))'
  BY CountsAreOfSets, PTL
<1>6. CASE r = w
  <2>1. WaitingAt(word.frame)' = {}
    BY <1>1, <1>2, <1>6 DEF WaitingAt
  <2> QED
    BY <2>1, <1>0, <1>1, <1>5, <1>6, FS_EmptySet
<1>7. CASE r # w
  <2>1. WaitingAt(word.frame)' = W
    BY <1>1, <1>7 DEF WaitingAt
  <2> QED
    BY <2>1, <1>0, <1>1, <1>7
<1> QED
  BY <1>6, <1>7

\* The word after one of the calls has the counts of who is registered and of who
\* has waited for the frame the call found.
LEMMA WaitedForType ==
  TypeOK => \A k \in Ticker : WaitedFor(k) \in Int
<1> QED
  BY DEF TypeOK, WaitedFor, Frames, Null

LEMMA WaitedBefore ==
  ASSUME BarrierInv, NEW k \in Ticker, NEW call \in {"register", "wait", "unregister"},
         NEW r \in Nat, NEW w \in Nat, ~InCall(k), InnerUpdate(k, call, r, w)
  PROVE  /\ \A j \in Ticker : j # k =>
              (Registered(j)' <=> Registered(j)) /\ WaitedFor(j)' = WaitedFor(j)
         /\ Registered(k)' <=> call # "unregister"
         /\ WaitedFor(k)' = IF call = "wait" THEN word.frame ELSE last[k]
         /\ Registered(k) <=> pc[k] = "in"
         /\ WaitedFor(k) = last[k]
<1> USE DEF BarrierInv, TypeOK
<1>1. pc' = [pc EXCEPT ![k] = "load"] /\ op' = [op EXCEPT ![k] = call]
      /\ seen' = [seen EXCEPT ![k] = word.frame] /\ last' = last
  BY DEF InnerUpdate, Goto
<1>2. \A j \in Ticker : j # k => pc'[j] = pc[j] /\ op'[j] = op[j] /\ seen'[j] = seen[j]
  BY <1>1
<1>3. pc'[k] = "load" /\ op'[k] = call /\ seen'[k] = word.frame
  BY <1>1
<1>4. \A j \in Ticker : j # k =>
        (Registered(j)' <=> Registered(j)) /\ WaitedFor(j)' = WaitedFor(j)
  BY <1>1, <1>2 DEF Registered, WaitedFor
<1>5. /\ Registered(k)' <=> call # "unregister"
      /\ WaitedFor(k)' = IF call = "wait" THEN word.frame ELSE last[k]
  BY <1>1, <1>3 DEF Registered, WaitedFor
<1>6. (Registered(k) <=> pc[k] = "in") /\ WaitedFor(k) = last[k]
  BY DEF Registered, WaitedFor, InCall
<1> QED
  BY <1>4, <1>5, <1>6

\* Who takes part has not waited for a frame to come.
LEMMA NotAhead ==
  ASSUME BarrierInv, NEW k \in Ticker, Registered(k)
  PROVE  WaitedFor(k) \in Int /\ WaitedFor(k) <= word.frame
<1>1. WaitedFor(k) \in Int /\ word.frame \in Nat
  BY WaitedForType DEF BarrierInv, TypeOK, Frames
<1>2. WaitedFor(k) # Null => word.frame - WaitedFor(k) \in {0, 1}
  BY DEF BarrierInv, Lockstep
<1> QED
  BY <1>1, <1>2 DEF Null

LEMMA RegisterCounts ==
  ASSUME BarrierInv, NEW k \in Ticker, RegisterNeededTick(k)
  PROVE  /\ word.registered + 1 = Cardinality(RegisteredSet')
         /\ word.waiting = Cardinality({j \in Ticker : Registered(j)' /\ WaitedFor(j)' = word.frame})
         /\ word.registered + 1 # word.waiting
<1> DEFINE W == {j \in Ticker : Registered(j)' /\ WaitedFor(j)' = word.frame}
<1>1. word.registered \in Nat /\ word.waiting \in Nat /\ word.frame \in Nat
  BY DEF BarrierInv, TypeOK, Frames
<1>2. InnerUpdate(k, "register", word.registered + 1, word.waiting) /\ pc[k] = "out"
  BY DEF RegisterNeededTick
<1>3. last[k] = Null /\ ~InCall(k)
  BY <1>2 DEF BarrierInv, LocalsFollowPc, LocalsOf, InCall
<1>4. /\ \A j \in Ticker : j # k =>
            (Registered(j)' <=> Registered(j)) /\ WaitedFor(j)' = WaitedFor(j)
      /\ Registered(k)' /\ WaitedFor(k)' = Null /\ ~Registered(k)
  BY <1>1, <1>2, <1>3, WaitedBefore
<1>5. RegisteredSet' = RegisteredSet \cup {k} /\ k \notin RegisteredSet
  BY <1>4 DEF RegisteredSet
<1>6. W = WaitingAt(word.frame)
  BY <1>1, <1>4 DEF WaitingAt, Null
<1>7. IsFiniteSet(RegisteredSet) /\ WaitingAt(word.frame) \subseteq RegisteredSet
  BY TickAssumption, FS_Subset DEF RegisteredSet, WaitingAt
<1>8. word.registered = Cardinality(RegisteredSet) /\ word.waiting = Cardinality(WaitingAt(word.frame))
  BY CountsAreOfSets DEF BarrierInv
<1>9. word.waiting <= word.registered
  BY <1>7, <1>8, FS_Subset
<1>10. Cardinality(RegisteredSet') = word.registered + 1
  BY <1>5, <1>7, <1>8, FS_AddElement
<1> HIDE DEF W
<1>11. Cardinality(W) = word.waiting /\ word.registered + 1 # word.waiting
  BY <1>1, <1>6, <1>8, <1>9
<1> QED
  BY <1>10, <1>11 DEF W

LEMMA WaitCounts ==
  ASSUME BarrierInv, NEW k \in Ticker, WaitForNextFrame(k)
  PROVE  /\ last[k] # word.frame
         /\ word.registered = Cardinality(RegisteredSet')
         /\ word.waiting + 1 = Cardinality({j \in Ticker : Registered(j)' /\ WaitedFor(j)' = word.frame})
<1> DEFINE W == {j \in Ticker : Registered(j)' /\ WaitedFor(j)' = word.frame}
<1>1. word.registered \in Nat /\ word.waiting \in Nat /\ word.frame \in Nat
  BY DEF BarrierInv, TypeOK, Frames
<1>2. InnerUpdate(k, "wait", word.registered, word.waiting + 1) /\ pc[k] = "in" /\ Resumed(k)
  BY DEF WaitForNextFrame
<1>3. last[k] # word.frame /\ ~InCall(k)
  BY <1>1, <1>2 DEF BarrierInv, LocalsFollowPc, LocalsOf, InCall, Resumed, Lockstep, Null
<1>4. /\ \A j \in Ticker : j # k =>
            (Registered(j)' <=> Registered(j)) /\ WaitedFor(j)' = WaitedFor(j)
      /\ Registered(k)' /\ WaitedFor(k)' = word.frame /\ Registered(k) /\ WaitedFor(k) = last[k]
  BY <1>1, <1>2, <1>3, WaitedBefore
<1>5. RegisteredSet' = RegisteredSet
  BY <1>4 DEF RegisteredSet
<1>6. W = WaitingAt(word.frame) \cup {k} /\ k \notin WaitingAt(word.frame)
  BY <1>1, <1>3, <1>4 DEF WaitingAt
<1>7. IsFiniteSet(WaitingAt(word.frame))
  BY TickAssumption, FS_Subset DEF WaitingAt
<1>8. word.registered = Cardinality(RegisteredSet) /\ word.waiting = Cardinality(WaitingAt(word.frame))
  BY CountsAreOfSets DEF BarrierInv
<1> QED
  BY <1>1, <1>3, <1>5, <1>6, <1>7, <1>8, FS_AddElement

LEMMA UnregisterCounts ==
  ASSUME BarrierInv, NEW k \in Ticker, UnregisterNeeded(k)
  PROVE  LET w == IF word.frame = last[k] THEN word.waiting - 1 ELSE word.waiting IN
         /\ word.registered - 1 \in Nat /\ w \in Nat
         /\ word.registered - 1 = Cardinality(RegisteredSet')
         /\ w = Cardinality({j \in Ticker : Registered(j)' /\ WaitedFor(j)' = word.frame})
<1> DEFINE w == IF word.frame = last[k] THEN word.waiting - 1 ELSE word.waiting
           W == {j \in Ticker : Registered(j)' /\ WaitedFor(j)' = word.frame}
<1>1. word.registered \in Nat /\ word.waiting \in Nat /\ word.frame \in Nat
  BY DEF BarrierInv, TypeOK, Frames
<1>2. InnerUpdate(k, "unregister", word.registered - 1, w) /\ pc[k] = "in"
  BY DEF UnregisterNeeded
<1>3. ~InCall(k) /\ Registered(k) /\ WaitedFor(k) = last[k]
  BY <1>2 DEF InCall, Registered, WaitedFor
<1>4. k \in RegisteredSet /\ (k \in WaitingAt(word.frame) <=> word.frame = last[k])
  BY <1>3 DEF RegisteredSet, WaitingAt
<1>5. IsFiniteSet(RegisteredSet) /\ IsFiniteSet(WaitingAt(word.frame))
  BY TickAssumption, FS_Subset DEF RegisteredSet, WaitingAt
<1>6. word.registered = Cardinality(RegisteredSet) /\ word.waiting = Cardinality(WaitingAt(word.frame))
  BY CountsAreOfSets DEF BarrierInv
<1>7. word.registered - 1 \in Nat /\ w \in Nat
  BY <1>1, <1>4, <1>5, <1>6, FS_EmptySet
<1>8. /\ \A j \in Ticker : j # k =>
            (Registered(j)' <=> Registered(j)) /\ WaitedFor(j)' = WaitedFor(j)
      /\ ~Registered(k)'
  BY <1>2, <1>3, <1>7, WaitedBefore
<1>9. RegisteredSet' = RegisteredSet \ {k}
  BY <1>8 DEF RegisteredSet
<1>10. W = WaitingAt(word.frame) \ {k}
  BY <1>8 DEF WaitingAt
<1>11. word.registered - 1 = Cardinality(RegisteredSet')
  BY <1>4, <1>5, <1>6, <1>9, FS_RemoveElement
<1> HIDE DEF W
<1>12. w = Cardinality(W)
  BY <1>4, <1>5, <1>6, <1>10, FS_RemoveElement
<1> QED
  BY <1>7, <1>11, <1>12 DEF W
-----------------------------------------------------------------------------
(* The calls: a compare-and-swap on the word. *)

LEMMA UpdateStep ==
  ASSUME BarrierInv, Permanent # {}, failed = "none", NEW k \in Ticker,
         NEW call \in {"register", "wait", "unregister"}, NEW r \in Nat, NEW w \in Nat,
         InnerUpdate(k, call, r, w),
         r = Cardinality(RegisteredSet'),
         w = Cardinality({j \in Ticker : Registered(j)' /\ WaitedFor(j)' = word.frame}),
         call = "register" => pc[k] = "out" /\ r # w,
         call = "wait" => pc[k] = "in" /\ last[k] # word.frame /\ Resumed(k),
         call = "unregister" => pc[k] = "in" /\ k \notin Permanent
  PROVE  BarrierInv'
<1>0. TypeOK /\ word.frame \in Nat /\ word.frame < MaxFrame /\ MaxFrame \in Nat
  BY TickAssumption DEF BarrierInv, TypeOK, Frames, InnerUpdate
<1>1. /\ word' = [registered |-> r, waiting |-> IF r = w THEN 0 ELSE w,
                  frame |-> IF r = w THEN word.frame + 1 ELSE word.frame]
      /\ pc' = [pc EXCEPT ![k] = "load"] /\ op' = [op EXCEPT ![k] = call]
      /\ seen' = [seen EXCEPT ![k] = word.frame]
      /\ completes' = [completes EXCEPT ![k] = r = w]
      /\ holds' = [holds EXCEPT ![k] = Null]
      /\ UNCHANGED <<futures, done, reported, last, copied, failed>>
  BY DEF InnerUpdate, Goto, ringVars
<1>2. ~InCall(k)
  BY DEF InCall
<1>3. /\ \A j \in Ticker : j # k =>
            (Registered(j)' <=> Registered(j)) /\ WaitedFor(j)' = WaitedFor(j)
      /\ Registered(k)' <=> call # "unregister"
      /\ WaitedFor(k)' = IF call = "wait" THEN word.frame ELSE last[k]
      /\ Registered(k) <=> pc[k] = "in"
      /\ WaitedFor(k) = last[k]
  BY <1>2, WaitedBefore
<1>4. \A j \in Ticker : j # k =>
        /\ pc'[j] = pc[j] /\ op'[j] = op[j] /\ seen'[j] = seen[j]
        /\ completes'[j] = completes[j] /\ holds'[j] = holds[j]
  BY <1>0, <1>1 DEF TypeOK
<1>5. /\ pc'[k] = "load" /\ op'[k] = call /\ seen'[k] = word.frame
      /\ completes'[k] = (r = w) /\ holds'[k] = Null
  BY <1>0, <1>1 DEF TypeOK
<1>6. call = "register" => last[k] = Null
  BY DEF BarrierInv, LocalsFollowPc, LocalsOf
<1>7. \A j \in Ticker : Registered(j)' => WaitedFor(j)' \in Int /\ WaitedFor(j)' <= word.frame
  BY <1>0, <1>3, <1>6, NotAhead DEF Null
<1>8. /\ CountsExact'
      /\ r = w => \A j \in Ticker : Registered(j)' => WaitedFor(j)' = word.frame
  BY <1>0, <1>7, UpdatedCounts
<1>9. \A p \in Permanent : p \in Ticker /\ Registered(p) /\ Registered(p)'
  BY <1>3, TickAssumption DEF BarrierInv, LocalsFollowPc, LocalsOf, Registered, InCall
<1>10. k \in Permanent /\ word.frame > 0 /\ word.frame - 1 \notin done => call # "wait"
  <2> SUFFICES ASSUME k \in Permanent, word.frame > 0, word.frame - 1 \notin done, call = "wait"
               PROVE  FALSE
    OBVIOUS
  <2>1. last[k] = word.frame - 1
    BY <1>3 DEF BarrierInv, PermanentBehind
  <2>2. holds[k] = last[k]
    BY DEF BarrierInv, LocalsFollowPc, LocalsOf
  <2> QED
    BY <1>0, <2>1, <2>2 DEF Resumed, Null
<1>11. ~Completer(k)
  BY <1>2 DEF Completer, InCall
<1>12. \A j \in Ticker : j # k => (Completer(j)' <=> Completer(j))
  BY <1>4 DEF Completer
<1>13. Completer(k)' <=> r = w
  BY <1>5 DEF Completer
<1>14. r = w => \A j \in Ticker : ~Completer(j)
  <2> SUFFICES ASSUME r = w, NEW j \in Ticker, Completer(j)
               PROVE  FALSE
    OBVIOUS
  <2>1. word.frame > 0 /\ word.frame - 1 \notin done
    BY <1>0 DEF BarrierInv, OneCompleter, FramesDone
  <2>2. PICK p \in Permanent : TRUE
    OBVIOUS
  <2>3. WaitedFor(p) = word.frame - 1 /\ p \in Ticker /\ Registered(p)'
    BY <1>9, <2>1 DEF BarrierInv, PermanentBehind
  <2>4. WaitedFor(p)' = word.frame
    BY <2>3, <1>8
  <2>5. p = k /\ call = "wait"
    BY <1>0, <1>3, <2>3, <2>4
  <2> QED
    BY <1>10, <2>1, <2>5
<1>15. TypeOK'
  <2>1. word' \in [registered : Nat, waiting : Nat, frame : Frames]
    BY <1>0, <1>1 DEF Frames
  <2> QED
    BY <2>1, <1>0, <1>1 DEF TypeOK, Frames, FutureOrNull, Null
<1>16. Lockstep'
  <2>1. ASSUME NEW j \in Ticker, Registered(j)', WaitedFor(j)' # Null
        PROVE  word'.frame - WaitedFor(j)' \in {0, 1}
    <3>1. CASE r = w
      BY <3>1, <2>1, <1>0, <1>1, <1>8
    <3>2. CASE r # w
      BY <3>2, <2>1, <1>0, <1>1, <1>3, <1>6 DEF BarrierInv, Lockstep
    <3> QED
      BY <3>1, <3>2
  <2>2. \A frame \in done' : frame < word'.frame
    BY <1>0, <1>1 DEF BarrierInv, Lockstep, TypeOK, Frames
  <2> QED
    BY <2>1, <2>2 DEF Lockstep
<1>17. LocalsFollowPc'
  <2>1. ASSUME NEW j \in Ticker, j # k, InCall(j), op[j] = "register", r = w
        PROVE  FALSE
    <3>1. Registered(j)' /\ WaitedFor(j)' = Null
      BY <2>1, <1>3 DEF BarrierInv, LocalsFollowPc, LocalsOf, Registered, WaitedFor, InCall
    <3> QED
      BY <3>1, <2>1, <1>0, <1>8 DEF Null
  <2>2. \A j \in Ticker : j # k => (InCall(j)' <=> InCall(j))
    BY <1>4 DEF InCall
  <2>3. InCall(k)' /\ copied' = copied /\ last' = last
        /\ word'.frame = IF r = w THEN word.frame + 1 ELSE word.frame
    BY <1>1, <1>5 DEF InCall
  <2>4. LocalsOf(k)'
    BY <2>3, <1>1, <1>5, <1>6 DEF BarrierInv, LocalsFollowPc, LocalsOf
  <2>5. ASSUME NEW j \in Ticker, j # k  PROVE LocalsOf(j)'
    BY <2>1, <2>2, <2>3, <2>5, <1>4 DEF BarrierInv, LocalsFollowPc, LocalsOf
  <2> QED
    BY <2>4, <2>5 DEF LocalsFollowPc
<1>18. OneCompleter'
  BY <1>0, <1>1, <1>4, <1>5, <1>12, <1>13, <1>14 DEF BarrierInv, OneCompleter
<1>19. FramesDone'
  <2>1. CASE r = w
    <3>1. done = 0..(word.frame - 1) /\ reported = word.frame
      BY <1>14, <2>1 DEF BarrierInv, FramesDone
    <3> QED
      BY <3>1, <2>1, <1>0, <1>1, <1>5, <1>13 DEF FramesDone
  <2>2. CASE r # w
    <3>1. \A j \in Ticker : /\ Completer(j)' <=> Completer(j)
                            /\ Completer(j) => pc'[j] = pc[j]
      BY <2>2, <1>4, <1>11, <1>12, <1>13
    <3> QED
      BY <3>1, <2>2, <1>1 DEF BarrierInv, FramesDone
  <2> QED
    BY <2>1, <2>2
<1>20. PermanentBehind'
  <2>1. CASE r = w
    BY <2>1, <1>0, <1>1, <1>8, <1>9 DEF PermanentBehind
  <2>2. CASE r # w
    <3> SUFFICES ASSUME word.frame > 0, word.frame - 1 \notin done, NEW p \in Permanent
                 PROVE  WaitedFor(p)' = word.frame - 1
      BY <2>2, <1>1 DEF PermanentBehind
    <3>1. WaitedFor(p) = word.frame - 1
      BY DEF BarrierInv, PermanentBehind
    <3> QED
      BY <3>1, <1>3, <1>9, <1>10
  <2> QED
    BY <2>1, <2>2
<1>21. RingFilled'
  <2>1. CASE r = w
    <3>1. futures[Slot(word.frame + 1)] = word.frame + 1
      BY <1>14, <2>1 DEF BarrierInv, RingFilled
    <3>2. ASSUME NEW x \in Nat, x <= word.frame + 1, word.frame + 1 <= x + 2
          PROVE  futures[Slot(x)] = x
      BY <3>1, <3>2, <1>0 DEF BarrierInv, RingFilled
    <3> QED
      BY <3>2, <2>1, <1>0, <1>1, <1>5, <1>13 DEF RingFilled
  <2>2. CASE r # w
    <3>1. \A j \in Ticker : Completer(j) => Completer(j)' /\ pc'[j] = pc[j]
      BY <1>4, <1>11, <1>12
    <3> QED
      BY <3>1, <2>2, <1>1 DEF BarrierInv, RingFilled
  <2> QED
    BY <2>1, <2>2
<1> QED
  BY <1>1, <1>8, <1>15, <1>16, <1>17, <1>18, <1>19, <1>20, <1>21 DEF BarrierInv
-----------------------------------------------------------------------------
(* The rest of the calls. *)

\* A step that leaves the word alone keeps the counts if everyone who takes part
\* goes on doing so.
LEMMA SameCounts ==
  ASSUME BarrierInv, word' = word,
         \A j \in Ticker : /\ Registered(j)' <=> Registered(j)
                           /\ Registered(j) => WaitedFor(j)' = WaitedFor(j),
         \A frame \in done' : frame < word.frame
  PROVE  CountsExact' /\ Lockstep'
<1>1. {j \in Ticker : Registered(j)}' = {j \in Ticker : Registered(j)}
  OBVIOUS
<1>2. {j \in Ticker : Waiting(j)}' = {j \in Ticker : Waiting(j)}
  BY DEF Waiting
<1>3. CountsExact'
  BY <1>1, <1>2 DEF CountsExact, BarrierInv
<1> QED
  BY <1>3 DEF BarrierInv, Lockstep

\* Everyone who waits reads the right slot.
LEMMA AwaitedInRing ==
  ASSUME BarrierInv, NEW k \in Ticker, InCall(k), op[k] = "wait"
  PROVE  futures[Slot(seen[k])] = seen[k] /\ seen[k] \in Nat
<1>1. Registered(k) /\ WaitedFor(k) = seen[k]
  BY DEF InCall, Registered, WaitedFor
<1>2. seen[k] \in Nat /\ word.frame \in Nat
  BY DEF BarrierInv, TypeOK, Frames
<1>3. word.frame - seen[k] \in {0, 1}
  BY <1>1, <1>2 DEF BarrierInv, Lockstep, Null
<1> QED
  BY <1>2, <1>3 DEF BarrierInv, RingFilled

\* Whoever completes a frame finds its future, not done.
LEMMA CompletedInRing ==
  ASSUME BarrierInv, NEW k \in Ticker, Completer(k)
  PROVE  /\ word.frame \in Nat /\ word.frame > 0 /\ seen[k] = word.frame - 1
         /\ futures[Slot(seen[k])] = seen[k]
         /\ done = 0..(word.frame - 2)
         /\ \A j \in Ticker : Completer(j) => j = k
<1>1. word.frame \in Nat /\ word.frame > 0 /\ seen[k] = word.frame - 1
  BY DEF BarrierInv, TypeOK, Frames, OneCompleter
<1>2. futures[Slot(seen[k])] = seen[k]
  BY <1>1 DEF BarrierInv, RingFilled
<1> QED
  BY <1>1, <1>2 DEF BarrierInv, FramesDone, OneCompleter

\* The steps within a call leave the counts as they are, for all tickers.
LEMMA WithinCall ==
  ASSUME BarrierInv, NEW k \in Ticker, InCall(k), NEW label, label \notin {"out", "in"},
         Goto(k, label), UNCHANGED <<word, op, seen, last>>,
         \A frame \in done' : frame < word.frame
  PROVE  /\ CountsExact' /\ Lockstep'
         /\ \A j \in Ticker : /\ InCall(j)' <=> InCall(j)
                              /\ Registered(j)' <=> Registered(j)
                              /\ WaitedFor(j)' = WaitedFor(j)
                              /\ j # k => pc'[j] = pc[j]
         /\ pc'[k] = label
<1>1. pc'[k] = label /\ \A j \in Ticker : j # k => pc'[j] = pc[j]
  BY DEF Goto, BarrierInv, TypeOK
<1>2. \A j \in Ticker : /\ InCall(j)' <=> InCall(j)
                        /\ Registered(j)' <=> Registered(j)
                        /\ WaitedFor(j)' = WaitedFor(j)
  BY <1>1 DEF InCall, Registered, WaitedFor
<1> QED
  BY <1>1, <1>2, SameCounts

LEMMA LoadFutureStep ==
  ASSUME BarrierInv, failed = "none", NEW k \in Ticker, LoadFuture(k)
  PROVE  BarrierInv'
<1>1. /\ pc[k] = "load" /\ Goto(k, "addref")
      /\ copied' = [copied EXCEPT ![k] = futures[Slot(seen[k])]]
      /\ UNCHANGED <<word, futures, done, reported, op, seen, completes, last, holds, failed>>
  BY DEF LoadFuture, ringVars
<1>2. InCall(k)
  BY <1>1 DEF InCall
<1>3. /\ CountsExact' /\ Lockstep'
      /\ \A j \in Ticker : /\ InCall(j)' <=> InCall(j)
                           /\ Registered(j)' <=> Registered(j)
                           /\ WaitedFor(j)' = WaitedFor(j)
                           /\ j # k => pc'[j] = pc[j]
      /\ pc'[k] = "addref"
  BY <1>1, <1>2, WithinCall DEF BarrierInv, Lockstep
<1>4. TypeOK'
  <2>1. seen[k] \in Nat /\ futures[Slot(seen[k])] \in FutureOrNull
    BY SlotFacts DEF BarrierInv, TypeOK, Frames
  <2> QED
    BY <2>1, <1>1 DEF BarrierInv, TypeOK, Goto
<1>6. LocalsFollowPc'
  <2>1. LocalsOf(k)'
    BY <1>1, <1>2, <1>3, AwaitedInRing DEF BarrierInv, TypeOK, LocalsFollowPc, LocalsOf
  <2>2. ASSUME NEW j \in Ticker, j # k  PROVE LocalsOf(j)'
    BY <2>2, <1>1, <1>3 DEF BarrierInv, TypeOK, LocalsFollowPc, LocalsOf
  <2> QED
    BY <2>1, <2>2 DEF LocalsFollowPc
<1>7. \A j \in Ticker : (Completer(j)' <=> Completer(j))
                        /\ (pc'[j] = "complete" <=> pc[j] = "complete")
  BY <1>1, <1>3 DEF Completer
<1>8. OneCompleter' /\ FramesDone'
  BY <1>1, <1>7 DEF BarrierInv, OneCompleter, FramesDone
<1>9. PermanentBehind'
  BY <1>1, <1>3, TickAssumption DEF BarrierInv, PermanentBehind
<1>10. RingFilled'
  BY <1>1, <1>3, <1>7 DEF BarrierInv, RingFilled
<1> QED
  BY <1>1, <1>3, <1>4, <1>6, <1>8, <1>9, <1>10 DEF BarrierInv

LEMMA AddRefFutureStep ==
  ASSUME BarrierInv, failed = "none", NEW k \in Ticker, AddRefFuture(k)
  PROVE  BarrierInv'
<1>1. /\ pc[k] = "addref"
      /\ copied' = [copied EXCEPT ![k] = Null]
      /\ UNCHANGED <<word, futures, done, reported, op, seen, completes, last>>
  BY DEF AddRefFuture, ringVars
<1>2. InCall(k)
  BY <1>1 DEF InCall
<1>3. CASE copied[k] # Null /\ ~Alive(copied[k])
  <2>1. failed' = "copy" /\ UNCHANGED <<holds, pc>>
    BY <1>3 DEF AddRefFuture
  <2>2. op[k] # "wait"
    <3> SUFFICES ASSUME op[k] = "wait"  PROVE FALSE
      OBVIOUS
    <3>1. copied[k] = seen[k]
      BY <1>1, <1>2 DEF BarrierInv, LocalsFollowPc, LocalsOf
    <3>2. futures[Slot(seen[k])] = seen[k] /\ Slot(seen[k]) \in DOMAIN futures
      BY <1>2, AwaitedInRing, SlotFacts DEF BarrierInv, TypeOK
    <3> QED
      BY <3>1, <3>2, <1>3 DEF Alive
  <2>3. \A j \in Ticker : /\ Registered(j)' <=> Registered(j)
                          /\ WaitedFor(j)' = WaitedFor(j)
                          /\ Completer(j)' <=> Completer(j)
    BY <1>1, <2>1 DEF Registered, WaitedFor, Completer
  <2>4. CountsExact' /\ Lockstep'
    BY <1>1, <2>3, SameCounts DEF BarrierInv, Lockstep
  <2>5. TypeOK'
    BY <1>1, <2>1 DEF BarrierInv, TypeOK, FutureOrNull
  <2>6. LocalsFollowPc'
    BY <1>1, <2>1, <2>2 DEF BarrierInv, TypeOK, LocalsFollowPc, LocalsOf, InCall
  <2>7. OneCompleter' /\ FramesDone' /\ RingFilled'
    BY <1>1, <2>1, <2>3 DEF BarrierInv, OneCompleter, FramesDone, RingFilled
  <2>8. PermanentBehind'
    BY <1>1, <2>3, TickAssumption DEF BarrierInv, PermanentBehind
  <2> QED
    BY <2>1, <2>4, <2>5, <2>6, <2>7, <2>8 DEF BarrierInv
<1>4. CASE ~(copied[k] # Null /\ ~Alive(copied[k]))
  <2> DEFINE label == IF completes[k] THEN "reset" ELSE "return"
  <2>0. label \in {"reset", "return"} /\ (label = "reset" <=> completes[k])
    OBVIOUS
  <2>1. /\ holds' = [holds EXCEPT ![k] = copied[k]]
        /\ Goto(k, label) /\ failed' = failed
    BY <1>4 DEF AddRefFuture
  <2> HIDE DEF label
  <2>2. /\ CountsExact' /\ Lockstep'
        /\ \A j \in Ticker : /\ InCall(j)' <=> InCall(j)
                             /\ Registered(j)' <=> Registered(j)
                             /\ WaitedFor(j)' = WaitedFor(j)
                             /\ j # k => pc'[j] = pc[j]
        /\ pc'[k] = label
    BY <1>1, <1>2, <2>0, <2>1, WithinCall DEF BarrierInv, Lockstep
  <2>3. TypeOK'
    BY <1>1, <2>0, <2>1 DEF BarrierInv, TypeOK, Goto, FutureOrNull
  <2>5. LocalsFollowPc'
    <3>1. LocalsOf(k)'
      BY <1>1, <1>2, <2>0, <2>1, <2>2 DEF BarrierInv, TypeOK, LocalsFollowPc, LocalsOf
    <3>2. ASSUME NEW j \in Ticker, j # k  PROVE LocalsOf(j)'
      BY <3>2, <1>1, <2>1, <2>2 DEF BarrierInv, TypeOK, LocalsFollowPc, LocalsOf
    <3> QED
      BY <3>1, <3>2 DEF LocalsFollowPc
  <2>6. \A j \in Ticker : (Completer(j)' <=> Completer(j))
                          /\ (pc'[j] = "complete" <=> pc[j] = "complete")
    BY <1>1, <2>0, <2>2 DEF Completer, BarrierInv, LocalsFollowPc, LocalsOf
  <2>7. OneCompleter' /\ FramesDone'
    BY <1>1, <2>6 DEF BarrierInv, OneCompleter, FramesDone
  <2>8. PermanentBehind'
    BY <1>1, <2>2, TickAssumption DEF BarrierInv, PermanentBehind
  <2>9. RingFilled'
    <3>1. \A j \in Ticker : Completer(j) /\ pc[j] \in {"load", "addref", "reset"} =>
            Completer(j)' /\ pc'[j] \in {"load", "addref", "reset"}
      BY <2>0, <2>2, <2>6 DEF Completer
    <3> QED
      BY <3>1, <1>1 DEF BarrierInv, RingFilled
  <2> QED
    BY <2>1, <2>2, <2>3, <2>5, <2>7, <2>8, <2>9 DEF BarrierInv
<1> QED
  BY <1>3, <1>4

\* The steps of a completer, which leave its copy of the word alone.
LEMMA ResetFutureStep ==
  ASSUME BarrierInv, failed = "none", NEW k \in Ticker, ResetFuture(k)
  PROVE  BarrierInv'
<1>1. /\ pc[k] = "reset" /\ Goto(k, "report")
      /\ futures' = [futures EXCEPT ![Slot(seen[k] + kFutureOffset)] = seen[k] + kFutureOffset]
      /\ UNCHANGED <<word, done, reported, op, seen, completes, last, copied, holds, failed>>
  BY DEF ResetFuture
<1>2. InCall(k) /\ Completer(k)
  BY <1>1 DEF InCall, Completer, BarrierInv, LocalsFollowPc, LocalsOf
<1>3. /\ CountsExact' /\ Lockstep'
      /\ \A j \in Ticker : /\ InCall(j)' <=> InCall(j)
                           /\ Registered(j)' <=> Registered(j)
                           /\ WaitedFor(j)' = WaitedFor(j)
                           /\ j # k => pc'[j] = pc[j]
      /\ pc'[k] = "report"
  BY <1>1, <1>2, WithinCall DEF BarrierInv, Lockstep
<1>4. word.frame \in Nat /\ seen[k] \in Nat /\ seen[k] + kFutureOffset = word.frame + 1
  BY <1>2, CompletedInRing DEF kFutureOffset, BarrierInv, TypeOK, Frames
<1>5. TypeOK'
  <2>1. seen[k] + kFutureOffset \in FutureOrNull
    BY TickAssumption DEF BarrierInv, TypeOK, Frames, FutureOrNull, kFutureOffset
  <2> QED
    BY <2>1, <1>1 DEF BarrierInv, TypeOK, Goto
<1>6. LocalsFollowPc'
  <2>1. LocalsOf(k)'
    BY <1>1, <1>2, <1>3 DEF BarrierInv, TypeOK, LocalsFollowPc, LocalsOf, Completer
  <2>2. ASSUME NEW j \in Ticker, j # k  PROVE LocalsOf(j)'
    BY <2>2, <1>1, <1>3 DEF BarrierInv, TypeOK, LocalsFollowPc, LocalsOf
  <2> QED
    BY <2>1, <2>2 DEF LocalsFollowPc
<1>7. \A j \in Ticker : (Completer(j)' <=> Completer(j))
                        /\ (pc'[j] = "complete" <=> pc[j] = "complete")
  BY <1>1, <1>3 DEF Completer
<1>8. OneCompleter' /\ FramesDone'
  BY <1>1, <1>7 DEF BarrierInv, OneCompleter, FramesDone
<1>9. PermanentBehind'
  BY <1>1, <1>3, TickAssumption DEF BarrierInv, PermanentBehind
<1>10. RingFilled'
  <2>1. futures' = [futures EXCEPT ![Slot(word.frame + 1)] = word.frame + 1]
    BY <1>1, <1>4
  <2>2. Slot(word.frame + 1) \in DOMAIN futures
    BY <1>4, SlotFacts DEF BarrierInv, TypeOK
  <2>3. futures'[Slot(word.frame + 1)] = word.frame + 1
    BY <2>1, <2>2
  <2>4. ASSUME NEW x \in Nat, x <= word.frame, word.frame <= x + 2
        PROVE  futures'[Slot(x)] = x
    <3>1. Slot(x) # Slot(word.frame + 1) /\ Slot(x) \in DOMAIN futures
      BY <2>4, <1>4, SlotFacts DEF BarrierInv, TypeOK, kNumberOfFutures
    <3> QED
      BY <3>1, <2>1, <2>4 DEF BarrierInv, RingFilled
  <2> QED
    BY <2>3, <2>4, <1>1 DEF RingFilled
<1> QED
  BY <1>1, <1>3, <1>5, <1>6, <1>8, <1>9, <1>10 DEF BarrierInv

LEMMA ReportFrameStep ==
  ASSUME BarrierInv, failed = "none", NEW k \in Ticker, ReportFrame(k)
  PROVE  BarrierInv' /\ reported' = reported + 1
<1>1. /\ pc[k] = "report" /\ Goto(k, "complete")
      /\ reported' = seen[k] + 1
      /\ UNCHANGED <<word, futures, done, op, seen, completes, last, copied, holds, failed>>
  BY DEF ReportFrame
<1>2. InCall(k) /\ Completer(k)
  BY <1>1 DEF InCall, Completer, BarrierInv, LocalsFollowPc, LocalsOf
<1>3. /\ CountsExact' /\ Lockstep'
      /\ \A j \in Ticker : /\ InCall(j)' <=> InCall(j)
                           /\ Registered(j)' <=> Registered(j)
                           /\ WaitedFor(j)' = WaitedFor(j)
                           /\ j # k => pc'[j] = pc[j]
      /\ pc'[k] = "complete"
  BY <1>1, <1>2, WithinCall DEF BarrierInv, Lockstep
<1>4. /\ word.frame \in Nat /\ word.frame \in Frames /\ seen[k] + 1 = word.frame
      /\ \A j \in Ticker : Completer(j) => j = k
  BY <1>2, CompletedInRing DEF BarrierInv, TypeOK
<1>5. TypeOK'
  BY <1>1, <1>4 DEF BarrierInv, TypeOK, Goto
<1>6. LocalsFollowPc'
  <2>1. LocalsOf(k)'
    BY <1>1, <1>2, <1>3 DEF BarrierInv, TypeOK, LocalsFollowPc, LocalsOf, Completer
  <2>2. ASSUME NEW j \in Ticker, j # k  PROVE LocalsOf(j)'
    BY <2>2, <1>1, <1>3 DEF BarrierInv, TypeOK, LocalsFollowPc, LocalsOf
  <2> QED
    BY <2>1, <2>2 DEF LocalsFollowPc
<1>7. \A j \in Ticker : Completer(j)' <=> Completer(j)
  BY <1>1, <1>3 DEF Completer
<1>8. OneCompleter'
  BY <1>1, <1>7 DEF BarrierInv, OneCompleter
<1>9. FramesDone' /\ reported' = reported + 1
  <2>1. reported = word.frame - 1
    BY <1>1, <1>2 DEF BarrierInv, FramesDone
  <2>2. ~\E j \in Ticker : Completer(j)' /\ pc'[j] # "complete"
    BY <1>3, <1>4, <1>7
  <2> QED
    BY <2>1, <2>2, <1>1, <1>4, <1>7 DEF BarrierInv, FramesDone
<1>10. PermanentBehind'
  BY <1>1, <1>3, TickAssumption DEF BarrierInv, PermanentBehind
<1>11. RingFilled'
  <2>1. futures[Slot(word.frame + 1)] = word.frame + 1
    BY <1>1, <1>4 DEF BarrierInv, RingFilled
  <2> QED
    BY <2>1, <1>1 DEF BarrierInv, RingFilled
<1> QED
  BY <1>1, <1>3, <1>5, <1>6, <1>8, <1>9, <1>10, <1>11 DEF BarrierInv

LEMMA CompleteFutureStep ==
  ASSUME BarrierInv, failed = "none", NEW k \in Ticker, CompleteFuture(k)
  PROVE  BarrierInv'
<1>1. /\ pc[k] = "complete"
      /\ UNCHANGED <<word, futures, reported, op, seen, completes, last, copied>>
  BY DEF CompleteFuture
<1>2. InCall(k) /\ Completer(k)
  BY <1>1 DEF InCall, Completer, BarrierInv, LocalsFollowPc, LocalsOf
<1>3. /\ word.frame \in Nat /\ word.frame > 0 /\ seen[k] = word.frame - 1
      /\ futures[Slot(seen[k])] = seen[k]
      /\ done = 0..(word.frame - 2)
      /\ \A j \in Ticker : Completer(j) => j = k
  BY <1>2, CompletedInRing
<1>4. seen[k] # Null /\ seen[k] \notin done
  BY <1>3 DEF Null
<1>5. /\ done' = done \cup {seen[k]} /\ holds' = [holds EXCEPT ![k] = seen[k]]
      /\ Goto(k, "return") /\ UNCHANGED failed
  BY <1>3, <1>4 DEF CompleteFuture
<1>6. done' = 0..(word.frame - 1)
  BY <1>3, <1>5
<1>7. /\ CountsExact' /\ Lockstep'
      /\ \A j \in Ticker : /\ InCall(j)' <=> InCall(j)
                           /\ Registered(j)' <=> Registered(j)
                           /\ WaitedFor(j)' = WaitedFor(j)
                           /\ j # k => pc'[j] = pc[j]
      /\ pc'[k] = "return"
  <2>1. \A frame \in done' : frame < word.frame
    BY <1>3, <1>6
  <2> QED
    BY <2>1, <1>1, <1>2, <1>5, WithinCall
<1>8. TypeOK'
  <2>1. seen[k] \in Frames /\ seen[k] \in FutureOrNull
    BY TickAssumption DEF BarrierInv, TypeOK, Frames, FutureOrNull, kFutureOffset
  <2> QED
    BY <2>1, <1>1, <1>5 DEF BarrierInv, TypeOK, Goto
<1>9. LocalsFollowPc'
  <2>1. LocalsOf(k)'
    BY <1>1, <1>2, <1>5, <1>7 DEF BarrierInv, TypeOK, LocalsFollowPc, LocalsOf
  <2>2. ASSUME NEW j \in Ticker, j # k  PROVE LocalsOf(j)'
    BY <2>2, <1>1, <1>5, <1>7 DEF BarrierInv, TypeOK, LocalsFollowPc, LocalsOf
  <2> QED
    BY <2>1, <2>2 DEF LocalsFollowPc
<1>10. \A j \in Ticker : ~Completer(j)'
  BY <1>1, <1>3, <1>7 DEF Completer
<1>11. OneCompleter'
  BY <1>10 DEF OneCompleter
<1>12. FramesDone'
  <2>1. reported = word.frame
    BY <1>1, <1>3 DEF BarrierInv, FramesDone
  <2> QED
    BY <2>1, <1>1, <1>6, <1>10 DEF FramesDone
<1>13. PermanentBehind'
  BY <1>1, <1>3, <1>6 DEF PermanentBehind
<1>14. RingFilled'
  <2>1. futures[Slot(word.frame + 1)] = word.frame + 1
    BY <1>1, <1>3 DEF BarrierInv, RingFilled
  <2> QED
    BY <2>1, <1>1 DEF BarrierInv, RingFilled
<1> QED
  BY <1>5, <1>7, <1>8, <1>9, <1>11, <1>12, <1>13, <1>14 DEF BarrierInv

LEMMA ReturnStep ==
  ASSUME BarrierInv, failed = "none", NEW k \in Ticker, Return(k)
  PROVE  BarrierInv'
<1>1. pc[k] = "return" /\ UNCHANGED <<word, futures, done, reported, op, seen, completes, copied>>
  BY DEF Return, ringVars
<1>2. InCall(k) /\ ~Completer(k)
  BY <1>1 DEF InCall, Completer
<1>3. LocalsOf(k) /\ op[k] \in {"register", "wait", "unregister"}
  BY DEF BarrierInv, TypeOK, LocalsFollowPc
<1>4. seen[k] \in Frames /\ seen[k] \in FutureOrNull /\ seen[k] # Null /\ Null \in FutureOrNull
  BY TickAssumption DEF BarrierInv, TypeOK, Frames, FutureOrNull, kFutureOffset, Null
<1>5. /\ pc' = [pc EXCEPT ![k] = IF op[k] = "unregister" THEN "out" ELSE "in"]
      /\ last' = [last EXCEPT ![k] = IF op[k] = "wait" THEN seen[k] ELSE Null]
      /\ holds' = [holds EXCEPT ![k] = IF op[k] = "wait" THEN seen[k] ELSE Null]
      /\ UNCHANGED failed
  <2>1. CASE op[k] = "wait"
    <3>1. holds[k] = seen[k]
      BY <2>1, <1>1, <1>2, <1>3 DEF LocalsOf
    <3> QED
      BY <3>1, <2>1, <1>4 DEF Return, Goto
  <2>2. CASE op[k] = "register"
    <3>1. last[k] = Null
      BY <2>2, <1>2, <1>3 DEF LocalsOf
    <3>2. last' = [last EXCEPT ![k] = Null]
      BY <3>1, <2>2 DEF Return, BarrierInv, TypeOK
    <3> QED
      BY <3>2, <2>2 DEF Return, Goto
  <2>3. CASE op[k] = "unregister"
    BY <2>3 DEF Return, Goto
  <2> QED
    BY <2>1, <2>2, <2>3, <1>3
<1>6. /\ pc'[k] = IF op[k] = "unregister" THEN "out" ELSE "in"
      /\ last'[k] = IF op[k] = "wait" THEN seen[k] ELSE Null
      /\ holds'[k] = IF op[k] = "wait" THEN seen[k] ELSE Null
      /\ \A j \in Ticker : j # k => pc'[j] = pc[j] /\ last'[j] = last[j] /\ holds'[j] = holds[j]
  BY <1>5 DEF BarrierInv, TypeOK
<1>7. \A j \in Ticker : /\ Registered(j)' <=> Registered(j)
                        /\ Registered(j) => WaitedFor(j)' = WaitedFor(j)
                        /\ Completer(j)' <=> Completer(j)
                        /\ j # k => (InCall(j)' <=> InCall(j))
                        /\ Completer(j) => pc'[j] = pc[j]
  BY <1>1, <1>2, <1>3, <1>6 DEF Registered, WaitedFor, Completer, InCall, LocalsOf
<1>8. CountsExact' /\ Lockstep'
  BY <1>1, <1>7, SameCounts DEF BarrierInv, Lockstep
<1>9. TypeOK'
  BY <1>1, <1>4, <1>5 DEF BarrierInv, TypeOK
<1>10. LocalsFollowPc'
  <2>1. LocalsOf(k)'
    BY <1>1, <1>2, <1>3, <1>6 DEF LocalsOf, InCall
  <2>2. ASSUME NEW j \in Ticker, j # k  PROVE LocalsOf(j)'
    BY <2>2, <1>1, <1>6, <1>7 DEF BarrierInv, LocalsFollowPc, LocalsOf
  <2> QED
    BY <2>1, <2>2 DEF LocalsFollowPc
<1>11. OneCompleter' /\ FramesDone' /\ RingFilled'
  BY <1>1, <1>7 DEF BarrierInv, OneCompleter, FramesDone, RingFilled
<1>12. PermanentBehind'
  <2>1. \A p \in Permanent : p \in Ticker /\ Registered(p)
    BY TickAssumption DEF BarrierInv, LocalsFollowPc, LocalsOf, Registered
  <2> QED
    BY <2>1, <1>1, <1>7 DEF BarrierInv, PermanentBehind
<1> QED
  BY <1>5, <1>8, <1>9, <1>10, <1>11, <1>12 DEF BarrierInv
-----------------------------------------------------------------------------
(* The invariant, and what follows from it. *)

LEMMA BarrierInit ==
  Init => BarrierInv
<1> SUFFICES ASSUME Init
             PROVE  BarrierInv
  OBVIOUS
<1>1. IsFiniteSet(Permanent) /\ Cardinality(Permanent) \in Nat /\ MaxFrame \in Nat
  BY TickAssumption, FS_Subset, FS_CardinalityType
<1>2. TypeOK
  <2>1. futures \in [0..(kNumberOfFutures - 1) -> FutureOrNull]
    BY <1>1 DEF Init, FutureOrNull, kFutureOffset, kNumberOfFutures, Null
  <2>2. word \in [registered : Nat, waiting : Nat, frame : Frames]
    BY <1>1 DEF Init, Frames
  <2> QED
    BY <2>1, <2>2, <1>1 DEF Init, TypeOK, Frames, FutureOrNull, Null
<1>3. CountsExact
  <2>1. {k \in Ticker : Registered(k)} = Permanent
    BY TickAssumption DEF Init, Registered
  <2>2. {k \in Ticker : Waiting(k)} = {}
    BY DEF Init, Waiting, WaitedFor, Null
  <2> QED
    BY <2>1, <2>2, FS_EmptySet DEF Init, CountsExact
<1>4. Lockstep
  BY DEF Init, Lockstep, WaitedFor, Registered
<1>5. LocalsFollowPc
  BY DEF Init, LocalsFollowPc, LocalsOf, InCall
<1>6. \A k \in Ticker : ~Completer(k)
  BY DEF Init, Completer
<1>7. OneCompleter /\ FramesDone /\ PermanentBehind
  BY <1>6 DEF Init, OneCompleter, FramesDone, PermanentBehind
<1>8. RingFilled
  BY DEF Init, RingFilled, Slot, kNumberOfFutures, kFutureOffset
<1> QED
  BY <1>2, <1>3, <1>4, <1>5, <1>7, <1>8 DEF BarrierInv, Init

\* What ReportedInOrder says of one step.
ReportsNext ==
  reported' = IF \E k \in Ticker : pc[k] = "report" /\ pc'[k] # "report"
              THEN reported + 1 ELSE reported

\* A step of one ticker that is at another place of its calls is no report.
LEMMA NoReport ==
  ASSUME TypeOK, NEW k \in Ticker, pc[k] # "report", UNCHANGED reported,
         pc' = pc \/ \E label : Goto(k, label)
  PROVE  ReportsNext
<1> QED
  BY DEF ReportsNext, TypeOK, Goto

LEMMA BarrierStep ==
  ASSUME Permanent # {}, BarrierInv, [Next]_vars
  PROVE  BarrierInv' /\ ReportsNext
<1>0. TypeOK /\ word.registered \in Nat /\ word.waiting \in Nat
  BY DEF BarrierInv, TypeOK
<1>1. ASSUME NEW k \in Ticker, failed = "none", RegisterNeededTick(k)
      PROVE  BarrierInv' /\ ReportsNext
  <2>1. pc[k] = "out" /\ InnerUpdate(k, "register", word.registered + 1, word.waiting)
    BY <1>1 DEF RegisterNeededTick
  <2>2. /\ word.registered + 1 = Cardinality(RegisteredSet')
        /\ word.waiting = Cardinality({j \in Ticker : Registered(j)' /\ WaitedFor(j)' = word.frame})
        /\ word.registered + 1 # word.waiting /\ word.registered + 1 \in Nat
    BY <1>0, <1>1, RegisterCounts
  <2>3. BarrierInv'
    BY <1>0, <1>1, <2>1, <2>2, UpdateStep
  <2> QED
    BY <1>0, <2>1, <2>3, NoReport DEF InnerUpdate, ringVars
<1>2. ASSUME NEW k \in Ticker, failed = "none", WaitForNextFrame(k)
      PROVE  BarrierInv' /\ ReportsNext
  <2>1. pc[k] = "in" /\ Resumed(k) /\ InnerUpdate(k, "wait", word.registered, word.waiting + 1)
    BY <1>2 DEF WaitForNextFrame
  <2>2. /\ last[k] # word.frame
        /\ word.registered = Cardinality(RegisteredSet')
        /\ word.waiting + 1 = Cardinality({j \in Ticker : Registered(j)' /\ WaitedFor(j)' = word.frame})
        /\ word.waiting + 1 \in Nat
    BY <1>0, <1>2, WaitCounts
  <2>3. BarrierInv'
    BY <1>0, <1>2, <2>1, <2>2, UpdateStep
  <2> QED
    BY <1>0, <2>1, <2>3, NoReport DEF InnerUpdate, ringVars
<1>3. ASSUME NEW k \in Ticker, failed = "none", UnregisterNeeded(k)
      PROVE  BarrierInv' /\ ReportsNext
  <2> DEFINE w == IF word.frame = last[k] THEN word.waiting - 1 ELSE word.waiting
  <2>1. /\ word.registered - 1 \in Nat /\ w \in Nat
        /\ word.registered - 1 = Cardinality(RegisteredSet')
        /\ w = Cardinality({j \in Ticker : Registered(j)' /\ WaitedFor(j)' = word.frame})
    BY <1>3, UnregisterCounts
  <2>2. pc[k] = "in" /\ k \notin Permanent /\ InnerUpdate(k, "unregister", word.registered - 1, w)
    BY <1>3 DEF UnregisterNeeded
  <2> HIDE DEF w
  <2>3. BarrierInv'
    BY <1>3, <2>1, <2>2, UpdateStep
  <2> QED
    BY <1>0, <2>2, <2>3, NoReport DEF InnerUpdate, ringVars
<1>4. ASSUME NEW k \in Ticker, failed = "none", LoadFuture(k)
      PROVE  BarrierInv' /\ ReportsNext
  BY <1>0, <1>4, LoadFutureStep, NoReport DEF LoadFuture, ringVars
<1>5. ASSUME NEW k \in Ticker, failed = "none", AddRefFuture(k)
      PROVE  BarrierInv' /\ ReportsNext
  BY <1>0, <1>5, AddRefFutureStep, NoReport DEF AddRefFuture, ringVars
<1>6. ASSUME NEW k \in Ticker, failed = "none", ResetFuture(k)
      PROVE  BarrierInv' /\ ReportsNext
  BY <1>0, <1>6, ResetFutureStep, NoReport DEF ResetFuture
<1>7. ASSUME NEW k \in Ticker, failed = "none", ReportFrame(k)
      PROVE  BarrierInv' /\ ReportsNext
  <2>1. pc[k] = "report" /\ pc'[k] = "complete"
    BY <1>0, <1>7 DEF ReportFrame, TypeOK, Goto
  <2>2. BarrierInv' /\ reported' = reported + 1
    BY <1>7, ReportFrameStep
  <2> QED
    BY <2>1, <2>2 DEF ReportsNext
<1>8. ASSUME NEW k \in Ticker, failed = "none", CompleteFuture(k)
      PROVE  BarrierInv' /\ ReportsNext
  BY <1>0, <1>8, CompleteFutureStep, NoReport DEF CompleteFuture
<1>9. ASSUME NEW k \in Ticker, failed = "none", Return(k)
      PROVE  BarrierInv' /\ ReportsNext
  BY <1>0, <1>9, ReturnStep, NoReport DEF Return, ringVars
<1>10. CASE UNCHANGED vars
  <2> USE <1>10 DEF vars, ringVars, callVars, BarrierInv
  <2>1. TypeOK' /\ failed' = failed
    BY DEF TypeOK
  <2>2. CountsExact' /\ Lockstep'
    BY DEF CountsExact, Lockstep, Waiting, WaitedFor, Registered
  <2>3. LocalsFollowPc'
    BY DEF LocalsFollowPc, LocalsOf, InCall
  <2>4. OneCompleter' /\ FramesDone'
    BY DEF OneCompleter, FramesDone, Completer
  <2>5. PermanentBehind' /\ RingFilled'
    BY DEF PermanentBehind, RingFilled, Completer, WaitedFor
  <2>6. ReportsNext
    BY DEF ReportsNext
  <2> QED
    BY <2>1, <2>2, <2>3, <2>4, <2>5, <2>6
<1> QED
  BY <1>1, <1>2, <1>3, <1>4, <1>5, <1>6, <1>7, <1>8, <1>9, <1>10 DEF Next, Internal

\* With a permanent ticker BarrierInv holds in every state, for any number of
\* tickers that join, wait and leave in any order, and for any number of frames.
THEOREM BarrierInvariance ==
  ASSUME Permanent # {}
  PROVE  Spec => []BarrierInv
<1>1. BarrierInv /\ [Next]_vars => BarrierInv'
  BY BarrierStep
<1> QED
  BY <1>1, BarrierInit, PTL DEF Spec

\* No count goes below zero, although a leaving ticker takes its wait along
\* (UnregisterNeeded), and the ring holds pointers to futures only.
THEOREM BarrierTypesCorrect ==
  ASSUME Permanent # {}
  PROVE  Spec => []TypeOK
<1>1. BarrierInv => TypeOK
  BY DEF BarrierInv
<1> QED
  BY <1>1, BarrierInvariance, PTL

\* registered_ and waiting_ of the atomic word count who takes part and who has
\* waited for the current frame.
THEOREM BarrierCountsExact ==
  ASSUME Permanent # {}
  PROVE  Spec => []CountsExact
<1>1. BarrierInv => CountsExact
  BY DEF BarrierInv
<1> QED
  BY <1>1, BarrierInvariance, PTL

\* It is a barrier: nobody who takes part is more than a frame behind, and the
\* future of a frame is done only after all have waited for it.
THEOREM TickersInLockstep ==
  ASSUME Permanent # {}
  PROVE  Spec => []Lockstep
<1>1. BarrierInv => Lockstep
  BY DEF BarrierInv
<1> QED
  BY <1>1, BarrierInvariance, PTL

\* WaitForNextFrame returns the future of the frame it has waited for, although
\* the ring is read after the compare-and-swap.
THEOREM WaitReturnsItsFuture ==
  ASSUME Permanent # {}
  PROVE  Spec => []RightFuture
<1>1. BarrierInv => RightFuture
  BY DEF BarrierInv, RightFuture, LocalsFollowPc, LocalsOf
<1> QED
  BY <1>1, BarrierInvariance, PTL

\* Whoever completes a frame finds its future in the ring and not done, as the
\* assertion in InnerUpdate says.
THEOREM CompleterFindsItsFuture ==
  ASSUME Permanent # {}
  PROVE  Spec => []FrameFutureReady
<1>1. BarrierInv => FrameFutureReady
  BY DEF BarrierInv, FrameFutureReady
<1> QED
  BY <1>1, BarrierInvariance, PTL

\* on_frame_ready_ is called once for every frame and in their order, although it is
\* called outside the atomic word and by different threads.
THEOREM FramesReportedInOrder ==
  ASSUME Permanent # {}
  PROVE  Spec => ReportedInOrder
<1>1. BarrierInv /\ [Next]_vars
      => [reported' = IF \E k \in Ticker : pc[k] = "report" /\ pc'[k] # "report"
                      THEN reported + 1 ELSE reported]_vars
  BY BarrierStep DEF ReportsNext
<1> QED
  BY <1>1, BarrierInvariance, PTL DEF Spec, ReportedInOrder
=============================================================================
