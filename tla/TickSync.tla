------------------------------ MODULE TickSync ------------------------------
(***************************************************************************)
(* The frame barrier (TickSync.h).  A ticker registers, waits for one      *)
(* frame after the other and unregisters; the last one of a frame, which   *)
(* may be one that leaves, completes it.  The two counts and the frame     *)
(* number are one atomic word; the ring futures_ is not atomic: it is read *)
(* and written after the compare-and-swap, in steps of their own, a copy   *)
(* of a pointer in two (the pointer, then AddRef).  A future is named by   *)
(* the frame it was made for.  Tickers await the future of a frame before  *)
(* they wait for the next one, as the coroutines of Test.cpp do.           *)
(* A failed assertion stops the program.                                   *)
(***************************************************************************)
EXTENDS Integers, FiniteSets

CONSTANTS Ticker,      \* the TickScopes on one TickSync
          Permanent,   \* those registered before all others, who never leave
          MaxFrame     \* bound: frames completed in one run

kNumberOfFutures == 4
kFutureOffset == 2
Null == -1             \* null pointer; last_waited_frame_id_ of a new TickScope

ASSUME TickAssumption ==
  IsFiniteSet(Ticker) /\ Permanent \subseteq Ticker /\ MaxFrame \in Nat

VARIABLES
  word,      \* state_: registered_, waiting_, frame_id_
  futures,   \* futures_: the frame whose future is in each slot
  done,      \* the frames whose future is done
  reported,  \* number of the last frame given to on_frame_ready_, plus one
  pc, op,    \* where a ticker is, and in which call
  seen,      \* the frame_id_ its compare-and-swap found
  completes, \* frame_ready
  last,      \* TickScope::last_waited_frame_id_
  copied,    \* the pointer it has read from the ring
  holds,     \* the future it has a reference to (alt_result, then the result)
  failed     \* the assertion that failed
ringVars == <<futures, done, reported>>
callVars == <<pc, op, seen, completes>>
vars == <<word, ringVars, callVars, last, copied, holds, failed>>

Frames == 0..MaxFrame
FutureOrNull == 0..(MaxFrame + kFutureOffset) \cup {Null}

TypeOK ==
  /\ word \in [registered : Nat, waiting : Nat, frame : Frames]
  /\ futures \in [0..(kNumberOfFutures - 1) -> FutureOrNull]
  /\ done \subseteq Frames
  /\ reported \in Frames
  /\ pc \in [Ticker -> {"out", "in", "load", "addref", "reset", "report", "complete", "return"}]
  /\ op \in [Ticker -> {"register", "wait", "unregister"}]
  /\ seen \in [Ticker -> Frames]
  /\ completes \in [Ticker -> BOOLEAN]
  /\ last \in [Ticker -> Frames \cup {Null}]
  /\ copied \in [Ticker -> FutureOrNull]
  /\ holds \in [Ticker -> FutureOrNull]
  /\ failed \in {"none", "copy", "frame_future", "no_future"}

\* After Initialize, which makes futures for the first two frames, and the
\* registrations of the permanent tickers.
Init ==
  /\ word = [registered |-> Cardinality(Permanent), waiting |-> 0, frame |-> 0]
  /\ futures = [i \in 0..(kNumberOfFutures - 1) |-> IF i < kFutureOffset THEN i ELSE Null]
  /\ done = {} /\ reported = 0
  /\ pc = [k \in Ticker |-> IF k \in Permanent THEN "in" ELSE "out"]
  /\ op = [k \in Ticker |-> "register"]
  /\ seen = [k \in Ticker |-> 0]
  /\ completes = [k \in Ticker |-> FALSE]
  /\ last = [k \in Ticker |-> Null]
  /\ copied = [k \in Ticker |-> Null]
  /\ holds = [k \in Ticker |-> Null]
  /\ failed = "none"

\* A ring that is too short for tickers that read a slot late.
SlotMutant(frame) == frame % kFutureOffset

Slot(frame) == frame % kNumberOfFutures
Goto(k, label) == pc' = [pc EXCEPT ![k] = label]

\* The future still has a reference: from the ring or from a ticker.
Alive(future) ==
  \/ \E i \in DOMAIN futures : futures[i] = future
  \/ \E k \in Ticker : holds[k] = future
-----------------------------------------------------------------------------
(* InnerUpdate. *)

\* A frame that a leaving ticker does not complete for the ones that wait.
InnerUpdateMutant(k, call, r, w) ==
  LET ready == r = w /\ call # "unregister" IN
  /\ word.frame < MaxFrame
  /\ word' = [registered |-> r,
              waiting |-> IF ready THEN 0 ELSE w,
              frame |-> IF ready THEN word.frame + 1 ELSE word.frame]
  /\ op' = [op EXCEPT ![k] = call]
  /\ seen' = [seen EXCEPT ![k] = word.frame]
  /\ completes' = [completes EXCEPT ![k] = ready]
  /\ holds' = [holds EXCEPT ![k] = Null]
  /\ Goto(k, "load")
  /\ UNCHANGED <<ringVars, last, copied, failed>>

\* A completion test that is off by one.
InnerUpdateMutant2(k, call, r, w) ==
  LET ready == r <= w + 1 IN
  /\ word.frame < MaxFrame
  /\ word' = [registered |-> r,
              waiting |-> IF ready THEN 0 ELSE w,
              frame |-> IF ready THEN word.frame + 1 ELSE word.frame]
  /\ op' = [op EXCEPT ![k] = call]
  /\ seen' = [seen EXCEPT ![k] = word.frame]
  /\ completes' = [completes EXCEPT ![k] = ready]
  /\ holds' = [holds EXCEPT ![k] = Null]
  /\ Goto(k, "load")
  /\ UNCHANGED <<ringVars, last, copied, failed>>

\* The compare-and-swap that makes the counts r and w, and with equal counts
\* completes the frame.
InnerUpdate(k, call, r, w) ==
  /\ word.frame < MaxFrame
  /\ word' = IF r = w
             THEN [registered |-> r, waiting |-> 0, frame |-> word.frame + 1]
             ELSE [registered |-> r, waiting |-> w, frame |-> word.frame]
  /\ op' = [op EXCEPT ![k] = call]
  /\ seen' = [seen EXCEPT ![k] = word.frame]
  /\ completes' = [completes EXCEPT ![k] = r = w]
  /\ holds' = [holds EXCEPT ![k] = Null]
  /\ Goto(k, "load")
  /\ UNCHANGED <<ringVars, last, copied, failed>>

RegisterNeededTick(k) ==
  /\ pc[k] = "out"
  /\ InnerUpdate(k, "register", word.registered + 1, word.waiting)

\* co_await on the future of the last frame lets the coroutine continue.
Resumed(k) == holds[k] = Null \/ holds[k] \in done

WaitForNextFrame(k) ==
  /\ pc[k] = "in" /\ Resumed(k)
  /\ InnerUpdate(k, "wait", word.registered, word.waiting + 1)

\* A ticker that leaves without taking its wait for this frame along.
UnregisterNeededMutant(k) ==
  /\ pc[k] = "in" /\ k \notin Permanent
  /\ InnerUpdate(k, "unregister", word.registered - 1, word.waiting)

\* A ticker that takes along a wait it may not have begun.
UnregisterNeededMutant2(k) ==
  /\ pc[k] = "in" /\ k \notin Permanent
  /\ InnerUpdate(k, "unregister", word.registered - 1, word.waiting - 1)

UnregisterNeeded(k) ==
  /\ pc[k] = "in" /\ k \notin Permanent
  /\ InnerUpdate(k, "unregister", word.registered - 1,
                 IF word.frame = last[k] THEN word.waiting - 1 ELSE word.waiting)

\* alt_result = futures_[future_idx]: the pointer is read...
LoadFuture(k) ==
  /\ pc[k] = "load"
  /\ copied' = [copied EXCEPT ![k] = futures[Slot(seen[k])]]
  /\ Goto(k, "addref")
  /\ UNCHANGED <<word, ringVars, op, seen, completes, last, holds, failed>>

\* ... and counted: the asserts of TRefCountPtr want a second reference.
AddRefFuture(k) ==
  /\ pc[k] = "addref"
  /\ IF copied[k] # Null /\ ~Alive(copied[k])
     THEN failed' = "copy" /\ UNCHANGED <<holds, pc>>
     ELSE /\ holds' = [holds EXCEPT ![k] = copied[k]]
          /\ Goto(k, IF completes[k] THEN "reset" ELSE "return")
          /\ UNCHANGED failed
  /\ copied' = [copied EXCEPT ![k] = Null]
  /\ UNCHANGED <<word, ringVars, op, seen, completes, last>>

\* A frame that a leaving ticker completes gets no future.
ResetFutureMutant(k) ==
  /\ pc[k] = "reset"
  /\ IF op[k] = "unregister" THEN UNCHANGED futures
     ELSE futures' = [futures EXCEPT ![Slot(seen[k] + kFutureOffset)] = seen[k] + kFutureOffset]
  /\ Goto(k, "report")
  /\ UNCHANGED <<word, done, reported, op, seen, completes, last, copied, holds, failed>>

\* The slot two frames ahead gets its future.
ResetFuture(k) ==
  /\ pc[k] = "reset"
  /\ futures' = [futures EXCEPT ![Slot(seen[k] + kFutureOffset)] = seen[k] + kFutureOffset]
  /\ Goto(k, "report")
  /\ UNCHANGED <<word, done, reported, op, seen, completes, last, copied, holds, failed>>

\* Only the calls that wait report the frames they complete.
ReportFrameMutant(k) ==
  /\ pc[k] = "report"
  /\ reported' = IF op[k] = "wait" THEN seen[k] + 1 ELSE reported
  /\ Goto(k, "complete")
  /\ UNCHANGED <<word, futures, done, op, seen, completes, last, copied, holds, failed>>

\* on_frame_ready_
ReportFrame(k) ==
  /\ pc[k] = "report"
  /\ reported' = seen[k] + 1
  /\ Goto(k, "complete")
  /\ UNCHANGED <<word, futures, done, op, seen, completes, last, copied, holds, failed>>

\* The asserts on the frame's future, and Done.
CompleteFuture(k) ==
  LET future == futures[Slot(seen[k])] IN
  /\ pc[k] = "complete"
  /\ IF future = Null \/ future \in done
     THEN failed' = "frame_future" /\ UNCHANGED <<done, holds, pc>>
     ELSE /\ done' = done \cup {future}
          /\ holds' = [holds EXCEPT ![k] = future]
          /\ Goto(k, "return")
          /\ UNCHANGED failed
  /\ UNCHANGED <<word, futures, reported, op, seen, completes, last, copied>>

\* InnerUpdate returns; WaitForNextFrame passes a future and the frame on.
Return(k) ==
  LET future == IF holds[k] # Null THEN holds[k] ELSE futures[Slot(seen[k])] IN
  /\ pc[k] = "return"
  /\ IF op[k] = "wait"
     THEN IF future = Null
          THEN failed' = "no_future" /\ UNCHANGED <<pc, last, holds>>
          ELSE /\ last' = [last EXCEPT ![k] = seen[k]]
               /\ holds' = [holds EXCEPT ![k] = future]
               /\ Goto(k, "in")
               /\ UNCHANGED failed
     ELSE /\ Goto(k, IF op[k] = "register" THEN "in" ELSE "out")
          /\ last' = [last EXCEPT ![k] = IF op[k] = "register" THEN @ ELSE Null]
          /\ holds' = [holds EXCEPT ![k] = Null]
          /\ UNCHANGED failed
  /\ UNCHANGED <<word, ringVars, op, seen, completes, copied>>

Internal(k) ==
  \/ LoadFuture(k) \/ AddRefFuture(k) \/ ResetFuture(k) \/ ReportFrame(k)
  \/ CompleteFuture(k) \/ Return(k)

Next ==
  /\ failed = "none"
  /\ \E k \in Ticker :
       RegisterNeededTick(k) \/ WaitForNextFrame(k) \/ UnregisterNeeded(k) \/ Internal(k)

Spec == Init /\ [][Next]_vars

\* Calls return, and whoever is registered waits for the next frame or leaves.
FairSpec ==
  /\ Spec
  /\ \A k \in Ticker :
       /\ WF_vars(failed = "none" /\ Internal(k))
       /\ WF_vars(failed = "none" /\ (WaitForNextFrame(k) \/ UnregisterNeeded(k)))
-----------------------------------------------------------------------------
\* k takes part in the frames: its registration is done, its leaving is not.
Registered(k) == pc[k] = "in" \/ (pc[k] # "out" /\ op[k] # "unregister")

\* The last frame k has waited for, as far as the atomic word knows.
WaitedFor(k) ==
  IF pc[k] \notin {"out", "in"} /\ op[k] = "wait" THEN seen[k] ELSE last[k]

Waiting(k) == Registered(k) /\ WaitedFor(k) = word.frame

\* The counts in the word are exact, which gives the asserts registered_ >=
\* waiting_: joining and leaving tickers, also one that leaves after it has
\* waited for the current frame, never make a frame complete early or never.
CountsExact ==
  /\ word.registered = Cardinality({k \in Ticker : Registered(k)})
  /\ word.waiting = Cardinality({k \in Ticker : Waiting(k)})

\* The barrier: no registered ticker that has ever waited is more than one
\* frame behind, and a frame's future is done only after the frame completed.
Lockstep ==
  /\ \A k \in Ticker : Registered(k) /\ WaitedFor(k) # Null =>
       word.frame - WaitedFor(k) \in {0, 1}
  /\ \A frame \in done : frame < word.frame

\* WaitForNextFrame returns a future, which its assert(future) wants, and it is
\* the one of the frame it reports, although the ring is read after that frame
\* may be over.
RightFuture ==
  /\ failed # "no_future"
  /\ \A k \in Ticker : pc[k] = "in" /\ holds[k] # Null => holds[k] = last[k]

\* assert(futures_[future_idx] && ...IsPendingOrExecuting()): whoever completes
\* a frame finds its future, not done, in the ring.
FrameFutureReady == failed # "frame_future"

\* With a ticker that never leaves, on_frame_ready_ is called once for every
\* frame, in order: each call is for the frame after the one of the call before,
\* though calls are made outside the atomic word, by different threads.
ReportedInOrder ==
  [][reported' = IF \E k \in Ticker : pc[k] = "report" /\ pc'[k] # "report"
                 THEN reported + 1 ELSE reported]_vars

\* The asserts of TRefCountPtr: a future copied from the ring has references.
CopySafe == failed # "copy"

\* Every wait ends, unless tickers join for ever or an assertion fails, which stops
\* the program: the future of an awaited frame gets done although others join, leave
\* and stall in their calls.
WaitsEnd ==
  <>[][\A k \in Ticker : ~RegisterNeededTick(k)]_vars =>
    \A k \in Ticker : (pc[k] = "in" /\ holds[k] # Null) ~>
      (pc[k] # "in" \/ Resumed(k) \/ failed # "none")
=============================================================================
