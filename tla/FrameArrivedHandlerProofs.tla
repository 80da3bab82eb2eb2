----------------------- MODULE FrameArrivedHandlerProofs -----------------------
(***************************************************************************)
(* Proofs about the frame mailbox, for any number of helpers, dispatchers  *)
(* and frames, any frame duration and any clock.                           *)
(***************************************************************************)
EXTENDS FrameArrivedHandler, FiniteSetTheorems, TLAPS

\* From the moment the processing thread has taken a frame until it has dealt with
\* it, and then only, it holds one.  TypeOK needs it: only a frame may be delivered.
HoldsFrame == proc \in {"decide", "filter", "callback"} <=> held # NoFrame

\* There is no processing thread before the owner starts it.
NotStarted == at[Owner] = "new" => proc = "none"

TypeInv == TypeOK /\ HoldsFrame /\ NotStarted

\* The shape of the state is preserved by every step of every thread.
THEOREM TypeCorrect == Spec => [](TypeOK /\ TypeInv)
<1>1. Init => TypeInv
  <2> SUFFICES ASSUME Init PROVE TypeInv
    OBVIOUS
  <2> USE HandlerAssumption DEF Init
  <2>1. at \in [Stoppers -> AtPoints]
    BY DEF AtPoints
  <2>2. stamped \in [Dispatchers -> Frames]
    BY DEF Frames
  <2>3. delivered \in Seq(Ticks)
    BY DEF Ticks
  <2>4. received \in 0..MaxFrames /\ processed \in Nat /\ dropped \in Nat
    OBVIOUS
  <2>5. QED
    BY <2>1, <2>2, <2>3, <2>4 DEF TypeInv, TypeOK, HoldsFrame, NotStarted, Frames, ProcPoints
<1>2. TypeInv /\ [Next]_vars => TypeInv'
  <2> SUFFICES ASSUME TypeInv, [Next]_vars PROVE TypeInv'
    OBVIOUS
  <2>0. Owner \in Stoppers
    BY DEF Stoppers
  <2> USE HandlerAssumption, <2>0
      DEF TypeInv, TypeOK, HoldsFrame, NotStarted, Frames, ProcPoints, AtPoints, StopPoints,
          GoTo, mailboxVars, countVars, procUnchanged, NotifyOne
  <2>1. CASE StartProcessing
    BY <2>1 DEF StartProcessing
  <2>2. CASE AddFrameArrived
    BY <2>2 DEF AddFrameArrived
  <2>3. CASE RemoveFrameArrived
    BY <2>3 DEF RemoveFrameArrived
  <2>4. CASE ReleaseHandler
    BY <2>4 DEF ReleaseHandler
  <2>5. ASSUME NEW s \in Stoppers, StopClaim(s) PROVE TypeInv'
    BY <2>5 DEF StopClaim, MayCallStop
  <2>6. ASSUME NEW s \in Stoppers, StopStep(s) PROVE TypeInv'
    <3>1. CASE StopSignal(s)
      BY <3>1 DEF StopSignal
    <3>2. CASE StopNotify(s)
      BY <3>2 DEF StopNotify
    <3>3. CASE StopJoin(s)
      BY <3>3 DEF StopJoin
    <3>4. QED
      BY <2>6, <3>1, <3>2, <3>3 DEF StopStep
  <2>7. ASSUME NEW d \in Dispatchers, InvokeStamp(d) PROVE TypeInv'
    BY <2>7 DEF InvokeStamp, Ticks
  <2>8. ASSUME NEW d \in Dispatchers, InvokeStep(d) PROVE TypeInv'
    <3>1. CASE InvokeEnqueue(d)
      <4>1. dropped' \in Nat /\ pending' \in Frames
        BY <3>1 DEF InvokeEnqueue
      <4>2. stamped' \in [Dispatchers -> Frames]
        BY <3>1 DEF InvokeEnqueue
      <4>3. proc' \in ProcPoints /\ (proc' # proc => proc' = "eval")
        BY <3>1 DEF InvokeEnqueue
      <4>4. QED
        BY <3>1, <4>1, <4>2, <4>3 DEF InvokeEnqueue
    <3>2. CASE InvokeThrows(d)
      BY <3>2 DEF InvokeThrows
    <3>3. QED
      BY <2>8, <3>1, <3>2 DEF InvokeStep
  <2>9. CASE ProcessingStep
    <3>1. CASE ComInitialize
      BY <3>1 DEF ComInitialize
    <3>2. CASE LoopTest \/ TakePending \/ LeaveLoop \/ PredicateFalse \/ Block
      BY <3>2 DEF LoopTest, TakePending, LeaveLoop, PredicateFalse, Block
    <3>3. CASE DiscardFrame \/ RunningTest \/ RejectFrame
      BY <3>3 DEF DiscardFrame, RunningTest, RejectFrame
    <3>4. CASE CallbackBegin
      <4>1. held \in Ticks
        BY <3>4 DEF CallbackBegin
      <4>2. delivered' \in Seq(Ticks)
        BY <3>4, <4>1 DEF CallbackBegin
      <4>3. QED
        BY <3>4, <4>1, <4>2 DEF CallbackBegin
    <3>5. CASE CallbackEnd
      BY <3>5 DEF CallbackEnd
    <3>6. CASE CallbackThrows
      BY <3>6 DEF CallbackThrows
    <3>7. QED
      BY <2>9, <3>1, <3>2, <3>3, <3>4, <3>5, <3>6 DEF ProcessingStep
  <2>10. CASE SpuriousWakeup
    BY <2>10 DEF SpuriousWakeup
  <2>11. CASE Terminated \/ UNCHANGED vars
    BY <2>11 DEF Terminated, vars
  <2>12. QED
    BY <2>1, <2>2, <2>3, <2>4, <2>5, <2>6, <2>7, <2>8, <2>9, <2>10, <2>11 DEF Next
<1>3. TypeInv => TypeOK
  BY DEF TypeInv
<1>4. QED
  BY <1>1, <1>2, <1>3, PTL DEF Spec
-----------------------------------------------------------------------------
(***************************************************************************)
(* Why no callback outlives Stop.  Only the thread that won the m_stopped  *)
(* exchange may signal, join and return; until the owner's last reference  *)
(* goes, that thread is still there to be found (WinnerKnown).  A Stop     *)
(* that returned has seen the processing thread over (ReturnedMeansOver),  *)
(* and the thread is never started again, since only an owner that is      *)
(* "new" starts it and no helper can act before the owner has registered   *)
(* the handler (HelpersWait).                                              *)
(***************************************************************************)
Over == proc \in {"none", "done"}

HelpersWait == at[Owner] \in {"new", "started", "failed"} => \A h \in Helpers : at[h] = "idle"

ReturnedMeansOver == \A s \in Stoppers : at[s] = "returned" => Over

StoppedKnown == at[Owner] \in {"returned", "lost", "gone"} \cup StopPoints => stopped

WinnerKnown ==
    stopped => \/ \E s \in Stoppers : at[s] \in {"returned"} \cup StopPoints
               \/ at[Owner] = "gone" /\ Over

StopInv == HelpersWait /\ ReturnedMeansOver /\ StoppedKnown /\ WinnerKnown

\* Once Stop has returned to its winner no callback runs or can begin, and when the
\* last reference goes the processing thread has ended.
THEOREM StopSafe == Spec => [](StopInv /\ NoCallbackAfterStop /\ DestroyedOnlyAfterThreadEnds)
<1> USE DEF Over, StopPoints
<1>1. Init => StopInv
  BY HandlerAssumption DEF Init, StopInv, HelpersWait, ReturnedMeansOver, StoppedKnown,
     WinnerKnown, Stoppers
<1>2. TypeOK /\ StopInv /\ [Next]_vars => StopInv'
  <2> SUFFICES ASSUME TypeOK, StopInv, [Next]_vars PROVE StopInv'
    OBVIOUS
  <2>0. /\ Owner \in Stoppers /\ Owner \notin Helpers /\ Helpers \subseteq Stoppers
        /\ at \in [Stoppers -> AtPoints]
        /\ HelpersWait /\ ReturnedMeansOver /\ StoppedKnown /\ WinnerKnown
    BY HandlerAssumption DEF Stoppers, TypeOK, StopInv
  <2> USE <2>0 DEF HelpersWait, ReturnedMeansOver, StoppedKnown, WinnerKnown
  <2>1. CASE StartProcessing
    BY <2>1 DEF StartProcessing, GoTo, StopInv, Stoppers
  <2>2. CASE AddFrameArrived
    BY <2>2 DEF AddFrameArrived, GoTo, StopInv
  <2>3. CASE RemoveFrameArrived
    BY <2>3 DEF RemoveFrameArrived, GoTo, StopInv
  <2>4. CASE ReleaseHandler
    BY <2>4 DEF ReleaseHandler, GoTo, StopInv
  <2>5. ASSUME NEW s \in Stoppers, StopClaim(s) PROVE StopInv'
    BY <2>5 DEF StopClaim, MayCallStop, GoTo, StopInv, Stoppers
  <2>6. ASSUME NEW s \in Stoppers, StopStep(s) PROVE StopInv'
    <3>1. CASE StopSignal(s)
      BY <3>1 DEF StopSignal, GoTo, StopInv
    <3>2. CASE StopNotify(s)
      BY <3>2 DEF StopNotify, NotifyOne, GoTo, StopInv
    <3>3. CASE StopJoin(s)
      BY <3>3 DEF StopJoin, GoTo, StopInv
    <3>4. QED
      BY <2>6, <3>1, <3>2, <3>3 DEF StopStep
  <2>7. ASSUME UNCHANGED << at, stopped >>, Over => Over' PROVE StopInv'
    BY <2>7 DEF StopInv
  <2>8. ASSUME NEW d \in Dispatchers, InvokeStamp(d) \/ InvokeStep(d) PROVE StopInv'
    BY <2>7, <2>8 DEF InvokeStamp, InvokeStep, InvokeEnqueue, InvokeThrows, NotifyOne
  <2>9. CASE ProcessingStep \/ SpuriousWakeup
    BY <2>7, <2>9 DEF ProcessingStep, procUnchanged, ComInitialize, LoopTest, TakePending,
       LeaveLoop, PredicateFalse, Block, DiscardFrame, RunningTest, RejectFrame, CallbackBegin,
       CallbackEnd, CallbackThrows, SpuriousWakeup
  <2>10. CASE Terminated \/ UNCHANGED vars
    BY <2>7, <2>10 DEF Terminated, vars
  <2>11. QED
    BY <2>1, <2>2, <2>3, <2>4, <2>5, <2>6, <2>8, <2>9, <2>10 DEF Next
<1>3. TypeOK /\ StopInv => NoCallbackAfterStop /\ DestroyedOnlyAfterThreadEnds
  BY DEF StopInv, NoCallbackAfterStop, DestroyedOnlyAfterThreadEnds, Destroyed,
     ReturnedMeansOver, StoppedKnown, WinnerKnown, Stoppers
<1>4. QED
  BY <1>1, <1>2, <1>3, TypeCorrect, PTL DEF Spec
-----------------------------------------------------------------------------
(***************************************************************************)
(* Why delivered frames are spaced: the admission filter remembers exactly *)
(* the last frame that was delivered.                                      *)
(***************************************************************************)
FilterFollows ==
    delivered # << >> => lastAccepted = delivered[Len(delivered)]

\* Frames are delivered with increasing timestamps at least a frame duration apart,
\* for every clock and every interleaving of the dispatchers.
THEOREM DeliveredSpacedCorrect == Spec => []DeliveredSpaced
<1>1. Init => FilterFollows /\ DeliveredSpaced
  BY DEF Init, FilterFollows, DeliveredSpaced
<1>2. /\ TypeInv /\ FilterFollows /\ DeliveredSpaced /\ [Next]_vars
      => (FilterFollows /\ DeliveredSpaced)'
  <2> SUFFICES ASSUME TypeInv, FilterFollows, DeliveredSpaced, [Next]_vars
               PROVE  (FilterFollows /\ DeliveredSpaced)'
    OBVIOUS
  <2> USE DEF TypeInv
  <2>1. CASE CallbackBegin
    <3>1. /\ held \in Ticks /\ Ticks \subseteq Int /\ delivered \in Seq(Ticks)
          /\ lastAccepted' = held /\ delivered' = Append(delivered, held)
          /\ lastAccepted # NoFrame => held - lastAccepted >= FrameDuration
      <4>1. held \in Ticks /\ Ticks \subseteq Int
        BY <2>1, HandlerAssumption DEF CallbackBegin, TypeOK, HoldsFrame, Frames, Ticks
      <4>2. QED
        BY <2>1, <4>1 DEF CallbackBegin, ShouldAccept, TypeOK
    <3>2. /\ Len(delivered') = Len(delivered) + 1
          /\ delivered'[Len(delivered) + 1] = held
          /\ \A i \in 1..Len(delivered) : delivered'[i] = delivered[i]
      BY <3>1
    <3>3. FilterFollows'
      BY <3>1, <3>2 DEF FilterFollows
    <3>4. ASSUME NEW i \in 1..Len(delivered) PROVE delivered'[i + 1] - delivered'[i] >= FrameDuration
      <4>1. CASE i = Len(delivered)
        <5>1. lastAccepted = delivered[i] /\ delivered[i] \in Int
          <6>1. delivered # << >> /\ delivered[i] \in Ticks
            BY <3>1
          <6>2. QED
            BY <3>1, <4>1, <6>1 DEF FilterFollows
        <5>2. lastAccepted # NoFrame
          BY <5>1, HandlerAssumption
        <5>3. QED
          BY <3>1, <3>2, <4>1, <5>1, <5>2
      <4>2. CASE i # Len(delivered)
        BY <3>1, <3>2, <4>2 DEF DeliveredSpaced
      <4>3. QED
        BY <4>1, <4>2
    <3>5. DeliveredSpaced'
      BY <3>1, <3>2, <3>4 DEF DeliveredSpaced
    <3>6. QED
      BY <3>3, <3>5
  <2>2. CASE UNCHANGED << delivered, lastAccepted >>
    BY <2>2 DEF FilterFollows, DeliveredSpaced
  <2>3. CASE ProcessingStep \/ SpuriousWakeup
    BY <2>1, <2>2, <2>3 DEF ProcessingStep, mailboxVars, ComInitialize, LoopTest, TakePending,
       LeaveLoop, PredicateFalse, Block, DiscardFrame, RunningTest, RejectFrame, CallbackEnd,
       CallbackThrows, SpuriousWakeup
  <2>4. ASSUME NEW s \in Stoppers, StopClaim(s) \/ StopStep(s)
        PROVE  UNCHANGED << delivered, lastAccepted >>
    BY <2>4 DEF StopClaim, StopStep, StopSignal, StopNotify, StopJoin, mailboxVars
  <2>5. ASSUME NEW d \in Dispatchers, InvokeStamp(d) \/ InvokeStep(d)
        PROVE  UNCHANGED << delivered, lastAccepted >>
    BY <2>5 DEF InvokeStamp, InvokeStep, InvokeEnqueue, InvokeThrows, mailboxVars
  <2>6. CASE StartProcessing \/ AddFrameArrived \/ RemoveFrameArrived \/ ReleaseHandler
    BY <2>2, <2>6 DEF StartProcessing, AddFrameArrived, RemoveFrameArrived, ReleaseHandler,
       mailboxVars
  <2>7. CASE Terminated \/ UNCHANGED vars
    BY <2>2, <2>7 DEF Terminated, vars
  <2>8. QED
    BY <2>2, <2>3, <2>4, <2>5, <2>6, <2>7 DEF Next
<1>3. QED
  BY <1>1, <1>2, TypeCorrect, PTL DEF Spec
-----------------------------------------------------------------------------
(***************************************************************************)
(* Why every frame is accounted for: each step moves one frame between the *)
(* places a frame can be, except where the handler stops.  StopJoin empties*)
(* the mailbox uncounted, but only after running is false.                 *)
(***************************************************************************)
SignalledMeansStopped ==
    \A s \in Stoppers : at[s] \in {"notify", "join", "returned"} => ~running

\* A dispatcher that stamps a frame adds one to those stamping, one that enqueues it
\* takes one away.
LEMMA StampingCount ==
    ASSUME TypeOK
    PROVE  /\ IsFiniteSet(Stamping) /\ Cardinality(Stamping) \in Nat
           /\ \A d \in Dispatchers, f \in Ticks :
                 stamped[d] = NoFrame /\ stamped' = [stamped EXCEPT ![d] = f]
                     => Cardinality(Stamping') = Cardinality(Stamping) + 1
           /\ \A d \in Dispatchers :
                 stamped[d] # NoFrame /\ stamped' = [stamped EXCEPT ![d] = NoFrame]
                     => Cardinality(Stamping') = Cardinality(Stamping) - 1
<1>1. IsFiniteSet(Stamping) /\ Cardinality(Stamping) \in Nat
  BY HandlerAssumption, FS_Subset, FS_CardinalityType DEF Stamping
<1>2. ASSUME NEW d \in Dispatchers, NEW f \in Ticks, stamped[d] = NoFrame,
             stamped' = [stamped EXCEPT ![d] = f]
      PROVE  Cardinality(Stamping') = Cardinality(Stamping) + 1
  <2>1. f # NoFrame
    BY HandlerAssumption DEF Ticks
  <2>2. Stamping' = Stamping \cup {d} /\ d \notin Stamping
    BY <1>2, <2>1 DEF Stamping, TypeOK
  <2>3. QED
    BY <1>1, <2>2, FS_AddElement
<1>3. ASSUME NEW d \in Dispatchers, stamped[d] # NoFrame,
             stamped' = [stamped EXCEPT ![d] = NoFrame]
      PROVE  Cardinality(Stamping') = Cardinality(Stamping) - 1
  <2>1. Stamping' = Stamping \ {d} /\ d \in Stamping
    BY <1>3 DEF Stamping, TypeOK
  <2>2. QED
    BY <1>1, <2>1, FS_RemoveElement
<1>4. QED
  BY <1>1, <1>2, <1>3

\* While the handler runs, received = processed + dropped + in flight, for any number of
\* dispatchers and frames.
THEOREM EveryFrameAccountedCorrect == Spec => [](SignalledMeansStopped /\ EveryFrameAccounted)
<1> DEFINE Inv == SignalledMeansStopped /\ EveryFrameAccounted
<1>1. Init => Inv
  <2> SUFFICES ASSUME Init PROVE Inv
    OBVIOUS
  <2>1. Stamping = {}
    BY DEF Init, Stamping
  <2>2. InFlight = 0
    BY <2>1, FS_EmptySet DEF Init, InFlight, Present
  <2>3. QED
    BY <2>2 DEF Init, SignalledMeansStopped, EveryFrameAccounted, Stoppers
<1>2. TypeInv /\ Inv /\ [Next]_vars => Inv'
  <2> SUFFICES ASSUME TypeInv, Inv, [Next]_vars PROVE Inv'
    OBVIOUS
  <2> USE DEF TypeInv
  <2> DEFINE frames == << stamped, pending, held, received, processed, dropped >>
  <2>0. /\ at \in [Stoppers -> AtPoints] /\ stamped \in [Dispatchers -> Frames]
        /\ received \in Int /\ processed \in Int /\ dropped \in Int
        /\ Cardinality(Stamping) \in Int
        /\ NoFrame \notin Ticks
    <3>1. Cardinality(Stamping) \in Nat
      BY StampingCount
    <3>2. QED
      BY <3>1, HandlerAssumption DEF TypeOK, Ticks
  <2>1. ASSUME UNCHANGED frames, running' => running
        PROVE  EveryFrameAccounted'
    BY <2>1 DEF EveryFrameAccounted, InFlight, Stamping, Present
  <2>2. ASSUME UNCHANGED at, running' => running
        PROVE  SignalledMeansStopped'
    BY <2>2 DEF SignalledMeansStopped
  <2>3. CASE StartProcessing \/ AddFrameArrived \/ RemoveFrameArrived \/ ReleaseHandler
    <3>1. UNCHANGED frames /\ (running' => running)
      BY <2>3 DEF StartProcessing, AddFrameArrived, RemoveFrameArrived, ReleaseHandler,
         mailboxVars, countVars
    <3>2. SignalledMeansStopped'
      BY <2>0, <2>3 DEF StartProcessing, AddFrameArrived, RemoveFrameArrived,
         ReleaseHandler, GoTo, SignalledMeansStopped
    <3>3. QED
      BY <2>1, <3>1, <3>2
  <2>4. ASSUME NEW s \in Stoppers, StopClaim(s) \/ StopSignal(s) \/ StopNotify(s)
        PROVE  Inv'
    <3>1. UNCHANGED frames /\ (running' => running)
      BY <2>4 DEF StopClaim, StopSignal, StopNotify, mailboxVars, countVars
    <3>2. SignalledMeansStopped'
      BY <2>0, <2>4 DEF StopClaim, StopSignal, StopNotify, GoTo, SignalledMeansStopped
    <3>3. QED
      BY <2>1, <3>1, <3>2
  <2>5. ASSUME NEW s \in Stoppers, StopJoin(s) PROVE Inv'
    <3>1. ~running' /\ SignalledMeansStopped'
      BY <2>0, <2>5 DEF StopJoin, GoTo, SignalledMeansStopped
    <3>2. QED
      BY <3>1 DEF EveryFrameAccounted
  <2>6. ASSUME NEW d \in Dispatchers, InvokeStamp(d) PROVE Inv'
    <3>1. PICK t \in Ticks : stamped' = [stamped EXCEPT ![d] = t]
      BY <2>6 DEF InvokeStamp
    <3>2. Cardinality(Stamping') = Cardinality(Stamping) + 1
      BY <2>6, <3>1, StampingCount DEF InvokeStamp
    <3>3. EveryFrameAccounted'
      BY <2>0, <2>6, <3>2 DEF InvokeStamp, mailboxVars, EveryFrameAccounted, InFlight, Present
    <3>4. QED
      BY <2>2, <2>6, <3>3 DEF InvokeStamp
  <2>7. ASSUME NEW d \in Dispatchers, InvokeEnqueue(d) PROVE Inv'
    <3>1. Cardinality(Stamping') = Cardinality(Stamping) - 1
      BY <2>7, StampingCount DEF InvokeEnqueue
    <3>2. EveryFrameAccounted'
      BY <2>0, <2>7, <3>1 DEF InvokeEnqueue, EveryFrameAccounted, InFlight, Present
    <3>3. QED
      BY <2>2, <2>7, <3>2 DEF InvokeEnqueue
  <2>8. ASSUME NEW d \in Dispatchers, InvokeThrows(d) PROVE Inv'
    BY <2>2, <2>8 DEF InvokeThrows, EveryFrameAccounted
  <2>9. CASE ProcessingStep
    <3>1. UNCHANGED << at, stamped, received >> /\ (running' => running)
      BY <2>9 DEF ProcessingStep, procUnchanged, ComInitialize, LoopTest, TakePending,
         LeaveLoop, PredicateFalse, Block, DiscardFrame, RunningTest, RejectFrame, CallbackBegin,
         CallbackEnd, CallbackThrows
    <3>2. CASE ComInitialize \/ LoopTest \/ LeaveLoop \/ PredicateFalse \/ Block
               \/ RunningTest \/ CallbackBegin
      BY <2>1, <2>2, <3>1, <3>2 DEF ComInitialize, LoopTest, RunningTest, LeaveLoop, PredicateFalse, Block,
         CallbackBegin, mailboxVars
    <3>3. CASE DiscardFrame \/ CallbackThrows
      BY <2>2, <3>1, <3>3 DEF DiscardFrame, CallbackThrows, EveryFrameAccounted
    <3>4. CASE TakePending
      <4>1. Stamping' = Stamping /\ UNCHANGED << processed, dropped, running >>
        BY <3>1, <3>4 DEF Stamping, TakePending
      <4>2. pending # NoFrame /\ pending' = NoFrame /\ held = NoFrame /\ held' # NoFrame
        BY <3>4 DEF TakePending, HoldsFrame
      <4>3. EveryFrameAccounted'
        BY <2>0, <3>1, <4>1, <4>2 DEF EveryFrameAccounted, InFlight, Present
      <4>4. QED
        BY <2>2, <3>1, <4>3
    <3>5. CASE RejectFrame \/ CallbackEnd
      <4>1. Stamping' = Stamping /\ UNCHANGED << pending, running >>
        BY <3>1, <3>5 DEF Stamping, RejectFrame, CallbackEnd
      <4>2. held # NoFrame /\ held' = NoFrame
        BY <3>5 DEF RejectFrame, CallbackEnd, HoldsFrame
      <4>3. \/ processed' = processed + 1 /\ dropped' = dropped
            \/ processed' = processed /\ dropped' = dropped + 1
        BY <3>5 DEF RejectFrame, CallbackEnd
      <4>4. EveryFrameAccounted'
        BY <2>0, <3>1, <4>1, <4>2, <4>3 DEF EveryFrameAccounted, InFlight, Present
      <4>5. QED
        BY <2>2, <3>1, <4>4
    <3>6. QED
      BY <2>9, <3>2, <3>3, <3>4, <3>5 DEF ProcessingStep
  <2>10. CASE SpuriousWakeup \/ Terminated \/ UNCHANGED vars
    BY <2>1, <2>2, <2>10 DEF SpuriousWakeup, procUnchanged, mailboxVars, Terminated, vars
  <2>11. QED
    BY <2>3, <2>4, <2>5, <2>6, <2>7, <2>8, <2>9, <2>10 DEF Next, StopStep, InvokeStep
<1>3. QED
  BY <1>1, <1>2, TypeCorrect, PTL DEF Spec
-----------------------------------------------------------------------------
(***************************************************************************)
(* Why the processing thread neither sleeps over a frame nor lingers under *)
(* a Stop.  The mutex keeps a frame from being stored between the wait's   *)
(* predicate and the sleep, and the notify that follows a frame ends the   *)
(* sleep; whoever is about to join has cleared m_running before.           *)
(***************************************************************************)

\* The processing thread never sleeps, or goes to sleep, over a frame in the mailbox.
THEOREM SleepsOnlyWhenEmptyCorrect == Spec => []SleepsOnlyWhenEmpty
<1>1. Init => SleepsOnlyWhenEmpty
  BY DEF Init, SleepsOnlyWhenEmpty
<1>2. SleepsOnlyWhenEmpty /\ [Next]_vars => SleepsOnlyWhenEmpty'
  <2> SUFFICES ASSUME SleepsOnlyWhenEmpty, [Next]_vars PROVE SleepsOnlyWhenEmpty'
    OBVIOUS
  <2> USE DEF SleepsOnlyWhenEmpty, mailboxVars
  <2>1. CASE StartProcessing \/ AddFrameArrived \/ RemoveFrameArrived \/ ReleaseHandler
    BY <2>1 DEF StartProcessing, AddFrameArrived, RemoveFrameArrived, ReleaseHandler
  <2>2. ASSUME NEW s \in Stoppers, StopClaim(s) \/ StopStep(s) PROVE SleepsOnlyWhenEmpty'
    BY <2>2 DEF StopClaim, StopStep, StopSignal, StopNotify, StopJoin, NotifyOne
  <2>3. ASSUME NEW d \in Dispatchers, InvokeStamp(d) \/ InvokeStep(d)
        PROVE  SleepsOnlyWhenEmpty'
    BY <2>3 DEF InvokeStamp, InvokeStep, InvokeEnqueue, InvokeThrows, NotifyOne, QueueMutexFree
  <2>4. CASE ProcessingStep \/ SpuriousWakeup
    BY <2>4 DEF ProcessingStep, ComInitialize, LoopTest, TakePending, LeaveLoop,
       PredicateFalse, Block, DiscardFrame, RunningTest, RejectFrame, CallbackBegin, CallbackEnd,
       CallbackThrows, SpuriousWakeup
  <2>5. CASE Terminated \/ UNCHANGED vars
    BY <2>5 DEF Terminated, vars
  <2>6. QED
    BY <2>1, <2>2, <2>3, <2>4, <2>5 DEF Next
<1>3. QED
  BY <1>1, <1>2, PTL DEF Spec

\* A thread that runs under a Stop about to join it takes three more steps at most.
THEOREM JoinedThreadEndsCorrect == Spec => JoinedThreadEnds
<1> DEFINE Joining == \E s \in Stoppers : at[s] = "join" /\ at'[s] = "join"
           Step == Joining /\ ~Asleep
                     => ~Asleep' /\ (UNCHANGED proc \/ StepsLeft[proc'] < StepsLeft[proc])
<1>1. TypeOK /\ StopInv /\ SignalledMeansStopped /\ [Next]_vars => Step
  <2> SUFFICES ASSUME TypeOK, StopInv, SignalledMeansStopped, [Next]_vars, Joining, ~Asleep
               PROVE  ~Asleep' /\ (UNCHANGED proc \/ StepsLeft[proc'] < StepsLeft[proc])
    OBVIOUS
  <2>1. ~running
    BY DEF SignalledMeansStopped
  <2>2. at[Owner] # "new"
    BY DEF StopInv, HelpersWait, Stoppers
  <2>3. /\ StepsLeft["done"] = 0 /\ StepsLeft["loop"] = 1
        /\ StepsLeft["eval"] = 3 /\ StepsLeft["filter"] = 3
        /\ \A p \in {"begin", "decide", "callback"} : StepsLeft[p] = 2
    BY DEF StepsLeft, ProcPoints
  <2>4. CASE UNCHANGED proc
    BY <2>4 DEF Asleep
  <2>5. CASE ProcessingStep
    BY <2>1, <2>3, <2>5 DEF Asleep, ProcessingStep, ComInitialize, LoopTest, TakePending,
       LeaveLoop, PredicateFalse, Block, DiscardFrame, RunningTest, RejectFrame, CallbackBegin,
       CallbackEnd, CallbackThrows
  <2>6. CASE StartProcessing \/ AddFrameArrived \/ RemoveFrameArrived \/ ReleaseHandler
    BY <2>2, <2>4, <2>6 DEF StartProcessing, AddFrameArrived, RemoveFrameArrived, ReleaseHandler
  <2>7. ASSUME NEW s \in Stoppers, StopClaim(s) \/ StopStep(s) PROVE UNCHANGED proc
    BY <2>7 DEF StopClaim, StopStep, StopSignal, StopNotify, StopJoin, NotifyOne, Asleep
  <2>8. ASSUME NEW d \in Dispatchers, InvokeStamp(d) \/ InvokeStep(d) PROVE UNCHANGED proc
    BY <2>8 DEF InvokeStamp, InvokeStep, InvokeEnqueue, InvokeThrows, NotifyOne, Asleep
  <2>9. CASE SpuriousWakeup
    BY <2>9 DEF SpuriousWakeup, Asleep
  <2>10. CASE Terminated \/ UNCHANGED vars
    BY <2>4, <2>10 DEF Terminated, vars
  <2>11. QED
    BY <2>4, <2>5, <2>6, <2>7, <2>8, <2>9, <2>10 DEF Next
<1>2. QED
  BY <1>1, TypeCorrect, StopSafe, EveryFrameAccountedCorrect, PTL DEF Spec, JoinedThreadEnds
-----------------------------------------------------------------------------
(***************************************************************************)
(* The handler implements a capture source.  The source's phase is a       *)
(* function of m_running, the processing thread and the calls of Stop, so  *)
(* each step is shown to be a step of the source or to change neither the  *)
(* phase nor whether a delivery is in progress.                            *)
(***************************************************************************)
Phase == IF StopReturned THEN "stopped"
         ELSE IF proc = "none" THEN "new"
         ELSE IF running THEN "running" ELSE "stopping"

Delivery == IF proc = "filter" THEN "admitted"
            ELSE IF proc = "callback" THEN "begun" ELSE "none"

\* Before the owner starts the handler nothing has happened to it.
NothingYet ==
    at[Owner] = "new" =>
        /\ running /\ ~stopped /\ ~registered
        /\ proc = "none"
        /\ \A d \in Dispatchers : stamped[d] = NoFrame

\* Whatever the threads do, what the owner sees of the handler is what a capture source
\* does.
THEOREM ImplementsSourceCorrect == Spec => ImplementsSource
<1> USE DEF StopPoints
<1>1. Init => NothingYet /\ Source!Init
  BY HandlerAssumption DEF Init, NothingYet, Source!Init, StopReturned
<1>2. TypeOK /\ StopInv /\ NothingYet /\ [Next]_vars => NothingYet'
  <2> SUFFICES ASSUME TypeOK, StopInv, NothingYet, [Next]_vars, at'[Owner] = "new"
               PROVE  UNCHANGED << running, stopped, registered, proc, stamped, at >>
    BY DEF NothingYet
  <2>0. at \in [Stoppers -> AtPoints] /\ Owner \in Stoppers
    BY DEF TypeOK, Stoppers
  <2> USE <2>0 DEF NothingYet, GoTo
  <2>1. CASE StartProcessing \/ AddFrameArrived \/ RemoveFrameArrived \/ ReleaseHandler
    BY <2>1 DEF StartProcessing, AddFrameArrived, RemoveFrameArrived, ReleaseHandler
  <2>2. ASSUME NEW s \in Stoppers, StopClaim(s) \/ StopStep(s) PROVE FALSE
    <3>1. CASE s = Owner
      BY <2>2, <3>1 DEF StopClaim, MayCallStop, StopStep, StopSignal, StopNotify, StopJoin
    <3>2. CASE s # Owner
      <4>1. s \in Helpers /\ at[Owner] = "new" /\ at[s] = "idle"
        BY <2>2, <3>2 DEF Stoppers, StopClaim, StopStep, StopSignal, StopNotify, StopJoin,
           StopInv, HelpersWait
      <4>2. QED
        BY <2>2, <3>2, <4>1 DEF StopClaim, MayCallStop, StopStep, StopSignal, StopNotify, StopJoin
    <3>3. QED
      BY <3>1, <3>2
  <2>3. ASSUME NEW d \in Dispatchers, InvokeStamp(d) \/ InvokeStep(d) PROVE FALSE
    BY <2>3 DEF InvokeStamp, InvokeStep, InvokeEnqueue, InvokeThrows
  <2>4. CASE ProcessingStep \/ SpuriousWakeup
    BY <2>4 DEF ProcessingStep, procUnchanged, ComInitialize, LoopTest, TakePending, LeaveLoop,
       PredicateFalse, Block, DiscardFrame, RunningTest, RejectFrame, CallbackBegin, CallbackEnd,
       CallbackThrows, SpuriousWakeup
  <2>5. CASE Terminated \/ UNCHANGED vars
    BY <2>5 DEF Terminated, vars
  <2>6. QED
    BY <2>1, <2>2, <2>3, <2>4, <2>5 DEF Next
<1>3. /\ TypeOK /\ StopInv /\ SignalledMeansStopped /\ NothingYet /\ [Next]_vars
      => [Source!Next]_(Source!sourceVars)
  <2> SUFFICES ASSUME TypeOK, StopInv, SignalledMeansStopped, NothingYet, [Next]_vars
               PROVE  Source!Next \/ UNCHANGED << Phase, Delivery >>
    BY DEF Source!sourceVars, Phase, Delivery
  <2>0. at \in [Stoppers -> AtPoints] /\ Owner \in Stoppers
    BY DEF TypeOK, Stoppers
  <2> USE <2>0
  <2>1. StopReturned => Over
    BY DEF StopReturned, StopInv, WinnerKnown, ReturnedMeansOver, Over
  <2>2. ASSUME UNCHANGED << at, stopped >> PROVE StopReturned' = StopReturned
    BY <2>2 DEF StopReturned
  <2>3. CASE StartProcessing
    <3>1. ~StopReturned /\ ~StopReturned' /\ running /\ proc = "none"
      BY <2>3 DEF StartProcessing, NothingYet, StopReturned
    <3>2. (proc' = "begin" /\ running') \/ proc' = "none"
      BY <2>3, <3>1 DEF StartProcessing
    <3>3. QED
      BY <3>1, <3>2 DEF Phase, Delivery, Source!Next, Source!Start
  <2>4. CASE AddFrameArrived \/ RemoveFrameArrived \/ ReleaseHandler
    <3>1. StopReturned' = StopReturned
      BY <2>4 DEF AddFrameArrived, RemoveFrameArrived, ReleaseHandler, GoTo, StopReturned, AtPoints
    <3>2. QED
      BY <2>4, <3>1 DEF AddFrameArrived, RemoveFrameArrived, ReleaseHandler, Phase, Delivery
  <2>5. ASSUME NEW s \in Stoppers, StopClaim(s) PROVE UNCHANGED << Phase, Delivery >>
    <3>1. StopReturned' = StopReturned
      BY <2>5 DEF StopClaim, MayCallStop, GoTo, StopReturned, AtPoints
    <3>2. QED
      BY <2>5, <3>1 DEF StopClaim, Phase, Delivery
  <2>6. ASSUME NEW s \in Stoppers, StopSignal(s)
        PROVE  Source!Next \/ UNCHANGED << Phase, Delivery >>
    <3>1. ~StopReturned /\ ~StopReturned'
      BY <2>6 DEF StopSignal, GoTo, StopReturned, AtPoints
    <3>2. proc' = proc /\ ~running'
      BY <2>6 DEF StopSignal
    <3>3. QED
      BY <3>1, <3>2 DEF Phase, Delivery, Source!Next, Source!AskStop
  <2>7. ASSUME NEW s \in Stoppers, StopNotify(s) PROVE UNCHANGED << Phase, Delivery >>
    <3>1. ~StopReturned /\ ~StopReturned'
      BY <2>7 DEF StopNotify, GoTo, StopReturned, AtPoints
    <3>2. QED
      BY <2>7, <3>1 DEF StopNotify, NotifyOne, Phase, Delivery
  <2>8. ASSUME NEW s \in Stoppers, StopJoin(s)
        PROVE  Source!Next \/ UNCHANGED << Phase, Delivery >>
    <3>1. /\ ~StopReturned /\ proc' = proc /\ running' = running
          /\ proc \notin {"filter", "callback"}
      BY <2>8 DEF StopJoin, StopReturned
    <3>2. QED
      BY <3>1 DEF Phase, Delivery, Source!Next, Source!Stopped
  <2>9. ASSUME NEW d \in Dispatchers, InvokeStamp(d) \/ InvokeEnqueue(d)
        PROVE  UNCHANGED << Phase, Delivery >>
    BY <2>2, <2>9 DEF InvokeStamp, InvokeEnqueue, NotifyOne, mailboxVars, Phase, Delivery
  <2>10. ASSUME NEW d \in Dispatchers, InvokeThrows(d)
         PROVE  Source!Next \/ UNCHANGED << Phase, Delivery >>
    BY <2>2, <2>10 DEF InvokeThrows, NotifyOne, Phase, Delivery, Source!Next, Source!AskStop
  <2>11. CASE ProcessingStep
    <3>1. StopReturned' = StopReturned
      BY <2>2, <2>11 DEF ProcessingStep, procUnchanged, ComInitialize, LoopTest, TakePending,
         LeaveLoop, PredicateFalse, Block, DiscardFrame, RunningTest, RejectFrame, CallbackBegin,
         CallbackEnd, CallbackThrows
    <3>2. ~StopReturned
      BY <2>1, <2>11 DEF Over, ProcessingStep, ComInitialize, LoopTest, TakePending, LeaveLoop,
         PredicateFalse, Block, DiscardFrame, RunningTest, RejectFrame, CallbackBegin, CallbackEnd,
         CallbackThrows
    <3>3. CASE ComInitialize
      BY <3>1, <3>2, <3>3 DEF ComInitialize, Phase, Delivery, Source!Next, Source!AskStop
    <3>4. CASE LoopTest \/ TakePending \/ LeaveLoop \/ PredicateFalse \/ Block
      BY <3>1, <3>2, <3>4 DEF LoopTest, TakePending, LeaveLoop, PredicateFalse, Block,
         mailboxVars, Phase, Delivery
    <3>5. CASE DiscardFrame \/ RunningTest
      BY <3>1, <3>2, <3>5 DEF DiscardFrame, RunningTest, Phase, Delivery, Source!Next,
         Source!Admit
    <3>6. CASE CallbackBegin
      BY <3>1, <3>2, <3>6 DEF CallbackBegin, Phase, Delivery, Source!Next, Source!Deliver
    <3>7. CASE RejectFrame \/ CallbackEnd \/ CallbackThrows
      BY <3>1, <3>2, <3>7 DEF RejectFrame, CallbackEnd, CallbackThrows, Phase, Delivery, Source!Next, Source!Delivered
    <3>8. QED
      BY <2>11, <3>3, <3>4, <3>5, <3>6, <3>7 DEF ProcessingStep
  <2>12. CASE SpuriousWakeup \/ Terminated \/ UNCHANGED vars
    BY <2>2, <2>12 DEF SpuriousWakeup, procUnchanged, mailboxVars, Terminated, vars, Phase, Delivery
  <2>13. QED
    BY <2>3, <2>4, <2>5, <2>6, <2>7, <2>8, <2>9, <2>10, <2>11, <2>12
       DEF Next, StopStep, InvokeStep
<1>4. QED
  BY <1>1, <1>2, <1>3, TypeCorrect, StopSafe, EveryFrameAccountedCorrect, PTL
     DEF Spec, ImplementsSource, Source!Spec
=============================================================================
