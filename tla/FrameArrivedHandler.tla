-------------------------- MODULE FrameArrivedHandler --------------------------
(***************************************************************************)
(* The video frame mailbox (FrameArrivedHandler.cpp) and the admission     *)
(* filter it owns (FrameAdmissionController.h).                            *)
(*                                                                         *)
(* Four kinds of threads share one handler object:                         *)
(*   - the owner, which registers the handler, removes the event           *)
(*     registration, calls Stop and drops its reference                    *)
(*     (WindowsDesktopVideoCaptureSource::Start and ::Stop);               *)
(*   - helpers, further callers of Stop, which the header allows;          *)
(*   - dispatchers, threads of the frame pool that call Invoke.  An Invoke *)
(*     that began before remove_FrameArrived may still be running after it;*)
(*   - the processing thread, which waits on the condition variable, takes *)
(*     the pending frame and calls the session's callback.                 *)
(*                                                                         *)
(* A frame is its timestamp.  The clock is read through GetFrameTimestamp, *)
(* whose result changes its time base while recording (audio time when it  *)
(* is positive, QPC time otherwise), so a timestamp is any tick.           *)
(***************************************************************************)
EXTENDS Integers, Sequences, FiniteSets

CONSTANTS Owner,         \* the thread that registers, stops and releases the handler
          Helpers,       \* other threads that may call Stop
          Dispatchers,   \* frame-pool threads that call Invoke
          FrameDuration, \* m_targetFrameDurationTicks
          MaxTime,       \* bound: timestamps are 0..MaxTime
          MaxFrames,     \* bound: number of frames the pool produces
          NoFrame        \* an empty std::optional<QueuedFrame>

Stoppers == Helpers \cup {Owner}
Ticks    == 0..MaxTime

ASSUME HandlerAssumption ==
    /\ Owner \notin Helpers
    /\ FrameDuration \in Nat \ {0}
    /\ MaxTime \in Nat
    /\ MaxFrames \in Nat
    /\ NoFrame \notin Int
    /\ IsFiniteSet(Dispatchers)

VARIABLES
    running,     \* m_running
    stopped,     \* m_stopped
    registered,  \* the frame pool holds the handler as its FrameArrived delegate
    pending,     \* m_pendingFrame
    stamped,     \* the frame of an Invoke that has not yet taken m_queueMutex
    proc,        \* where the processing thread is
    held,        \* the frame the processing thread took from the mailbox
    lastAccepted,\* m_lastAcceptedTimestamp, NoFrame while !m_hasAcceptedFrame
    received,    \* m_receivedFrameCount
    processed,   \* m_processedFrameCount
    dropped,     \* m_droppedFrameCount
    at,          \* where each caller of Stop is
    delivered    \* history: the timestamps handed to m_callback

vars == << running, stopped, registered, pending, stamped, proc, held,
           lastAccepted, received, processed, dropped, at, delivered >>

(***************************************************************************)
(* Control points.  "blocking" is the gap inside condition_variable::wait  *)
(* between evaluating the predicate and going to sleep: m_queueMutex is    *)
(* held, the thread is not yet a waiter, and a notify is lost.             *)
(***************************************************************************)
ProcPoints == {"none", "begin", "loop", "eval", "blocking", "blocked",
               "decide", "filter", "callback", "done"}
StopPoints == {"signal", "notify", "join"}
AtPoints   == {"new", "started", "live", "removed", "failed", "idle",
               "returned", "lost", "gone"} \cup StopPoints

QueueMutexFree == proc # "blocking"

\* The condition variable's waiters are woken one at a time; there is one.
NotifyOne == IF proc = "blocked" THEN proc' = "eval" ELSE UNCHANGED proc

Init ==
    /\ running = TRUE
    /\ stopped = FALSE
    /\ registered = FALSE
    /\ pending = NoFrame
    /\ stamped = [d \in Dispatchers |-> NoFrame]
    /\ proc = "none"
    /\ held = NoFrame
    /\ lastAccepted = NoFrame
    /\ received = 0
    /\ processed = 0
    /\ dropped = 0
    /\ at = [s \in Stoppers |-> IF s = Owner THEN "new" ELSE "idle"]
    /\ delivered = << >>

mailboxVars == << pending, held, lastAccepted, processed, delivered >>
countVars   == << received, dropped >>

-----------------------------------------------------------------------------
(* RegisterFrameArrivedHandler and WindowsDesktopVideoCaptureSource::Stop,  *)
(* the owner's side.                                                        *)

GoTo(s, p) == at' = [at EXCEPT ![s] = p]

\* std::thread is created, or its constructor throws and the handler is released.
StartProcessing ==
    /\ at[Owner] = "new"
    /\ \/ proc' = "begin" /\ GoTo(Owner, "started") /\ UNCHANGED running
       \/ running' = FALSE /\ GoTo(Owner, "failed") /\ UNCHANGED proc
    /\ UNCHANGED << stopped, registered, stamped, mailboxVars, countVars >>

\* framePool->add_FrameArrived succeeds, or fails and the last Release follows.
AddFrameArrived ==
    /\ at[Owner] = "started"
    /\ \/ registered' = TRUE /\ GoTo(Owner, "live")
       \/ GoTo(Owner, "failed") /\ UNCHANGED registered
    /\ UNCHANGED << running, stopped, stamped, proc, mailboxVars, countVars >>

RemoveFrameArrived ==
    /\ at[Owner] = "live"
    /\ registered' = FALSE
    /\ GoTo(Owner, "removed")
    /\ UNCHANGED << running, stopped, stamped, proc, mailboxVars, countVars >>

\* m_frameHandler.reset(): the owner's reference goes away after its Stop.
ReleaseHandler ==
    /\ at[Owner] \in {"returned", "lost"}
    /\ GoTo(Owner, "gone")
    /\ UNCHANGED << running, stopped, registered, stamped, proc, mailboxVars, countVars >>

-----------------------------------------------------------------------------
(* Stop, and the destructor's call of it after a failed registration.       *)

MayCallStop(s) ==
    IF s = Owner THEN at[s] \in {"removed", "failed"}
                 ELSE at[s] = "idle" /\ at[Owner] \in {"live", "removed"} \cup StopPoints

\* The compare_exchange on m_stopped: only one caller goes on.
StopClaim(s) ==
    /\ MayCallStop(s)
    /\ stopped' = TRUE
    /\ GoTo(s, IF stopped THEN "lost" ELSE "signal")
    /\ UNCHANGED << running, registered, stamped, proc, mailboxVars, countVars >>

\* m_running = false, without m_queueMutex.
StopSignal(s) ==
    /\ at[s] = "signal"
    /\ running' = FALSE
    /\ GoTo(s, "notify")
    /\ UNCHANGED << stopped, registered, stamped, proc, mailboxVars, countVars >>

\* m_queueCV.notify_one(), without m_queueMutex.
StopNotify(s) ==
    /\ at[s] = "notify"
    /\ NotifyOne
    /\ GoTo(s, "join")
    /\ UNCHANGED << running, stopped, registered, stamped, mailboxVars, countVars >>

\* join() when the thread is joinable, then the pending frame is reset.
StopJoin(s) ==
    /\ at[s] = "join"
    /\ proc \in {"none", "done"}
    /\ pending' = NoFrame
    /\ GoTo(s, "returned")
    /\ UNCHANGED << running, stopped, registered, stamped, proc, held, lastAccepted,
                    processed, delivered, countVars >>

-----------------------------------------------------------------------------
(* Invoke, on a frame-pool thread.                                          *)

\* A frame with a texture is counted and stamped with GetFrameTimestamp.
InvokeStamp(d) ==
    /\ registered
    /\ stamped[d] = NoFrame
    /\ received < MaxFrames
    /\ received' = received + 1
    /\ \E t \in Ticks : stamped' = [stamped EXCEPT ![d] = t]
    /\ UNCHANGED << running, stopped, registered, proc, at, mailboxVars, dropped >>

\* Mutant: the frame is stored but nobody is notified.
InvokeEnqueueSilent(d) ==
    /\ stamped[d] # NoFrame
    /\ QueueMutexFree
    /\ pending' = stamped[d]
    /\ dropped' = IF pending # NoFrame THEN dropped + 1 ELSE dropped
    /\ stamped' = [stamped EXCEPT ![d] = NoFrame]
    /\ UNCHANGED << running, stopped, registered, at, held, lastAccepted, received,
                    processed, delivered, proc >>

\* Under m_queueMutex the frame replaces the pending one and one waiter is notified.
InvokeEnqueue(d) ==
    /\ stamped[d] # NoFrame
    /\ QueueMutexFree
    /\ pending' = stamped[d]
    /\ dropped' = IF pending # NoFrame THEN dropped + 1 ELSE dropped
    /\ stamped' = [stamped EXCEPT ![d] = NoFrame]
    /\ NotifyOne
    /\ UNCHANGED << running, stopped, registered, at, held, lastAccepted, received,
                    processed, delivered >>

\* The catch block: the frame is lost and the handler stops running.
InvokeThrows(d) ==
    /\ stamped[d] # NoFrame
    /\ stamped' = [stamped EXCEPT ![d] = NoFrame]
    /\ running' = FALSE
    /\ NotifyOne
    /\ UNCHANGED << stopped, registered, at, mailboxVars, countVars >>

-----------------------------------------------------------------------------
(* ProcessingThreadProc.                                                    *)

procUnchanged == UNCHANGED << stopped, registered, stamped, received, at >>

\* CoInitializeEx for this thread; failure ends the thread.
ComInitialize ==
    /\ proc = "begin"
    /\ \/ proc' = "loop" /\ UNCHANGED running
       \/ proc' = "done" /\ running' = FALSE
    /\ UNCHANGED << mailboxVars, dropped >> /\ procUnchanged

\* while (m_running)
LoopTest ==
    /\ proc = "loop"
    /\ proc' = IF running THEN "eval" ELSE "done"
    /\ UNCHANGED << running, mailboxVars, dropped >> /\ procUnchanged

\* The wait predicate holds and there is a frame: take it out of the mailbox.
TakePending ==
    /\ proc = "eval"
    /\ pending # NoFrame
    /\ held' = pending
    /\ pending' = NoFrame
    /\ proc' = "decide"
    /\ UNCHANGED << running, lastAccepted, processed, delivered, dropped >> /\ procUnchanged

\* The wait predicate holds because the handler stopped: leave the loop.
LeaveLoop ==
    /\ proc = "eval"
    /\ pending = NoFrame
    /\ ~running
    /\ proc' = "done"
    /\ UNCHANGED << running, mailboxVars, dropped >> /\ procUnchanged

\* Mutant: the wait predicate does not look at m_running.
PredicateFalseBlind ==
    /\ proc = "eval"
    /\ pending = NoFrame
    /\ proc' = "blocking"
    /\ UNCHANGED << running, mailboxVars, dropped >> /\ procUnchanged

\* The wait predicate is false; the thread has still to put itself to sleep.
PredicateFalse ==
    /\ proc = "eval"
    /\ pending = NoFrame
    /\ running
    /\ proc' = "blocking"
    /\ UNCHANGED << running, mailboxVars, dropped >> /\ procUnchanged

\* The mutex is released and the thread becomes a waiter.
Block ==
    /\ proc = "blocking"
    /\ proc' = "blocked"
    /\ UNCHANGED << running, mailboxVars, dropped >> /\ procUnchanged

\* A condition variable may wake up without a notify; nothing promises it will.
SpuriousWakeup ==
    /\ proc = "blocked"
    /\ proc' = "eval"
    /\ UNCHANGED << running, mailboxVars, dropped >> /\ procUnchanged

\* Mutant: any later timestamp is accepted.
ShouldAcceptAnyLater(t) == lastAccepted # NoFrame => t > lastAccepted

\* FrameAdmissionController::ShouldAccept
ShouldAccept(t) ==
    lastAccepted # NoFrame => t > lastAccepted /\ t - lastAccepted >= FrameDuration

\* The second m_running test failed: the frame is released without a callback.
DiscardFrame ==
    /\ proc = "decide"
    /\ ~running
    /\ held' = NoFrame
    /\ proc' = "loop"
    /\ UNCHANGED << running, pending, lastAccepted, processed, delivered, dropped >>
    /\ procUnchanged

\* Mutant: m_running is not tested again before the callback.
RunningTestSkipped ==
    /\ proc = "decide"
    /\ proc' = "filter"
    /\ UNCHANGED << running, mailboxVars, dropped >> /\ procUnchanged

\* The second m_running test passed.  Stop, or an Invoke that fails, may clear the flag before
\* the thread goes on: nothing reads it again until the callback is over.
RunningTest ==
    /\ proc = "decide"
    /\ running
    /\ proc' = "filter"
    /\ UNCHANGED << running, mailboxVars, dropped >> /\ procUnchanged

\* Mutant: a rejected frame is not counted.
RejectFrameUncounted ==
    /\ proc = "filter"
    /\ ~ShouldAccept(held)
    /\ held' = NoFrame
    /\ proc' = "loop"
    /\ UNCHANGED << running, pending, lastAccepted, processed, delivered, dropped >>
    /\ procUnchanged

\* ShouldAccept said no: the frame is dropped and counted.
RejectFrame ==
    /\ proc = "filter"
    /\ ~ShouldAccept(held)
    /\ dropped' = dropped + 1
    /\ held' = NoFrame
    /\ proc' = "loop"
    /\ UNCHANGED << running, pending, lastAccepted, processed, delivered >> /\ procUnchanged

\* ShouldAccept said yes, and m_callback(args) is entered.  The filter's state is this
\* thread's own: no other thread can tell the two apart.
CallbackBegin ==
    /\ proc = "filter"
    /\ ShouldAccept(held)
    /\ lastAccepted' = held
    /\ delivered' = Append(delivered, held)
    /\ proc' = "callback"
    /\ UNCHANGED << running, pending, held, processed, dropped >> /\ procUnchanged

CallbackEnd ==
    /\ proc = "callback"
    /\ processed' = processed + 1
    /\ held' = NoFrame
    /\ proc' = "loop"
    /\ UNCHANGED << running, pending, lastAccepted, delivered, dropped >> /\ procUnchanged

\* An exception from the callback ends the thread.
CallbackThrows ==
    /\ proc = "callback"
    /\ held' = NoFrame
    /\ running' = FALSE
    /\ proc' = "done"
    /\ UNCHANGED << pending, lastAccepted, processed, delivered, dropped >> /\ procUnchanged

ProcessingStep ==
    \/ ComInitialize \/ LoopTest \/ TakePending \/ LeaveLoop \/ PredicateFalse \/ Block
    \/ DiscardFrame \/ RunningTest \/ RejectFrame \/ CallbackBegin \/ CallbackEnd
    \/ CallbackThrows

StopStep(s)   == StopSignal(s) \/ StopNotify(s) \/ StopJoin(s)
InvokeStep(d) == InvokeEnqueue(d) \/ InvokeThrows(d)

\* The handler is destroyed when the last reference goes: the pool's, the
\* callers' of Stop, and the one an Invoke in progress holds.
Destroyed ==
    /\ at[Owner] = "gone"
    /\ \A s \in Helpers : at[s] \notin StopPoints
    /\ \A d \in Dispatchers : stamped[d] = NoFrame

\* Not a step of the code: the end of the object's life is not a deadlock.
Terminated == Destroyed /\ UNCHANGED vars

Next ==
    \/ StartProcessing \/ AddFrameArrived \/ RemoveFrameArrived \/ ReleaseHandler
    \/ \E s \in Stoppers : StopClaim(s) \/ StopStep(s)
    \/ \E d \in Dispatchers : InvokeStamp(d) \/ InvokeStep(d)
    \/ ProcessingStep
    \/ SpuriousWakeup
    \/ Terminated

Spec == Init /\ [][Next]_vars

\* Threads that can take a step of their own eventually take it: the scheduler
\* runs every runnable thread, the session's callback returns, and Invoke and
\* Stop do not linger between two statements.  New frames, a call of Stop and
\* spurious wakeups are never owed.
Fairness ==
    /\ WF_vars(ProcessingStep)
    /\ \A s \in Stoppers : WF_vars(StopStep(s))
    /\ \A d \in Dispatchers : WF_vars(InvokeStep(d))

FairSpec == Spec /\ Fairness
-----------------------------------------------------------------------------
Frames == Ticks \cup {NoFrame}

\* The shape of the state; counters stay within the number of frames produced.
TypeOK ==
    /\ running \in BOOLEAN
    /\ stopped \in BOOLEAN
    /\ registered \in BOOLEAN
    /\ pending \in Frames
    /\ stamped \in [Dispatchers -> Frames]
    /\ proc \in ProcPoints
    /\ held \in Frames
    /\ lastAccepted \in Frames
    /\ received \in 0..MaxFrames
    /\ processed \in Nat
    /\ dropped \in Nat
    /\ at \in [Stoppers -> AtPoints]
    /\ delivered \in Seq(Ticks)

\* Once the Stop that won the m_stopped exchange has returned, the processing
\* thread is over: no callback is running and none can begin ("prevent callbacks
\* after shutdown", FrameArrivedHandler.cpp:304).  A Stop that lost the exchange
\* returns at once and promises nothing.
NoCallbackAfterStop ==
    (\E s \in Stoppers : at[s] = "returned") => proc \in {"none", "done"}

\* When the last reference is dropped the processing thread has ended, so the
\* std::thread member is not joinable and no thread uses the freed object.
DestroyedOnlyAfterThreadEnds == Destroyed => proc \in {"none", "done"}

\* While the handler runs, every frame received is processed, counted as dropped,
\* or still on its way: no path loses a frame without counting it.
Present(f) == IF f = NoFrame THEN 0 ELSE 1
Stamping == {d \in Dispatchers : stamped[d] # NoFrame}
InFlight == Present(pending) + Present(held) + Cardinality(Stamping)
EveryFrameAccounted == running => received = processed + dropped + InFlight

\* Frames reach the callback with strictly increasing timestamps at least one
\* frame duration apart, in whatever order Invokes stamped and enqueued them and
\* however the clock changed its time base in between.
DeliveredSpaced ==
    \A i \in 1..(Len(delivered) - 1) : delivered[i + 1] - delivered[i] >= FrameDuration

\* The processing thread never sleeps, or goes to sleep, over a frame in the mailbox:
\* whatever the dispatchers' interleaving, a frame is stored either before the wait's
\* predicate is evaluated or when the thread is there to be notified.
SleepsOnlyWhenEmpty == proc \in {"blocking", "blocked"} => pending = NoFrame

\* Steps the processing thread has at most before it ends, once m_running is false and
\* unless it sleeps.
StepsLeft ==
    [p \in ProcPoints |-> CASE p \in {"none", "done"} -> 0
                            [] p = "loop" -> 1
                            [] p \in {"begin", "decide", "callback"} -> 2
                            [] OTHER -> 3]

Asleep == proc \in {"blocking", "blocked"}

\* A Stop that found the thread awake joins it after three more steps of the thread at
\* most: it goes neither to sleep nor round the loop again, however many frames Invokes in
\* progress still store.
JoinedThreadEnds ==
    [][(\E s \in Stoppers : at[s] = "join" /\ at'[s] = "join") /\ ~Asleep
          => ~Asleep' /\ (UNCHANGED proc \/ StepsLeft[proc'] < StepsLeft[proc])]_vars

\* A Stop has returned to the caller that won m_stopped.
StopReturned == stopped /\ \A s \in Stoppers : at[s] \notin StopPoints

\* What the handler is for the video source that owns it.
Source == INSTANCE CaptureSource WITH
    Reusable <- FALSE,
    phase <- IF StopReturned THEN "stopped"
             ELSE IF proc = "none" THEN "new"
             ELSE IF running THEN "running" ELSE "stopping",
    delivery <- IF proc = "filter" THEN "admitted"
                ELSE IF proc = "callback" THEN "begun" ELSE "none"

\* The handler keeps the promise of a capture source, with Stop as the end of it.  A callback may
\* begin after m_running is cleared, the one whose frame had passed the test of the flag before,
\* and no other; Stop returns only when none is in progress or about to begin; nothing revives a
\* handler that was stopped or that failed.
ImplementsSource == Source!Spec

\* A frame put in the mailbox is taken from it (or replaced by a newer one), or
\* the handler stops: the notify of Invoke, given under the mutex, is never lost.
FrameEventuallyTaken == (pending # NoFrame /\ running) ~> (pending = NoFrame \/ ~running)

\* A Stop about to join returns unless it finds the processing thread asleep or on
\* its way to sleep: a callback in progress, a frame in hand, a thread that has not
\* begun yet or one that has just been woken never hang it.
StopReturnsWhenNotAsleep ==
    \A s \in Stoppers :
        (at[s] = "join" /\ proc \notin {"blocking", "blocked"}) ~> (at[s] = "returned")

\* A Stop that won the exchange returns: "Destructor ensures cleanup: 1. Stop()
\* joins background thread" (FrameArrivedHandler.cpp:82-83).
StopReturns == \A s \in Stoppers : (at[s] = "signal") ~> (at[s] = "returned")
=============================================================================
