-------------------------- MODULE AudioCaptureHandler --------------------------
(***************************************************************************)
(* The audio capture thread and the calls that control it                  *)
(* (AudioCaptureHandler.cpp, with AudioCaptureDevice.cpp as the device).   *)
(*                                                                         *)
(* Controllers call Initialize, Start, Stop and SetInputDevice; stoppers   *)
(* call only Stop, which "remains independently callable so it can cancel  *)
(* this wait" (AudioCaptureHandler.cpp:96-97).  Each call runs on its      *)
(* caller's thread and shares flags with one capture thread.               *)
(*                                                                         *)
(* A critical section of m_stateMutex is one step.  Every write of a flag  *)
(* that a wait of m_stateChanged tests is made under m_stateMutex and is   *)
(* followed by notify_all, so a wait is a guard.  m_isRunning is an atomic *)
(* that Stop writes outside the mutex: that write is a step of its own.    *)
(***************************************************************************)
EXTENDS Naturals

CONSTANTS Controllers, \* threads that may make any call
          Stoppers,    \* threads that only call Stop
          MaxCalls,    \* bound: number of calls made in a behaviour
          NoOne        \* nobody holds the mutex

Callers == Controllers \cup Stoppers

ASSUME AudioAssumption ==
    /\ Controllers \cap Stoppers = {}
    /\ NoOne \notin Callers
    /\ MaxCalls \in Nat

VARIABLES
    isRunning,       \* m_isRunning
    initCompleted,   \* m_initializeCompleted
    initSucceeded,   \* m_initializeSucceeded
    startRequested,  \* m_startRequested
    startCompleted,  \* m_startCompleted
    startSucceeded,  \* m_startSucceeded
    shutdown,        \* m_shutdownRequested
    creating,        \* m_threadCreationInProgress
    joinable,        \* m_captureThread.joinable()
    initMutex,       \* holder of m_initializeCallMutex
    threadMutex,     \* holder of m_captureThreadMutex
    device,          \* m_device: closed, open (initialised) or started
    cap,             \* where the capture thread is
    capOk,           \* its local "initialized", later "started"
    at,              \* where each caller is
    op,              \* the call it is making
    wasRunning,      \* SetInputDevice's local
    result,          \* what its last Initialize, Start or SetInputDevice returned
    calls            \* calls made so far

flags   == << initCompleted, initSucceeded, startRequested, startCompleted,
              startSucceeded, shutdown, creating >>
thread  == << device, cap, capOk >>
mutexes == << initMutex, threadMutex >>
locals  == << op, wasRunning, result, calls >>
vars == << isRunning, flags, joinable, mutexes, thread, at, locals >>

\* Running the capture loop, or the clock fallback after an exception in it.
Looping  == {"loop", "sample", "admitted", "callback", "fallback"}
CapPoints == {"none", "begin", "publishInit", "waitStart", "startDevice",
              "publishStart", "catch", "leaving", "exited"} \cup Looping
Ended     == {"none", "exited"}
AtPoints  == {"idle", "deviceBegin", "initLock", "initReset", "initCreate",
              "initPublish", "initWait", "startCheck", "startLock", "startWait",
              "stopFlag", "stopLatch", "stopWait", "joinLock", "joining"}
Ops       == {"none", "init", "reinit", "initFailed", "start", "stop", "device"}

Init ==
    /\ isRunning = FALSE
    /\ initCompleted = FALSE
    /\ initSucceeded = FALSE
    /\ startRequested = FALSE
    /\ startCompleted = FALSE
    /\ startSucceeded = FALSE
    /\ shutdown = FALSE
    /\ creating = FALSE
    /\ joinable = FALSE
    /\ initMutex = NoOne
    /\ threadMutex = NoOne
    /\ device = "closed"
    /\ cap = "none"
    /\ capOk = FALSE
    /\ at = [c \in Callers |-> "idle"]
    /\ op = [c \in Callers |-> "none"]
    /\ wasRunning = [c \in Callers |-> FALSE]
    /\ result = [c \in Callers |-> FALSE]
    /\ calls = 0

GoTo(c, p) == at' = [at EXCEPT ![c] = p]
Return(c, r) == GoTo(c, "idle") /\ result' = [result EXCEPT ![c] = r]

-----------------------------------------------------------------------------
(* Calls begin.                                                             *)

Begin(c, o, p) ==
    /\ at[c] = "idle"
    /\ calls < MaxCalls
    /\ calls' = calls + 1
    /\ op' = [op EXCEPT ![c] = o]
    /\ GoTo(c, p)
    /\ UNCHANGED << isRunning, flags, joinable, mutexes, thread, wasRunning, result >>

Initialize(c)     == Begin(c, "init", "initLock")
Start(c)          == Begin(c, "start", "startCheck")
Stop(c)           == Begin(c, "stop", "stopFlag")
SetInputDevice(c) == Begin(c, "device", "deviceBegin")

\* SetInputDevice reads m_isRunning and calls Stop.
DeviceBegin(c) ==
    /\ at[c] = "deviceBegin"
    /\ wasRunning' = [wasRunning EXCEPT ![c] = isRunning]
    /\ GoTo(c, "stopFlag")
    /\ UNCHANGED << isRunning, flags, joinable, mutexes, thread, op, result, calls >>

-----------------------------------------------------------------------------
(* Initialize.                                                              *)

\* Mutant: Initialize does not stop the previous thread first.
InitLockNoStop(c) ==
    /\ at[c] = "initLock"
    /\ initMutex = NoOne
    /\ initMutex' = c
    /\ GoTo(c, "initReset")
    /\ UNCHANGED << isRunning, flags, joinable, threadMutex, thread, locals >>

\* m_initializeCallMutex is taken and Stop is called.
InitLock(c) ==
    /\ at[c] = "initLock"
    /\ initMutex = NoOne
    /\ initMutex' = c
    /\ GoTo(c, "stopFlag")
    /\ UNCHANGED << isRunning, flags, joinable, threadMutex, thread, locals >>

InitReset(c) ==
    /\ at[c] = "initReset"
    /\ initCompleted' = FALSE
    /\ initSucceeded' = FALSE
    /\ startRequested' = FALSE
    /\ startCompleted' = FALSE
    /\ startSucceeded' = FALSE
    /\ shutdown' = FALSE
    /\ creating' = TRUE
    /\ GoTo(c, "initCreate")
    /\ UNCHANGED << isRunning, joinable, mutexes, thread, locals >>

\* Under m_captureThreadMutex the std::thread member is assigned a new thread ...
InitCreate(c) ==
    /\ at[c] = "initCreate"
    /\ threadMutex = NoOne
    /\ threadMutex' = c
    /\ joinable' = TRUE
    /\ cap' = "begin"
    /\ GoTo(c, "initPublish")
    /\ UNCHANGED << isRunning, flags, initMutex, device, capOk, locals >>

\* Mutant: the failure path forgets m_threadCreationInProgress.
InitCreateFailsStuck(c) ==
    /\ at[c] = "initCreate"
    /\ threadMutex = NoOne
    /\ initCompleted' = TRUE
    /\ initSucceeded' = FALSE
    /\ initMutex' = NoOne
    /\ Return(c, FALSE)
    /\ UNCHANGED << isRunning, startRequested, startCompleted, startSucceeded, shutdown,
                    creating, joinable, threadMutex, thread, op, wasRunning, calls >>

\* ... or its constructor throws and the failure is latched.
InitCreateFails(c) ==
    /\ at[c] = "initCreate"
    /\ threadMutex = NoOne
    /\ initCompleted' = TRUE
    /\ initSucceeded' = FALSE
    /\ creating' = FALSE
    /\ initMutex' = NoOne
    /\ Return(c, FALSE)
    /\ UNCHANGED << isRunning, startRequested, startCompleted, startSucceeded, shutdown,
                    joinable, threadMutex, thread, op, wasRunning, calls >>

InitPublish(c) ==
    /\ at[c] = "initPublish"
    /\ creating' = FALSE
    /\ threadMutex' = NoOne
    /\ GoTo(c, "initWait")
    /\ UNCHANGED << isRunning, initCompleted, initSucceeded, startRequested,
                    startCompleted, startSucceeded, shutdown, joinable, initMutex,
                    thread, locals >>

\* Mutant: a completed initialisation counts as a successful one.
InitWaitCompleted(c) ==
    /\ at[c] = "initWait"
    /\ initCompleted
    /\ ~shutdown
    /\ initMutex' = NoOne
    /\ Return(c, TRUE)
    /\ UNCHANGED << isRunning, flags, joinable, threadMutex, thread, op, wasRunning, calls >>

\* WaitForInitialization; on failure the thread is joined before returning, and
\* SetInputDevice goes on to Start if the handler was running.
InitWait(c) ==
    /\ at[c] = "initWait"
    /\ initCompleted \/ shutdown
    /\ \/ /\ initCompleted /\ initSucceeded /\ ~shutdown
          /\ initMutex' = NoOne
          /\ \/ /\ op[c] = "reinit" /\ wasRunning[c]
                /\ op' = [op EXCEPT ![c] = "start"]
                /\ GoTo(c, "startCheck")
                /\ UNCHANGED result
             \/ /\ ~(op[c] = "reinit" /\ wasRunning[c])
                /\ Return(c, TRUE)
                /\ UNCHANGED op
       \/ /\ ~(initCompleted /\ initSucceeded /\ ~shutdown)
          /\ op' = [op EXCEPT ![c] = "initFailed"]
          /\ GoTo(c, "joinLock")
          /\ UNCHANGED << initMutex, result >>
    /\ UNCHANGED << isRunning, flags, joinable, threadMutex, thread, wasRunning, calls >>

-----------------------------------------------------------------------------
(* Start.                                                                   *)

\* if (m_isRunning), read before the mutex is taken
StartCheck(c) ==
    /\ at[c] = "startCheck"
    /\ \/ isRunning /\ Return(c, FALSE)
       \/ ~isRunning /\ GoTo(c, "startLock") /\ UNCHANGED result
    /\ UNCHANGED << isRunning, flags, joinable, mutexes, thread, op, wasRunning, calls >>

StartRefused == ~initSucceeded \/ shutdown \/ startRequested

StartLock(c) ==
    /\ at[c] = "startLock"
    /\ \/ StartRefused /\ Return(c, FALSE) /\ UNCHANGED startRequested
       \/ ~StartRefused /\ startRequested' = TRUE /\ GoTo(c, "startWait") /\ UNCHANGED result
    /\ UNCHANGED << isRunning, initCompleted, initSucceeded, startCompleted,
                    startSucceeded, shutdown, creating, joinable, mutexes, thread,
                    op, wasRunning, calls >>

\* The wait for the capture thread's answer or for a Stop.
StartWait(c) ==
    /\ at[c] = "startWait"
    /\ startCompleted \/ shutdown
    /\ Return(c, startCompleted /\ startSucceeded)
    /\ UNCHANGED << isRunning, flags, joinable, mutexes, thread, op, wasRunning, calls >>

-----------------------------------------------------------------------------
(* Stop and JoinCaptureThread.                                              *)

\* m_isRunning = false, before m_stateMutex is taken
StopFlag(c) ==
    /\ at[c] = "stopFlag"
    /\ isRunning' = FALSE
    /\ GoTo(c, "stopLatch")
    /\ UNCHANGED << flags, joinable, mutexes, thread, locals >>

\* Shutdown is requested, and results nobody published yet are latched as aborted.
StopLatch(c) ==
    /\ at[c] = "stopLatch"
    /\ shutdown' = TRUE
    /\ initCompleted' = TRUE
    /\ initSucceeded' = (initCompleted /\ initSucceeded)
    /\ startCompleted' = (startCompleted \/ startRequested)
    /\ startSucceeded' = (startSucceeded /\ (startRequested => startCompleted))
    /\ GoTo(c, "stopWait")
    /\ UNCHANGED << isRunning, startRequested, creating, joinable, mutexes, thread, locals >>

StopWait(c) ==
    /\ at[c] = "stopWait"
    /\ ~creating
    /\ GoTo(c, "joinLock")
    /\ UNCHANGED << isRunning, flags, joinable, mutexes, thread, locals >>

JoinLock(c) ==
    /\ at[c] = "joinLock"
    /\ threadMutex = NoOne
    /\ threadMutex' = c
    /\ GoTo(c, "joining")
    /\ UNCHANGED << isRunning, flags, joinable, initMutex, thread, locals >>

\* Where a call goes on after the join: Initialize after its inner Stop, and
\* SetInputDevice after its own; a Stop and a failed Initialize return.
AfterJoin(c) ==
    \/ /\ op[c] \in {"init", "reinit"}
       /\ GoTo(c, "initReset")
       /\ UNCHANGED << op, result, initMutex >>
    \/ /\ op[c] = "device"
       /\ op' = [op EXCEPT ![c] = "reinit"]
       /\ GoTo(c, "initLock")
       /\ UNCHANGED << result, initMutex >>
    \/ /\ op[c] = "stop"
       /\ GoTo(c, "idle")
       /\ UNCHANGED << op, result, initMutex >>
    \/ /\ op[c] = "initFailed"
       /\ initMutex' = NoOne
       /\ Return(c, FALSE)
       /\ UNCHANGED op

\* Mutant: a caller that finds a join in progress does not wait for it.
JoinDoneNoWait(c) ==
    /\ at[c] = "joining"
    /\ joinable' = FALSE
    /\ threadMutex' = NoOne
    /\ AfterJoin(c)
    /\ UNCHANGED << isRunning, flags, thread, wasRunning, calls >>

\* join() returns when the thread is over; at once if it is not joinable.
JoinDone(c) ==
    /\ at[c] = "joining"
    /\ joinable => cap = "exited"
    /\ joinable' = FALSE
    /\ threadMutex' = NoOne
    /\ AfterJoin(c)
    /\ UNCHANGED << isRunning, flags, thread, wasRunning, calls >>

-----------------------------------------------------------------------------
(* CaptureThreadProc.                                                       *)

capUnchanged == UNCHANGED << joinable, mutexes, at, locals >>

\* AudioCaptureDevice: Initialize opens the device or fails at some step of it (a device
\* whose format the handler cannot use is open, and failed all the same); Start needs an
\* open one; Shutdown stops it and releases it, from whatever step it had reached.
DeviceInitialize(ok) == device' \in IF ok THEN {"open"} ELSE {"closed", "open"}
DeviceStart(ok)      == device' = IF ok THEN "started" ELSE device
DeviceShutdown       == device' = "closed"

\* The new thread's first step; its result is published in the next.
CaptureInitDevice ==
    /\ cap = "begin"
    /\ capOk' \in BOOLEAN
    /\ DeviceInitialize(capOk')
    /\ cap' = "publishInit"
    /\ UNCHANGED << isRunning, flags >> /\ capUnchanged

\* The result of the initialisation is published; a failed thread ends here.
CapturePublishInit ==
    /\ cap = "publishInit"
    /\ initSucceeded' = (capOk /\ ~shutdown)
    /\ initCompleted' = TRUE
    /\ cap' = IF capOk THEN "waitStart" ELSE "exited"
    /\ IF capOk THEN UNCHANGED device ELSE DeviceShutdown
    /\ UNCHANGED << isRunning, startRequested, startCompleted, startSucceeded, shutdown,
                    creating, capOk >>
    /\ capUnchanged

CaptureWaitStart ==
    /\ cap = "waitStart"
    /\ startRequested \/ shutdown
    /\ cap' = IF shutdown THEN "exited" ELSE "startDevice"
    /\ IF shutdown THEN DeviceShutdown ELSE UNCHANGED device
    /\ UNCHANGED << isRunning, flags, capOk >> /\ capUnchanged

\* m_device.Start; without a clock writer it is not even tried.
CaptureStartDevice ==
    /\ cap = "startDevice"
    /\ capOk' \in BOOLEAN
    /\ DeviceStart(capOk')
    /\ cap' = "publishStart"
    /\ UNCHANGED << isRunning, flags >> /\ capUnchanged

\* The start is published; this is the only place that sets m_isRunning.
CapturePublishStart ==
    /\ cap = "publishStart"
    /\ LET shouldRun == capOk /\ ~shutdown
       IN  /\ startSucceeded' = shouldRun
           /\ isRunning' = shouldRun
           /\ cap' = IF shouldRun THEN "loop" ELSE "exited"
           /\ IF shouldRun THEN UNCHANGED device ELSE DeviceShutdown
    /\ startCompleted' = TRUE
    /\ UNCHANGED << initCompleted, initSucceeded, startRequested, shutdown, creating, capOk >>
    /\ capUnchanged

\* An exception before the loop: from reading the parameters, from the device or
\* from growing the silent buffer.
CaptureThrows ==
    /\ cap \in {"begin", "publishInit", "startDevice"}
    /\ cap' = "catch"
    /\ UNCHANGED << isRunning, flags, device, capOk >> /\ capUnchanged

\* Mutant: the exception is reported but no result is latched.
CaptureCatchSilent ==
    /\ cap = "catch"
    /\ cap' = "leaving"
    /\ UNCHANGED << isRunning, flags, device, capOk >> /\ capUnchanged

\* The handler at the end of CaptureThreadProc latches results nobody published.
CaptureCatch ==
    /\ cap = "catch"
    /\ shutdown' = TRUE
    /\ initCompleted' = TRUE
    /\ initSucceeded' = (initCompleted /\ initSucceeded)
    /\ startCompleted' = (startCompleted \/ startRequested)
    /\ startSucceeded' = (startSucceeded /\ (startRequested => startCompleted))
    /\ cap' = "leaving"
    /\ UNCHANGED << isRunning, startRequested, creating, device, capOk >> /\ capUnchanged

\* RunCaptureLoop: while (m_isRunning) read from the device
CaptureLoopTest ==
    /\ cap = "loop"
    /\ cap' = IF isRunning THEN "sample" ELSE "leaving"
    /\ UNCHANGED << isRunning, flags, device, capOk >> /\ capUnchanged

\* Mutant: m_isRunning is not tested again before the callback.
CaptureSampleUntested ==
    /\ cap = "sample"
    /\ cap' \in {"admitted", "loop"}
    /\ UNCHANGED << isRunning, flags, device, capOk >> /\ capUnchanged

\* With samples (or silence to fill in) and not paused, the thread goes on to the callback if
\* m_isRunning still holds; otherwise only the clock advances or nothing happens.
CaptureSample ==
    /\ cap = "sample"
    /\ \/ isRunning /\ cap' = "admitted"
       \/ cap' = "loop"
    /\ UNCHANGED << isRunning, flags, device, capOk >> /\ capUnchanged

\* The timestamp is read and the samples are prepared, or skipped after an unmute; then the
\* callback is entered.  m_isRunning is not looked at again, so a Stop may have cleared it.
CaptureDeliver ==
    /\ cap = "admitted"
    /\ cap' \in {"callback", "loop"}
    /\ UNCHANGED << isRunning, flags, device, capOk >> /\ capUnchanged

CaptureCallbackEnd ==
    /\ cap = "callback"
    /\ cap' = "loop"
    /\ UNCHANGED << isRunning, flags, device, capOk >> /\ capUnchanged

\* An exception in the loop (a buffer that cannot grow) or in the callback leaves the clock
\* fallback running.
CaptureLoopThrows ==
    /\ cap \in {"sample", "admitted", "callback"}
    /\ cap' = "fallback"
    /\ UNCHANGED << isRunning, flags, device, capOk >> /\ capUnchanged

\* The fallback advances the clock (no state of this module) until m_isRunning goes.
CaptureFallbackEnd ==
    /\ cap = "fallback"
    /\ ~isRunning
    /\ cap' = "leaving"
    /\ UNCHANGED << isRunning, flags, device, capOk >> /\ capUnchanged

\* Advancing the clock throws: the fallback gives up.  This is never owed.
CaptureFallbackThrows ==
    /\ cap = "fallback"
    /\ isRunning
    /\ isRunning' = FALSE
    /\ cap' = "leaving"
    /\ UNCHANGED << flags, device, capOk >> /\ capUnchanged

\* m_isRunning = false; m_device.Shutdown()
CaptureLeave ==
    /\ cap = "leaving"
    /\ isRunning' = FALSE
    /\ DeviceShutdown
    /\ cap' = "exited"
    /\ UNCHANGED << flags, capOk >> /\ capUnchanged

CaptureStep ==
    \/ CaptureInitDevice \/ CapturePublishInit \/ CaptureWaitStart
    \/ CaptureStartDevice \/ CapturePublishStart \/ CaptureThrows \/ CaptureCatch
    \/ CaptureLoopTest \/ CaptureSample \/ CaptureDeliver \/ CaptureCallbackEnd
    \/ CaptureLoopThrows
    \/ CaptureFallbackEnd \/ CaptureLeave

CallStep(c) ==
    \/ DeviceBegin(c) \/ InitLock(c) \/ InitReset(c) \/ InitCreate(c)
    \/ InitCreateFails(c) \/ InitPublish(c) \/ InitWait(c)
    \/ StartCheck(c) \/ StartLock(c) \/ StartWait(c)
    \/ StopFlag(c) \/ StopLatch(c) \/ StopWait(c) \/ JoinLock(c) \/ JoinDone(c)

CallBegins ==
    \/ \E c \in Controllers : Initialize(c) \/ Start(c) \/ SetInputDevice(c)
    \/ \E c \in Callers : Stop(c)

Next == \/ CallBegins \/ (\E c \in Callers : CallStep(c)) \/ CaptureStep
        \/ CaptureFallbackThrows

Spec == Init /\ [][Next]_vars

\* Every thread that can take a step takes it: device calls and the callback
\* return and a free mutex is eventually given to a waiter.  No call is owed.
FairSpec == Spec /\ WF_vars(CaptureStep) /\ \A c \in Callers : WF_vars(CallStep(c))
-----------------------------------------------------------------------------
\* The shape of the state.
TypeOK ==
    /\ {isRunning, initCompleted, initSucceeded, startRequested, startCompleted,
        startSucceeded, shutdown, creating, joinable, capOk} \subseteq BOOLEAN
    /\ initMutex \in Callers \cup {NoOne}
    /\ threadMutex \in Callers \cup {NoOne}
    /\ device \in {"closed", "open", "started"}
    /\ cap \in CapPoints
    /\ at \in [Callers -> AtPoints]
    /\ op \in [Callers -> Ops]
    /\ wasRunning \in [Callers -> BOOLEAN]
    /\ result \in [Callers -> BOOLEAN]
    /\ calls \in 0..MaxCalls

\* When Initialize assigns m_captureThread the previous thread has been joined:
\* assigning to a joinable std::thread would end the process
\* (AudioCaptureHandler.cpp:99-125).
ThreadAssignable ==
    \A c \in Callers : at[c] = "initCreate" => ~joinable /\ cap \in Ended

\* A join that completes, for whoever asked and however many asked at once,
\* leaves no capture thread and no open device behind
\* ("callers return after an in-progress join has completed", 183-185).
StopQuiesces ==
    [][\A c \in Callers : at[c] = "joining" /\ at'[c] # "joining"
           => cap' \in Ended /\ device' = "closed"]_vars

\* The published results agree with each other across every interleaving of the
\* capture thread with Stop: a start that succeeded was requested, completed and
\* followed an initialisation that succeeded.
FlagsConsistent ==
    /\ startSucceeded => startCompleted /\ startRequested /\ initSucceeded
    /\ startCompleted => startRequested
    /\ startRequested => initCompleted

\* m_isRunning is true only while the capture thread is in its loop with a started
\* device: IsRunning never reports a thread that is gone (header line 118-121).
RunningHasThread == isRunning => cap \in Looping /\ device = "started"

\* Initialize reports success only while the capture thread holds an open device
\* and waits to be started (or another caller has asked for the start already).
InitializeTruthful ==
    [][\A c \in Callers : at[c] = "initWait" /\ at'[c] \in {"idle", "startCheck"}
           => startRequested \/ (cap = "waitStart" /\ device = "open")]_vars

\* Points of the capture thread after which it publishes the result of the initialisation,
\* and of a start.
AnswersInit  == {"begin", "publishInit", "catch"}
AnswersStart == {"waitStart", "startDevice", "publishStart", "catch"}

\* Nobody waits for an answer that nobody will give: the result is there, or a shutdown
\* is requested, or the capture thread is on its way to publish it; whatever it throws and
\* however Stops cut in.  A start loses its request only to the Initialize of another
\* controller, which resets it (112-116) before the waiter has looked at the answer.
WaiterAnswered ==
    \A c \in Callers :
        /\ at[c] = "initWait" => initCompleted \/ shutdown \/ cap \in AnswersInit
        /\ at[c] = "startWait" =>
               \/ startCompleted \/ shutdown
               \/ startRequested /\ cap \in AnswersStart
               \/ ~startRequested /\ \E d \in Controllers : d # c

\* What the handler is for the audio source that owns it; Initialize and SetInputDevice
\* prepare it for another start.
Source == INSTANCE CaptureSource WITH
    Reusable <- TRUE,
    phase <- IF isRunning THEN "running"
             ELSE IF cap \in Looping \cup {"leaving"} THEN "stopping"
             ELSE IF cap = "exited" THEN "stopped" ELSE "new",
    delivery <- IF cap = "admitted" THEN "admitted"
                ELSE IF cap = "callback" THEN "begun" ELSE "none"

\* The handler keeps the promise of a capture source: once m_isRunning went from true to false
\* (a Stop overtaken by a start is one before it) at most the delivery whose test of the flag
\* came before still begins; the thread ends and is replaced only when none is admitted or in
\* progress, and nothing but a new initialisation lets a handler that was stopped, or that
\* failed, start again.
ImplementsSource == Source!Spec

\* Initialize and Start stop waiting, whatever the device does and whenever Stop
\* comes ("a waiter cannot miss the transition", 257-259).
WaitsEnd ==
    \A c \in Callers :
        /\ (at[c] = "initWait") ~> (at[c] # "initWait")
        /\ (at[c] = "startWait") ~> (at[c] # "startWait")

\* A call that nothing overlaps from before its first step on m_isRunning, the
\* flags or the thread returns, whatever the device does and whatever earlier
\* calls, overlapping or not, left behind.
LoneCallReturns ==
    \A c \in Callers :
        LET Overlapped == \E d \in Callers \ {c} : at[d] # "idle"
        IN  (at[c] \in {"initLock", "startCheck", "stopFlag", "deviceBegin"} /\ ~Overlapped)
                ~> (at[c] = "idle" \/ Overlapped)

\* A Stop returns whatever the other threads are doing.  It will "Stop the audio
\* capture thread and wait for it to complete" (AudioCaptureHandler.h:72), the
\* "Control methods (Start, Stop, SetEnabled) are thread-safe via atomics" (36),
\* and "Stop remains independently callable so it can cancel this wait"
\* (AudioCaptureHandler.cpp:96-97).
StopReturns == \A s \in Stoppers : (at[s] # "idle") ~> (at[s] = "idle")
=============================================================================
