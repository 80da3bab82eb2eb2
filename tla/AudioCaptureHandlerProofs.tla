----------------------- MODULE AudioCaptureHandlerProofs -----------------------
(***************************************************************************)
(* Proofs about the audio capture thread and the calls that control it,    *)
(* for any number of controllers, stoppers and calls.                      *)
(***************************************************************************)
EXTENDS AudioCaptureHandler, TLAPS

CallBegin(c) == Initialize(c) \/ Start(c) \/ SetInputDevice(c) \/ Stop(c)

\* The steps of Next, one disjunct per action, as every proof below takes them apart.
LEMMA NextActions ==
    ASSUME [Next]_vars
    PROVE  \/ \E c \in Callers : CallBegin(c) \/ CallStep(c)
           \/ CaptureStep \/ CaptureFallbackThrows
           \/ UNCHANGED vars
BY DEF Next, CallBegins, CallBegin, Callers

\* The shape of the state is preserved by every step of every thread.
THEOREM TypeCorrect == Spec => []TypeOK
<1>1. Init => TypeOK
  <2> SUFFICES ASSUME Init PROVE TypeOK
    OBVIOUS
  <2> USE AudioAssumption DEF Init
  <2>1. at \in [Callers -> AtPoints] /\ op \in [Callers -> Ops]
    BY DEF AtPoints, Ops
  <2>2. wasRunning \in [Callers -> BOOLEAN] /\ result \in [Callers -> BOOLEAN]
    OBVIOUS
  <2>3. calls \in 0..MaxCalls
    OBVIOUS
  <2>4. {isRunning, initCompleted, initSucceeded, startRequested, startCompleted,
         startSucceeded, shutdown, creating, joinable, capOk} \subseteq BOOLEAN
    OBVIOUS
  <2>5. QED
    BY <2>1, <2>2, <2>3, <2>4 DEF TypeOK, CapPoints, Looping
<1>2. TypeOK /\ [Next]_vars => TypeOK'
  <2> SUFFICES ASSUME TypeOK, [Next]_vars PROVE TypeOK'
    OBVIOUS
  <2> USE AudioAssumption DEF TypeOK, CapPoints, AtPoints, Ops, Looping, GoTo, Return,
          flags, thread, mutexes, locals
  <2>1. ASSUME NEW c \in Callers, CallBegin(c) PROVE TypeOK'
    BY <2>1 DEF CallBegin, Initialize, Start, Stop, SetInputDevice, Begin
  <2>2. ASSUME NEW c \in Callers, CallStep(c) PROVE TypeOK'
    <3>1. CASE DeviceBegin(c)
      BY <3>1 DEF DeviceBegin
    <3>2. CASE InitLock(c)
      BY <3>2 DEF InitLock
    <3>3. CASE InitReset(c)
      BY <3>3 DEF InitReset
    <3>4. CASE InitCreate(c)
      BY <3>4 DEF InitCreate
    <3>5. CASE InitCreateFails(c)
      BY <3>5 DEF InitCreateFails
    <3>6. CASE InitPublish(c)
      BY <3>6 DEF InitPublish
    <3>7. CASE InitWait(c)
      BY <3>7 DEF InitWait
    <3>8. CASE StartCheck(c)
      BY <3>8 DEF StartCheck
    <3>9. CASE StartLock(c)
      BY <3>9 DEF StartLock
    <3>10. CASE StartWait(c)
      BY <3>10 DEF StartWait
    <3>11. CASE StopFlag(c)
      BY <3>11 DEF StopFlag
    <3>12. CASE StopLatch(c)
      BY <3>12 DEF StopLatch
    <3>13. CASE StopWait(c) \/ JoinLock(c)
      BY <3>13 DEF StopWait, JoinLock
    <3>14. CASE JoinDone(c)
      BY <3>14 DEF JoinDone, AfterJoin
    <3>15. QED
      BY <2>2, <3>1, <3>2, <3>3, <3>4, <3>5, <3>6, <3>7, <3>8, <3>9, <3>10, <3>11, <3>12,
         <3>13, <3>14 DEF CallStep
  <2>3. CASE CaptureStep \/ CaptureFallbackThrows
    <3> USE DEF capUnchanged
    <3>1. CASE CaptureInitDevice \/ CapturePublishInit
      BY <3>1 DEF CaptureInitDevice, CapturePublishInit, DeviceInitialize, DeviceShutdown
    <3>2. CASE CaptureWaitStart \/ CaptureStartDevice
      BY <3>2 DEF CaptureWaitStart, CaptureStartDevice, DeviceShutdown, DeviceStart
    <3>3. CASE CapturePublishStart
      BY <3>3 DEF CapturePublishStart, DeviceShutdown
    <3>4. CASE CaptureThrows
      BY <3>4 DEF CaptureThrows
    <3>5. CASE CaptureCatch
      BY <3>5 DEF CaptureCatch
    <3>6. CASE CaptureLoopTest \/ CaptureSample \/ CaptureDeliver
               \/ CaptureCallbackEnd \/ CaptureLoopThrows
      BY <3>6 DEF CaptureLoopTest, CaptureSample, CaptureDeliver, CaptureCallbackEnd,
         CaptureLoopThrows
    <3>7. CASE CaptureFallbackEnd \/ CaptureFallbackThrows \/ CaptureLeave
      BY <3>7 DEF CaptureFallbackEnd, CaptureFallbackThrows, CaptureLeave, DeviceShutdown
    <3>8. QED
      BY <2>3, <3>1, <3>2, <3>3, <3>4, <3>5, <3>6, <3>7 DEF CaptureStep
  <2>4. CASE UNCHANGED vars
    BY <2>4 DEF vars
  <2>5. QED
    BY <2>1, <2>2, <2>3, <2>4, NextActions
<1>3. QED
  BY <1>1, <1>2, PTL DEF Spec
-----------------------------------------------------------------------------
(* Who may replace the capture thread, and what it may leave behind.        *)

\* The part of a call that is Initialize's: m_initializeCallMutex is held.
InInitialize(c) ==
    \/ at[c] \in {"initReset", "initCreate", "initPublish", "initWait"}
    \/ /\ at[c] \in {"stopFlag", "stopLatch", "stopWait", "joinLock", "joining"}
       /\ op[c] \in {"init", "reinit", "initFailed"}

\* Only Initialize, called as such or by SetInputDevice, goes through its points.
OpFollows ==
    \A c \in Callers :
        /\ at[c] = "deviceBegin" => op[c] = "device"
        /\ at[c] \in {"initLock", "initReset", "initCreate", "initPublish", "initWait"}
               => op[c] \in {"init", "reinit"}

OneInitialize == \A c \in Callers : InInitialize(c) => initMutex = c

\* A joined (or never created) thread is over.
JoinedIsOver == ~joinable => cap \in Ended

\* Between the join inside Initialize and the assignment of the new thread there is
\* none; this needs OneInitialize, for another Initialize would create one.
JoinedBeforeCreate == \A c \in Callers : at[c] \in {"initReset", "initCreate"} => ~joinable

\* A thread that is over, and one that has just begun, has no device.
DeviceFollows ==
    /\ cap \in Ended \cup {"begin"} => device = "closed"
    /\ cap = "publishInit" /\ capOk => device = "open"
    /\ cap = "waitStart" => device = "open"
    /\ cap = "publishStart" /\ capOk => device = "started"

ThreadInv == /\ OpFollows /\ OneInitialize /\ JoinedIsOver /\ JoinedBeforeCreate /\ DeviceFollows
             /\ RunningHasThread

\* Initialize assigns m_captureThread only when the previous thread was joined, and
\* m_isRunning is true only for a thread in its loop, however calls interleave.
THEOREM ThreadSafe == Spec => [](ThreadInv /\ ThreadAssignable /\ RunningHasThread)
<1>1. Init => ThreadInv
  BY AudioAssumption DEF Init, ThreadInv, OpFollows, OneInitialize, InInitialize, JoinedIsOver,
     JoinedBeforeCreate, DeviceFollows, RunningHasThread, Ended
<1>2. TypeOK /\ ThreadInv /\ [Next]_vars => ThreadInv'
  <2> SUFFICES ASSUME TypeOK, ThreadInv, [Next]_vars PROVE ThreadInv'
    OBVIOUS
  <2> USE AudioAssumption DEF TypeOK, ThreadInv, OpFollows, OneInitialize, InInitialize, JoinedIsOver,
          JoinedBeforeCreate, DeviceFollows, RunningHasThread, Ended, Looping, GoTo, Return,
          flags, thread, mutexes, locals
  <2>1. ASSUME NEW c \in Callers, CallBegin(c) PROVE ThreadInv'
    BY <2>1 DEF CallBegin, Initialize, Start, Stop, SetInputDevice, Begin
  <2>2. ASSUME NEW c \in Callers, CallStep(c) PROVE ThreadInv'
    <3>1. CASE DeviceBegin(c)
      BY <3>1 DEF DeviceBegin
    <3>2. CASE InitLock(c)
      BY <3>2 DEF InitLock
    <3>3. CASE InitReset(c)
      BY <3>3 DEF InitReset
    <3>4. CASE InitCreate(c)
      BY <3>4 DEF InitCreate
    <3>5. CASE InitCreateFails(c)
      BY <3>5 DEF InitCreateFails
    <3>6. CASE InitPublish(c)
      BY <3>6 DEF InitPublish
    <3>7. CASE InitWait(c)
      BY <3>7 DEF InitWait
    <3>8. CASE StartCheck(c)
      BY <3>8 DEF StartCheck
    <3>9. CASE StartLock(c)
      BY <3>9 DEF StartLock, StartRefused
    <3>10. CASE StartWait(c)
      BY <3>10 DEF StartWait
    <3>11. CASE StopFlag(c)
      BY <3>11 DEF StopFlag
    <3>12. CASE StopLatch(c)
      BY <3>12 DEF StopLatch
    <3>13. CASE StopWait(c)
      BY <3>13 DEF StopWait
    <3>14. CASE JoinLock(c)
      BY <3>14 DEF JoinLock
    <3>15. CASE JoinDone(c)
      BY <3>15 DEF JoinDone, AfterJoin
    <3>16. QED
      BY <2>2, <3>1, <3>2, <3>3, <3>4, <3>5, <3>6, <3>7, <3>8, <3>9, <3>10, <3>11, <3>12,
         <3>13, <3>14, <3>15 DEF CallStep
  <2>3. CASE CaptureStep \/ CaptureFallbackThrows
    <3> USE DEF capUnchanged
    <3>1. CASE CaptureInitDevice
      BY <3>1 DEF CaptureInitDevice, DeviceInitialize
    <3>2. CASE CapturePublishInit
      BY <3>2 DEF CapturePublishInit, DeviceShutdown
    <3>3. CASE CaptureWaitStart
      BY <3>3 DEF CaptureWaitStart, DeviceShutdown
    <3>4. CASE CaptureStartDevice
      BY <3>4 DEF CaptureStartDevice, DeviceStart
    <3>5. CASE CapturePublishStart
      BY <3>5 DEF CapturePublishStart, DeviceShutdown
    <3>6. CASE CaptureThrows
      BY <3>6 DEF CaptureThrows
    <3>7. CASE CaptureCatch
      BY <3>7 DEF CaptureCatch
    <3>8. CASE CaptureLoopTest
      BY <3>8 DEF CaptureLoopTest
    <3>9. CASE CaptureSample \/ CaptureDeliver
      BY <3>9 DEF CaptureSample, CaptureDeliver
    <3>10. CASE CaptureCallbackEnd
      BY <3>10 DEF CaptureCallbackEnd
    <3>11. CASE CaptureLoopThrows
      BY <3>11 DEF CaptureLoopThrows
    <3>12. CASE CaptureFallbackEnd
      BY <3>12 DEF CaptureFallbackEnd
    <3>13. CASE CaptureLeave
      BY <3>13 DEF CaptureLeave, DeviceShutdown
    <3>14. CASE CaptureFallbackThrows
      BY <3>14 DEF CaptureFallbackThrows
    <3>15. QED
      BY <2>3, <3>1, <3>2, <3>3, <3>4, <3>5, <3>6, <3>7, <3>8, <3>9, <3>10, <3>11, <3>12,
         <3>13, <3>14 DEF CaptureStep
  <2>4. CASE UNCHANGED vars
    BY <2>4 DEF vars
  <2>5. QED
    BY <2>1, <2>2, <2>3, <2>4, NextActions
<1>3. ThreadInv => ThreadAssignable /\ RunningHasThread
  BY DEF ThreadInv, ThreadAssignable, JoinedIsOver, JoinedBeforeCreate
<1>4. QED
  BY <1>1, <1>2, <1>3, TypeCorrect, PTL DEF Spec

\* A step out of the join is JoinDone, by that caller.
LEMMA OnlyJoinDoneLeaves ==
    ASSUME TypeOK, [Next]_vars, NEW c \in Callers, at[c] = "joining", at'[c] # "joining"
    PROVE  JoinDone(c)
<1> USE AudioAssumption DEF TypeOK, GoTo, Return, flags, thread, mutexes, locals
<1>1. ASSUME NEW d \in Callers, CallBegin(d) PROVE FALSE
  BY <1>1 DEF CallBegin, Initialize, Start, Stop, SetInputDevice, Begin
<1>2. ASSUME NEW d \in Callers, CallStep(d), ~JoinDone(c) PROVE FALSE
  <2>1. CASE d = c
    BY <1>2, <2>1 DEF CallStep, DeviceBegin, InitLock, InitReset, InitCreate,
       InitCreateFails, InitPublish, InitWait, StartCheck, StartLock, StartWait, StopFlag,
       StopLatch, StopWait, JoinLock
  <2>2. CASE d # c
    BY <1>2, <2>2 DEF CallStep, DeviceBegin, InitLock, InitReset, InitCreate,
       InitCreateFails, InitPublish, InitWait, StartCheck, StartLock, StartWait, StopFlag,
       StopLatch, StopWait, JoinLock, JoinDone, AfterJoin
  <2>3. QED
    BY <2>1, <2>2
<1>3. CASE CaptureStep \/ CaptureFallbackThrows
  BY <1>3 DEF CaptureStep, capUnchanged, CaptureInitDevice, CapturePublishInit,
     CaptureWaitStart, CaptureStartDevice, CapturePublishStart, CaptureThrows, CaptureCatch,
     CaptureLoopTest, CaptureSample, CaptureDeliver, CaptureCallbackEnd, CaptureLoopThrows,
     CaptureFallbackEnd, CaptureLeave, CaptureFallbackThrows
<1>4. CASE UNCHANGED vars
  BY <1>4 DEF vars
<1>5. QED
  BY <1>1, <1>2, <1>3, <1>4, NextActions

\* A completed join leaves no capture thread and no open device, whoever asked for it.
THEOREM StopQuiescesCorrect == Spec => StopQuiesces
<1>1. TypeOK /\ ThreadInv /\ [Next]_vars
      => [\A c \in Callers : at[c] = "joining" /\ at'[c] # "joining"
             => cap' \in Ended /\ device' = "closed"]_vars
  <2> SUFFICES ASSUME TypeOK, ThreadInv, [Next]_vars, NEW c \in Callers,
                      at[c] = "joining", at'[c] # "joining"
               PROVE  cap' \in Ended /\ device' = "closed"
    OBVIOUS
  <2>1. JoinDone(c)
    BY OnlyJoinDoneLeaves
  <2>2. cap' = cap /\ device' = device /\ cap \in Ended
    BY <2>1 DEF JoinDone, thread, ThreadInv, JoinedIsOver, TypeOK, Ended
  <2>3. QED
    BY <2>2 DEF ThreadInv, DeviceFollows
<1>2. QED
  BY <1>1, TypeCorrect, ThreadSafe, PTL DEF Spec, StopQuiesces

-----------------------------------------------------------------------------
(* The published results.                                                   *)

\* Initialize starts from cleared results.
ClearedBeforeCreate ==
    \A c \in Callers : at[c] = "initCreate" => ~initSucceeded /\ ~startRequested

\* A start is requested only of an initialised handler, and stays requested until the
\* next Initialize.
RequestFollows == /\ initSucceeded => initCompleted
                  /\ startRequested => initSucceeded

\* The capture thread publishes the initialisation before anyone can ask for a start,
\* and tries to start its device only when asked.
ThreadFollows ==
    /\ cap \in {"begin", "publishInit"} => ~initSucceeded /\ ~startRequested
    /\ cap \in {"startDevice", "publishStart"} => startRequested

\* An initialised handler that nobody has started or stopped has a thread that waits.
ReadyToStart ==
    initSucceeded /\ ~shutdown /\ ~startRequested => cap = "waitStart"

FlagsInv == /\ ClearedBeforeCreate /\ RequestFollows /\ ThreadFollows /\ ReadyToStart
            /\ FlagsConsistent

\* The published results agree with each other in every interleaving.
THEOREM FlagsConsistentCorrect == Spec => [](FlagsInv /\ FlagsConsistent)
<1>1. Init => FlagsInv
  BY AudioAssumption DEF Init, FlagsInv, ClearedBeforeCreate, RequestFollows, ThreadFollows,
     ReadyToStart, FlagsConsistent
<1>2. TypeOK /\ ThreadInv /\ FlagsInv /\ [Next]_vars => FlagsInv'
  <2> SUFFICES ASSUME TypeOK, ThreadInv, FlagsInv, [Next]_vars PROVE FlagsInv'
    OBVIOUS
  <2>0. JoinedIsOver /\ JoinedBeforeCreate
    BY DEF ThreadInv
  <2>a. \A c, d \in Callers : at[c] = "initCreate" /\ at[d] = "initReset" => c = d
    BY DEF ThreadInv, OneInitialize, InInitialize
  <2> HIDE DEF ThreadInv
  <2> USE AudioAssumption, <2>0, <2>a DEF TypeOK, FlagsInv, ClearedBeforeCreate, RequestFollows,
          ThreadFollows, ReadyToStart, FlagsConsistent, JoinedIsOver, JoinedBeforeCreate,
          Ended, GoTo, Return, flags, thread, mutexes, locals
  <2>1. ASSUME NEW c \in Callers, CallBegin(c) PROVE FlagsInv'
    BY <2>1 DEF CallBegin, Initialize, Start, Stop, SetInputDevice, Begin
  <2>2. ASSUME NEW c \in Callers, CallStep(c) PROVE FlagsInv'
    <3>1. CASE DeviceBegin(c)
      BY <3>1 DEF DeviceBegin
    <3>2. CASE InitLock(c)
      BY <3>2 DEF InitLock
    <3>3. CASE InitReset(c)
      BY <3>3 DEF InitReset
    <3>4. CASE InitCreate(c)
      BY <3>4 DEF InitCreate
    <3>5. CASE InitCreateFails(c)
      BY <3>5 DEF InitCreateFails
    <3>6. CASE InitPublish(c)
      BY <3>6 DEF InitPublish
    <3>7. CASE InitWait(c)
      BY <3>7 DEF InitWait
    <3>8. CASE StartCheck(c)
      BY <3>8 DEF StartCheck
    <3>9. CASE StartLock(c)
      BY <3>9 DEF StartLock, StartRefused
    <3>10. CASE StartWait(c)
      BY <3>10 DEF StartWait
    <3>11. CASE StopFlag(c)
      BY <3>11 DEF StopFlag
    <3>12. CASE StopLatch(c)
      BY <3>12 DEF StopLatch
    <3>13. CASE StopWait(c)
      BY <3>13 DEF StopWait
    <3>14. CASE JoinLock(c)
      BY <3>14 DEF JoinLock
    <3>15. CASE JoinDone(c)
      BY <3>15 DEF JoinDone, AfterJoin
    <3>16. QED
      BY <2>2, <3>1, <3>2, <3>3, <3>4, <3>5, <3>6, <3>7, <3>8, <3>9, <3>10, <3>11, <3>12,
         <3>13, <3>14, <3>15 DEF CallStep
  <2>3. CASE CaptureStep \/ CaptureFallbackThrows
    <3> USE DEF capUnchanged
    <3>1. CASE CaptureInitDevice
      BY <3>1 DEF CaptureInitDevice, DeviceInitialize
    <3>2. CASE CapturePublishInit
      BY <3>2 DEF CapturePublishInit, DeviceShutdown
    <3>3. CASE CaptureWaitStart
      BY <3>3 DEF CaptureWaitStart, DeviceShutdown
    <3>4. CASE CaptureStartDevice
      BY <3>4 DEF CaptureStartDevice, DeviceStart
    <3>5. CASE CapturePublishStart
      BY <3>5 DEF CapturePublishStart, DeviceShutdown
    <3>6. CASE CaptureThrows
      BY <3>6 DEF CaptureThrows
    <3>7. CASE CaptureCatch
      BY <3>7 DEF CaptureCatch
    <3>8. CASE CaptureLoopTest
      BY <3>8 DEF CaptureLoopTest
    <3>9. CASE CaptureSample \/ CaptureDeliver
      BY <3>9 DEF CaptureSample, CaptureDeliver
    <3>10. CASE CaptureCallbackEnd
      BY <3>10 DEF CaptureCallbackEnd
    <3>11. CASE CaptureLoopThrows
      BY <3>11 DEF CaptureLoopThrows
    <3>12. CASE CaptureFallbackEnd
      BY <3>12 DEF CaptureFallbackEnd
    <3>13. CASE CaptureLeave
      BY <3>13 DEF CaptureLeave, DeviceShutdown
    <3>14. CASE CaptureFallbackThrows
      BY <3>14 DEF CaptureFallbackThrows
    <3>15. QED
      BY <2>3, <3>1, <3>2, <3>3, <3>4, <3>5, <3>6, <3>7, <3>8, <3>9, <3>10, <3>11, <3>12,
         <3>13, <3>14 DEF CaptureStep
  <2>4. CASE UNCHANGED vars
    BY <2>4 DEF vars
  <2>5. QED
    BY <2>1, <2>2, <2>3, <2>4, NextActions
<1>3. FlagsInv => FlagsConsistent
  BY DEF FlagsInv
<1>4. QED
  BY <1>1, <1>2, <1>3, TypeCorrect, ThreadSafe, PTL DEF Spec

\* A step out of Initialize's wait that goes on as a success found a success published.
LEMMA OnlyInitWaitLeaves ==
    ASSUME TypeOK, [Next]_vars, NEW c \in Callers, at[c] = "initWait",
           at'[c] \in {"idle", "startCheck"}
    PROVE  initSucceeded /\ ~shutdown
<1> USE AudioAssumption DEF TypeOK, GoTo, Return, flags, thread, mutexes, locals
<1>1. ASSUME NEW d \in Callers, CallBegin(d) PROVE FALSE
  BY <1>1 DEF CallBegin, Initialize, Start, Stop, SetInputDevice, Begin
<1>2. ASSUME NEW d \in Callers, CallStep(d) PROVE initSucceeded /\ ~shutdown
  <2>1. CASE d = c
    BY <1>2, <2>1 DEF CallStep, DeviceBegin, InitLock, InitReset, InitCreate,
       InitCreateFails, InitPublish, InitWait, StartCheck, StartLock, StartWait, StopFlag,
       StopLatch, StopWait, JoinLock, JoinDone
  <2>2. CASE d # c
    BY <1>2, <2>2 DEF CallStep, DeviceBegin, InitLock, InitReset, InitCreate,
       InitCreateFails, InitPublish, InitWait, StartCheck, StartLock, StartWait, StopFlag,
       StopLatch, StopWait, JoinLock, JoinDone, AfterJoin
  <2>3. QED
    BY <2>1, <2>2
<1>3. CASE CaptureStep \/ CaptureFallbackThrows
  BY <1>3 DEF CaptureStep, capUnchanged, CaptureInitDevice, CapturePublishInit,
     CaptureWaitStart, CaptureStartDevice, CapturePublishStart, CaptureThrows, CaptureCatch,
     CaptureLoopTest, CaptureSample, CaptureDeliver, CaptureCallbackEnd, CaptureLoopThrows,
     CaptureFallbackEnd, CaptureLeave, CaptureFallbackThrows
<1>4. CASE UNCHANGED vars
  BY <1>4 DEF vars
<1>5. QED
  BY <1>1, <1>2, <1>3, <1>4, NextActions

\* When Initialize reports success its device is open and its thread waits to be
\* started, unless somebody has asked for the start already.
THEOREM InitializeTruthfulCorrect == Spec => InitializeTruthful
<1>1. TypeOK /\ ThreadInv /\ FlagsInv /\ [Next]_vars
      => [\A c \in Callers : at[c] = "initWait" /\ at'[c] \in {"idle", "startCheck"}
             => startRequested \/ (cap = "waitStart" /\ device = "open")]_vars
  <2> SUFFICES ASSUME TypeOK, ThreadInv, FlagsInv, [Next]_vars, NEW c \in Callers,
                      at[c] = "initWait", at'[c] \in {"idle", "startCheck"}
               PROVE  startRequested \/ (cap = "waitStart" /\ device = "open")
    OBVIOUS
  <2>1. initSucceeded /\ ~shutdown
    BY OnlyInitWaitLeaves
  <2>2. QED
    BY <2>1 DEF FlagsInv, ReadyToStart, ThreadInv, DeviceFollows
<1>2. QED
  BY <1>1, TypeCorrect, ThreadSafe, FlagsConsistentCorrect, PTL DEF Spec, InitializeTruthful
-----------------------------------------------------------------------------
(***************************************************************************)
(* Why nobody waits for an answer that nobody will give.  The thread an    *)
(* Initialize waits for is the one it created, since no other Initialize   *)
(* is under way.  A Start is admitted only when the thread waits for it    *)
(* (ReadyToStart); the request disappears only with the reset of an        *)
(* Initialize, which no stopper makes (ControllersOnly).                   *)
(***************************************************************************)
ControllersOnly ==
    \A c \in Callers :
        /\ op[c] \in {"init", "reinit", "initFailed", "device", "start"} => c \in Controllers
        /\ at[c] \in {"startCheck", "startLock", "startWait"} => op[c] = "start"

\* The answer to an Initialize is due from the moment its thread exists.
CreatorAnswered ==
    \A c \in Callers : at[c] = "initPublish" => initCompleted \/ shutdown \/ cap \in AnswersInit

WaitInv == ControllersOnly /\ CreatorAnswered /\ WaiterAnswered

\* A caller that waits for the result of an initialisation or of a start finds it, or a
\* shutdown, or a capture thread that will publish it.
THEOREM WaiterAnsweredCorrect == Spec => []WaiterAnswered
<1>1. Init => WaitInv
  BY DEF Init, WaitInv, ControllersOnly, CreatorAnswered, WaiterAnswered
<1>2. TypeOK /\ ThreadInv /\ FlagsInv /\ WaitInv /\ [Next]_vars => WaitInv'
  <2> SUFFICES ASSUME TypeOK, ThreadInv, FlagsInv, WaitInv, [Next]_vars PROVE WaitInv'
    OBVIOUS
  <2>0. \A c, d \in Callers : at[c] \in {"initPublish", "initWait"}
            /\ at[d] \in {"initReset", "initCreate"} => c = d
    BY DEF ThreadInv, OneInitialize, InInitialize
  <2>a. \A c \in Callers : at[c] \in {"initReset", "initCreate"} => c \in Controllers
    BY DEF ThreadInv, OpFollows, WaitInv, ControllersOnly
  <2> USE AudioAssumption, <2>0, <2>a DEF TypeOK, WaitInv, ControllersOnly, CreatorAnswered,
          WaiterAnswered, AnswersInit, AnswersStart, GoTo, Return, flags, thread, mutexes, locals
  <2>1. CASE CallBegins
    BY <2>1 DEF CallBegins, Callers, Initialize, Start, Stop, SetInputDevice, Begin
  <2>2. ASSUME NEW c \in Callers, CallStep(c) PROVE WaitInv'
    <3>1. CASE DeviceBegin(c)
      BY <3>1 DEF DeviceBegin
    <3>2. CASE InitLock(c)
      BY <3>2 DEF InitLock
    <3>3. CASE InitReset(c)
      BY <3>3 DEF InitReset
    <3>4. CASE InitCreate(c)
      BY <3>4 DEF InitCreate, FlagsInv, ClearedBeforeCreate
    <3>5. CASE InitCreateFails(c)
      BY <3>5 DEF InitCreateFails, FlagsInv, ClearedBeforeCreate
    <3>6. CASE InitPublish(c)
      BY <3>6 DEF InitPublish
    <3>7. CASE InitWait(c)
      BY <3>7 DEF InitWait, ThreadInv, OpFollows
    <3>8. CASE StartCheck(c)
      BY <3>8 DEF StartCheck
    <3>9. CASE StartLock(c)
      BY <3>9 DEF StartLock, StartRefused, FlagsInv, ReadyToStart
    <3>10. CASE StartWait(c)
      BY <3>10 DEF StartWait
    <3>11. CASE StopFlag(c)
      BY <3>11 DEF StopFlag
    <3>12. CASE StopLatch(c)
      BY <3>12 DEF StopLatch
    <3>13. CASE StopWait(c)
      BY <3>13 DEF StopWait
    <3>14. CASE JoinLock(c)
      BY <3>14 DEF JoinLock
    <3>15. CASE JoinDone(c)
      BY <3>15 DEF JoinDone, AfterJoin
    <3>16. QED
      BY <2>2, <3>1, <3>2, <3>3, <3>4, <3>5, <3>6, <3>7, <3>8, <3>9, <3>10, <3>11, <3>12,
         <3>13, <3>14, <3>15 DEF CallStep
  <2>3. CASE CaptureStep \/ CaptureFallbackThrows
    <3> USE DEF capUnchanged
    <3>1. CASE CaptureInitDevice
      BY <3>1 DEF CaptureInitDevice
    <3>2. CASE CapturePublishInit
      BY <3>2 DEF CapturePublishInit
    <3>3. CASE CaptureWaitStart
      BY <3>3 DEF CaptureWaitStart
    <3>4. CASE CaptureStartDevice
      BY <3>4 DEF CaptureStartDevice
    <3>5. CASE CapturePublishStart
      BY <3>5 DEF CapturePublishStart
    <3>6. CASE CaptureThrows
      BY <3>6 DEF CaptureThrows
    <3>7. CASE CaptureCatch
      BY <3>7 DEF CaptureCatch
    <3>8. CASE CaptureLoopTest \/ CaptureSample \/ CaptureDeliver
               \/ CaptureCallbackEnd \/ CaptureLoopThrows
      BY <3>8 DEF CaptureLoopTest, CaptureSample, CaptureDeliver, CaptureCallbackEnd,
         CaptureLoopThrows
    <3>9. CASE CaptureFallbackEnd \/ CaptureLeave \/ CaptureFallbackThrows
      BY <3>9 DEF CaptureFallbackEnd, CaptureLeave, CaptureFallbackThrows
    <3>10. QED
      BY <2>3, <3>1, <3>2, <3>3, <3>4, <3>5, <3>6, <3>7, <3>8, <3>9 DEF CaptureStep
  <2>4. CASE UNCHANGED vars
    BY <2>4 DEF vars
  <2>5. QED
    BY <2>1, <2>2, <2>3, <2>4 DEF Next
<1>3. WaitInv => WaiterAnswered
  BY DEF WaitInv
<1>4. QED
  BY <1>1, <1>2, <1>3, TypeCorrect, ThreadSafe, FlagsConsistentCorrect, PTL DEF Spec
-----------------------------------------------------------------------------
(***************************************************************************)
(* The handler implements a capture source.  Only the capture thread, a    *)
(* Stop's write of m_isRunning and the creation of a new thread change     *)
(* what the source is; every other step of a call leaves it alone.         *)
(***************************************************************************)
Phase == IF isRunning THEN "running"
         ELSE IF cap \in Looping \cup {"leaving"} THEN "stopping"
         ELSE IF cap = "exited" THEN "stopped" ELSE "new"

Delivery == IF cap = "admitted" THEN "admitted"
            ELSE IF cap = "callback" THEN "begun" ELSE "none"

\* However calls interleave with it, the capture thread is what a capture source is.
THEOREM ImplementsSourceCorrect == Spec => ImplementsSource
<1>1. Init => Source!Init
  BY DEF Init, Source!Init, Looping
<1>2. ThreadInv /\ [Next]_vars => [Source!Next]_(Source!sourceVars)
  <2> SUFFICES ASSUME ThreadInv, [Next]_vars
               PROVE  Source!Next \/ UNCHANGED << Phase, Delivery >>
    BY DEF Source!sourceVars, Phase, Delivery
  <2>0. isRunning => cap \in Looping
    BY DEF ThreadInv, RunningHasThread
  <2>1. ASSUME UNCHANGED << isRunning, cap >> PROVE UNCHANGED << Phase, Delivery >>
    BY <2>1 DEF Phase, Delivery
  <2>2. ASSUME NEW c \in Callers, CallBegin(c) PROVE UNCHANGED << isRunning, cap >>
    BY <2>2 DEF CallBegin, Initialize, Start, Stop, SetInputDevice, Begin, thread
  <2>3. ASSUME NEW c \in Callers, CallStep(c)
        PROVE  Source!Next \/ UNCHANGED << Phase, Delivery >>
    <3>1. CASE InitCreate(c)
      <4>1. ~isRunning /\ cap \in Ended
        BY <2>0, <3>1 DEF InitCreate, ThreadInv, JoinedIsOver, JoinedBeforeCreate, Ended, Looping
      <4>2. ~isRunning' /\ cap' = "begin"
        BY <3>1, <4>1 DEF InitCreate
      <4>3. QED
        BY <4>1, <4>2 DEF Phase, Delivery, Ended, Looping, Source!Next, Source!Renew
    <3>2. CASE StopFlag(c)
      BY <2>0, <3>2 DEF StopFlag, thread, Phase, Delivery, Looping, Source!Next, Source!AskStop
    <3>3. CASE ~InitCreate(c) /\ ~StopFlag(c)
      <4>1. UNCHANGED << isRunning, cap >>
        BY <2>3, <3>3 DEF CallStep, DeviceBegin, InitLock, InitReset, InitCreateFails,
           InitPublish, InitWait, StartCheck, StartLock, StartWait, StopLatch, StopWait,
           JoinLock, JoinDone, thread
      <4>2. QED
        BY <2>1, <4>1
    <3>4. QED
      BY <3>1, <3>2, <3>3
  <2>4. CASE CaptureStep \/ CaptureFallbackThrows
    <3> USE <2>0 DEF Phase, Delivery, Looping, Source!Next
    <3>1. CASE CaptureInitDevice \/ CaptureStartDevice \/ CaptureThrows
      BY <3>1 DEF CaptureInitDevice, CaptureStartDevice, CaptureThrows
    <3>2. CASE CapturePublishInit \/ CaptureWaitStart
      BY <3>2 DEF CapturePublishInit, CaptureWaitStart, Source!Stopped
    <3>3. CASE CapturePublishStart
      BY <3>3 DEF CapturePublishStart, Source!Start, Source!Stopped
    <3>4. CASE CaptureCatch
      BY <3>4 DEF CaptureCatch, Source!AskStop
    <3>5. CASE CaptureLoopTest \/ CaptureFallbackEnd
      BY <3>5 DEF CaptureLoopTest, CaptureFallbackEnd
    <3>6. CASE CaptureSample \/ CaptureDeliver
      BY <3>6 DEF CaptureSample, CaptureDeliver, Source!Admit, Source!Deliver, Source!Delivered
    <3>7. CASE CaptureCallbackEnd \/ CaptureLoopThrows
      BY <3>7 DEF CaptureCallbackEnd, CaptureLoopThrows, Source!Delivered
    <3>8. CASE CaptureFallbackThrows
      BY <3>8 DEF CaptureFallbackThrows, Source!AskStop
    <3>9. CASE CaptureLeave
      BY <3>9 DEF CaptureLeave, Source!Stopped
    <3>10. QED
      BY <2>4, <3>1, <3>2, <3>3, <3>4, <3>5, <3>6, <3>7, <3>8, <3>9 DEF CaptureStep
  <2>5. CASE UNCHANGED vars
    BY <2>1, <2>5 DEF vars, thread
  <2>6. QED
    BY <2>1, <2>2, <2>3, <2>4, <2>5, NextActions
<1>3. QED
  BY <1>1, <1>2, ThreadSafe, PTL DEF Spec, ImplementsSource, Source!Spec
=============================================================================
