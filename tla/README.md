# CaptureKit in TLA+

CaptureKit records a display, a window or a rectangle to an MP4 file, with system
audio and a microphone, and records audio alone to a WAV file. A managed API
(`CaptureKit.Windows`) calls exported functions (`CaptureKit.Windows.Native.Recording`)
over a native core (`CaptureKit.Windows.Native.Core`). This directory holds TLA+ modules
of the core's concurrent parts, TLC configurations that check them on small instances,
and TLAPS proofs of the main safety properties for every instance.

Paths below are relative to `src/CaptureKit.Windows.Native.Core/` unless they say more.

## Inventory

| Component | State | Operations | Hard because | Correct when |
|---|---|---|---|---|
| Frame mailbox: `FrameArrivedHandler`, `FrameAdmissionController` | one pending frame, run and stop flags, counters, last accepted timestamp | `Invoke`, `Stop`, processing thread, COM references | frame-pool threads, stoppers and one thread share a mutex, a condition variable and the object's life; the running flag is tested before a callback and changes under it; the clock changes its time base | no callback outlives Stop, frames are delivered in order and spaced, counted, and not left in the mailbox; Stop returns |
| Audio thread: `AudioCaptureHandler`, `AudioCaptureDevice` | result flags, shutdown flag, `std::thread`, device | `Initialize`, `Start`, `Stop`, `SetInputDevice`, capture thread | each call waits for the thread's answer, Stop may come at any point, exceptions anywhere | waits end, results agree, no thread or device is left behind |
| Recording session: `WindowsGraphicsCaptureSession`, `CaptureSessionState` | state machine, shutdown and cleanup flags, sources, sink, clock | `Initialize`, `Start`, `Stop`, `Pause`, `Resume`, audio controls, callbacks | fallbacks when audio or a sink fails, deliveries during every call | nothing delivered outside a live recording with an open file; the file is not reopened |
| Callbacks: `CallbackRegistry`, `CallbackHandle` | map of callbacks, next id, handles | `Register`, `Unregister`, `Clear`, `Invoke` | Invoke calls copies without the mutex; handles are replaced by assignment | registrations are neither leaked nor taken away by another's handle |
| Media clock: `SimpleMediaClock`, `MediaTimeConstants` | start, pause start, paused total, audio time | `Start`, `Pause`, `Resume`, `Reset`, `AdvanceByAudioSamples` | audio threads advance it, partly without its lock, while the control thread pauses it; the device hands packets over late | time never goes back, a pause adds nothing that its thread saw |
| Audio mixing: `CompositeAudioCaptureSource` | loopback and input source, input buffer with a read offset | `Start`, `Stop`, `SetInputDeviceId`, mix on the loopback thread | input source replaced while mixing, trim and compact of the buffer | each input frame is mixed at most once |
| Video source: `WindowsDesktopVideoCaptureSource`, `CaptureDimensionPolicy` | device, frame pool, session, handler | `Initialize`, `Start`, `Stop` | registration and removal against in-flight frames | handler stopped before it is released |
| MP4 sink: `WindowsMFMP4SinkWriter`, `SampleBuilder`, `TextureProcessor` | writer, streams, begun, previous timestamp | `Initialize`, `BeginWriting`, writes, `Finalize` | both streams' threads against finalisation | writes only between begin and finalise, timestamps increase |
| Audio-only session: `WindowsAudioCaptureSession`, `WindowsWaveSinkWriter` | state machine, source, file sizes | lifecycle calls, sample callback | 32-bit RIFF sizes, samples at a pause | header agrees with the data |
| Recorders: `ScreenRecorderImpl`, `AudioRecorderImpl`, exports, re-entrancy guard | session, last callbacks, `g_recorderMutex` | start, stop, pause, ... | roll-back of a failed start, calls from inside a callback | at most one session; a failed start leaves none |
| Media Foundation lifetime: `MediaFoundationLifecycleManager` | process-wide count | constructor, destructor | several sinks | started while anyone uses it |
| Managed services: `VideoCaptureService.cs`, `AudioCaptureService.cs` | owner of the native recorder, sessions, pinned delegates | session start, stop, dispose, callbacks | two sessions, two threads on one session | a session never touches another's recorder |
| Screenshots, configuration, results, factories, build | handles, values | one call each | I/O | - |

Who calls whom. The managed service calls an export, which takes `g_recorderMutex` and
calls the recorder, which calls the session: control calls reach a session one at a time.
The session gives each source a callback; the audio callback runs on the thread of
`AudioCaptureHandler`, the video callback on that of `FrameArrivedHandler`. Both write to
the sink and then `Invoke` the session's registry. Stop runs on the control thread while
both source threads are at any point of a delivery.

## Modules

| Module | Models | Notes |
|---|---|---|
| `FrameArrivedHandler` | the mailbox, `Invoke`, `Stop`, the processing thread, the owner's registration and release | `at` is where each caller of Stop is, `proc` where the thread is, `stamped` the frames of Invokes between their timestamp and the mutex. The gap inside `condition_variable::wait` between its predicate and its sleep is a point of its own (`blocking`), because Stop changes the predicate without the mutex |
| `FrameArrivedHandlerProofs` | proofs about it | |
| `AudioCaptureHandler` | the four calls, the join and the capture thread | `at` and `op` say which call a thread makes and where it is; the flags keep their names; a device is closed, open or started. A critical section of `m_stateMutex` is a step and a wait is a guard; the unlocked write of `m_isRunning` in Stop is a step of its own |
| `AudioCaptureHandlerProofs` | proofs about it | |
| `CallbackRegistry` | the registry and the handles | `replaced` is the token that a move assignment has still to destroy; `todo` and `calling` are an Invoke's copies |
| `CallbackRegistryProofs` | proofs about it | |
| `RecordingContract` | abstract: when a session, or a recorder of one session after the other (`Reusable`), delivers and what may happen to its file | three variables; implemented by `CaptureSession` and `AudioRecording` |
| `CaptureSource` | abstract: what a capture source promises to the one that uses it | two variables; implemented by `FrameArrivedHandler` and by `AudioCaptureHandler` (`Reusable`), used by `CaptureSession` |
| `RecorderOwnership` | abstract: one session at a time has the process's recorder, and client code runs for it alone | three variables; implemented by `VideoCaptureService` |
| `CaptureSession` | the session, composed with two instances of `CallbackRegistry`, a sink and two sources; implements `RecordingContract`, and uses each source as `CaptureSource` says | `control` is the control thread's point, `at` the source threads'; a call is cut where a source thread can see the difference. `wanted` and `encoderFailed` are history |
| `CaptureSessionProofs` | proofs about it | |
| `VideoCaptureService` | the managed sessions' Start, Stop, Cancel, Pause, Resume and Dispose, the exports' mutex, the recorder's session and callbacks, the delegates | `at`, `on` and `op` say which call a thread makes on which session and where it is. A native call is a step, except the two during which capture threads call back: Start (`starting`) and Stop (`stopping`) hold `mutex`. A delegate is the kind, session and Start it was made for |
| `VideoCaptureServiceProofs` | proofs about it | |
| `RecordingTimeline` | `SimpleMediaClock` with its three users: the session's control thread, the loop of the audio thread (`RunCaptureLoop`, its silences and its clock fallback) and the frame thread in `GetFrameTimestamp` | the clock's variables keep their names; `loop` and `frameAt` are the points of the two threads, cut where another thread's step makes a difference: a read of the device with the test of the pause, the reading of the counter after an empty read, the time stamp, the write, and `AdvanceByAudioSamples` in two steps, because it tests and adds without the lock. `Pause` and `Resume` of the clock are cut between the reading of the counter and the flag, which the audio thread reads without the lock. The device hands over packets in the order it recorded them and as late as it likes (`deviceEnd`). `recordedBy`, `filledTo`, `inHand`, `surplus`, `audioEnd`, `overlaps` are history |
| `RecordingTimelineProofs` | proofs about it | |
| `MixBuffer` | the microphone's buffer of `CompositeAudioCaptureSource`: insert, trim, compact and mix as operators on its length and read position | a frame is its index; the position is a rational with the denominator `OutRate`; `heard` is history |
| `CompositeAudioSource` | the composite source: creation, start and stop of both sources, the switch of the microphone, both sample callbacks; extends `MixBuffer` | `pc` is the control call's point, `new` and `old` its locals; `state` is one per source object, since a switch makes a new one. `held` says whose frames the buffer holds |
| `CompositeAudioSourceProofs` | proofs about it and `MixBuffer` | |
| `AudioRecording` | audio-only recordings: managed sessions, the exports' mutex and re-entrancy guard, the recorder, its session and the WAV file | as `VideoCaptureService`, but with nobody owning the recorder and handlers that call any session; a packet is let in by the test of the session's state (`packet`) and written and handed to the callback (`delivering`) in a step of its own, so that a Pause or a Stop may fall between; the session is active before the export that starts it returns. `bytes` is what is in the file, `counted`, `riff` and `data` what the code says is |
| `AudioRecordingProofs` | proofs about it | |

Each module carries its own mutants: an operator whose comment begins with "Mutant" is a
plausible bug of the operator after it. They belong to no specification; each makes one
property fail when it takes the other's place.

What is abstracted: a frame is its timestamp, an audio buffer is nothing at all, an
HRESULT is success or failure, an open device or file is a state; every Windows call may
succeed or fail. In `CaptureSession` a source is reduced to what its own module promises:
a Stop asks the thread to end and returns when the delivery in progress is over, at most
the delivery already admitted begins after that, and a stopped source does not start again
(`CaptureSource`, see "How the modules fit together"). A source whose Start failed half way (the frame
handler is registered but `StartCapture` failed) is `registered`. Switching the
microphone keeps the loopback format, so audio stays available; a switch that fails
(`SwitchFails`) returns without writing the enabled flag back.

## Runs

| Run | Bounds | Shows |
|---|---|---|
| `frame` | 2 Invokes at once, 1 more stopper, 3 frames or fewer, fair | the refinement of `CaptureSource`, so that no callback outlives Stop; `EveryFrameAccounted`, `DeliveredSpaced`; a pending frame is taken; Stop returns unless it finds the thread asleep or going to sleep |
| `frame_hang` | 1 Invoke, the owner alone, 2 frames, fair | violated: Stop can wait for ever |
| `audio` | 1 controller, 2 stoppers, 5 calls, fair | a thread object is free when it is assigned, a join leaves no thread and no device, a successful Initialize is true, the waits of Initialize and Start end, a call that nothing overlaps returns; the refinement of `CaptureSource` |
| `audio_hang` | 1 controller, 1 stopper, 3 calls, fair | violated: a Stop that overlaps an Initialize or a Start can wait for ever |
| `registry` | 2 owners, 2 Invokes at once, 3 registrations | nothing leaked, nothing taken away |
| `registry_after_unregister` | 1 owner, 1 Invoke | violated: a copy is called after Unregister |
| `session` | 2 registrations of each callback, fair | `StaysStopped` (after a stop nothing is delivered or opened again), `FailedStartLeavesNothingRunning`, `MuteHasCause`, the refinement of `RecordingContract`, the use of each source as a `CaptureSource`, and that every call returns |
| `video` | 2 sessions, 2 client threads, 3 Starts, fair | ownership and `IsRecording` agree with the native recorder, callbacks are the owner's, delegates stay rooted, every call returns; the refinement of `RecorderOwnership` |
| `timeline` | counter values 1 to 5, 2 pauses | relative time is the time recorded without the pauses; the audio clock is never ahead of it, but by pauses its thread did not see and by packets that came after a silence was filled in for them; a sample is written over another at most once per pause; video time goes back only when the audio clock takes over, or in a frame that slept through a pause |
| `composite` | 3 source objects, packets of 1 to 3 frames, 4 sample rates | the buffer is bounded, a frame is mixed once (an overflow apart); after a switch only the selected microphone captures and is heard, whatever start in it failed |
| `audio_recording` | 2 sessions, 2 client threads and the capture thread, 2 Starts, a file of 4 units with `Wrap` 4, fair | a session that says it records has the recording, and a recording has a session that can stop it, unless that session was stopped inside a callback (its `IsRecording` is false and nothing stops the recording any more); no dropped delegate is kept; the header describes the data, as far as 32 bits go, and promises no more than the file holds whatever failed; nobody waits in a circle (`NoCyclicWait`) and every call returns; the refinement of `RecordingContract` |
| `session_restart` | Start allowed on a paused session | violated: Start goes on from Paused |

The bounds. Two Invokes can enqueue in the opposite order of their timestamps, and three
frames cover one delivered, one in hand and one in the mailbox. Timestamps run past one
frame duration, so that both answers of the filter occur. One controller and two stoppers
have the thread answer before, between and after two Stops that race for the join; five
calls are an Initialize, a Start, two Stops and one more Initialize or device switch. Two
controllers, whose Initializes overlap, are left to the proofs. Two registrations make a callback be replaced
once while its copy is being called. Two managed sessions are
an owner and a rival; three Starts let one fail, another follow it with callbacks that
could not be unregistered, and the first session start again. In `timeline` the counter has 3 ticks a second, media time 4 and audio 2: no rate divides
another, so every conversion rounds, and `SilenceTicks` is two ticks of the counter. Five values
of the counter hold a start, two pauses with time in and between them, and a stop, a silence
that is filled in before the device hands over what it recorded meanwhile, a pause that the
audio thread does not see, two overlaps and the fallback after a fault: each was found by
asking TLC for a state without it. In
`composite` the rates are half, equal to, one and a half and two and a half times that of
the loopback; with those rates 500 milliseconds are 2 to 10 frames, so two or more
packets overflow the buffer, and `CompactFrames` 3 (4096 in the code) lies among the read
positions that occur. Three source objects are a current, a failed and a new microphone.
In `audio_recording` a file of `MaxBytes` 4 is past `Wrap`, so that both the clamp of the
data size and the wrap of the RIFF size happen; two Starts are a recording and a rival.
`MaxCalls`, `MaxFrames`, `MaxTime`, `MaxPauses`, `MaxPacket`, `MaxBytes`, `MaxId`, `Sources`
and `MaxStarts` are bounds of the model, not of the code; the proofs hold for every value of them.

Deadlock. The runs of `AudioCaptureHandler` say `CHECK_DEADLOCK FALSE`: no call is owed,
and after the last of `MaxCalls` calls the handler really stands still, its thread
waiting for a Start. A wait that never ends is caught by `WaitsEnd` and
`LoneCallReturns` instead. `FrameArrivedHandler` ends in `Terminated`, once the object
is destroyed; any other standstill is a deadlock, which is why its runs that admit the
lost wake-up keep `SpuriousWakeup` (a condition variable may wake up unasked, nothing
promises it).

`VideoCaptureService` and `AudioRecording` say it too: every session may be disposed, and
`CallsReturn` catches a call that waits for ever. `RecordingTimeline` stops when the
counter's bound is reached and the recording is over, `CompositeAudioSource` when all
sources of its bound have been used and stopped; both check safety alone.

Fairness. Weak fairness of the steps of a thread that is inside a call or a loop: the
scheduler runs it, a Windows call and the client's callback return, a free mutex is
given to somebody. New calls, new frames, exceptions in the clock fallback and spurious
wake-ups are never owed. `CaptureSession` further assumes that a source's Stop returns when
the delivery in progress is over; the runs on `FrameArrivedHandler` and
`AudioCaptureHandler` say how far that is so. `VideoCaptureService` assumes the same of
the native Start and Stop, and that a client's handler returns, and `AudioRecording` the same; a handler that calls a
session is refused by the re-entrancy guards, without which `CallsReturn` fails.

## What the violated runs say

- `StopReturns`: `FrameArrivedHandler::Stop` clears `m_running` and notifies without
  `m_queueMutex` (98-99). Both can fall between the predicate and the sleep of the wait
  (261); the thread never wakes and the join (103) never returns. `StopReturnsWhenNotAsleep`
  shows that there is no other way to hang.
- `StopReturns` of `AudioCaptureHandler`: Stop clears `m_isRunning` (251) before it takes
  the mutex; a start published in between (457) sets it again and the loop runs on. Also,
  Initialize clears the shutdown request of a Stop that has not joined yet (116) and
  creates the thread which that Stop then joins (279). Both need two control threads on
  one handler; `g_recorderMutex` prevents that today, though the comments promise it.
  `LoneCallReturns` shows that without an overlap every call returns.
- `NotInvokedAfterUnregister`: `CallbackRegistry::Invoke` calls copies.
- `StartsOnlyFromInitialized`: `Start` accepts a paused session. No caller does this.

## How the modules fit together

A source's module is far more detailed than the source that a session sees, and the two
are tied by `CaptureSource`:

- `FrameArrivedHandler` and `AudioCaptureHandler` implement it (`ImplementsSource`): no
  delivery is admitted once the source was told to stop, so that at most the one whose test
  of the running flag came before still begins (the test, `FrameArrivedHandler.cpp:280` and
  `AudioCaptureHandler.cpp:550` and 630, and the callback are two steps, and Stop takes no
  lock between them); one runs at a time, and the thread ends and is replaced only when none
  is admitted or in progress. The frame handler has one life, the audio handler one
  after each Initialize (`Reusable`).
- `CaptureSession` reduces each source to a state, admits its deliveries and begins them in
  two steps (`SampleAdmitted`, `SampleArrives`), and moves it only as a `CaptureSource` of
  one life may move (`UsesSources`): what it assumes of its sources they were proved to do.
  The session's audio source is the composite of `CompositeAudioSource`, whose switch of the
  microphone stops one handler and starts another; the session sees one running source.
- `CaptureSession` in turn implements `RecordingContract`, and so does `AudioRecording`, the
  recorder of audio-only recordings, which makes one session after the other. There a packet
  that was let in is a delivery of the contract before it is written. The
  abstract step `Renew` is guarded by the end of the last recording, its file shut and no
  handler running.
- `VideoCaptureService`, in which a native session is one state, implements
  `RecorderOwnership`.

What this argument leaves out: liveness. That a source's Stop returns is assumed in
`CaptureSession`, and `frame_hang` and `audio_hang` say when it is not so.

## Proofs

All theorems are `Spec => []P`, `Spec => [][A]_vars` or, for a refinement,
`Spec => Abstract!Spec`, for any number of threads, calls,
frames and registrations, from the assumptions in the modules (`HandlerAssumption`,
`AudioAssumption`, `RegistryAssumption`, `SessionAssumption`, `ServiceAssumption`,
`TimelineAssumption`, `BufferAssumption`, `SourceAssumption`: the sets of threads are disjoint, the bounds are
natural numbers, rates are positive, the "none" values are distinct from real ones; the
dispatchers are finitely many because their frames are counted).

`FrameArrivedHandlerProofs`
- `TypeCorrect`. `TypeOK` alone is not inductive: a frame delivered must be a frame, so
  `HoldsFrame` says when the thread holds one, and `NotStarted` that the owner starts the
  thread once.
- `StopSafe`: `NoCallbackAfterStop` and `DestroyedOnlyAfterThreadEnds`. The invariant
  `StopInv` says who can have won the exchange: helpers call only while the owner keeps
  its reference, "returned" means the thread is over, the stopped flag stays, and there is
  one winner. Without the last, the owner's own losing Stop could release an object whose
  winner has not joined.
- `EveryFrameAccountedCorrect`: each step moves a frame between the terms of a sum;
  `StampingCount` gives the cardinality of the set of stamped frames, and
  `SignalledMeansStopped` that Stop empties the mailbox only when nothing is claimed.
- `DeliveredSpacedCorrect`: the filter's memory is the last delivered timestamp.
- `SleepsOnlyWhenEmptyCorrect`: a frame is stored under the mutex that the thread gives up
  only in its sleep, so it is seen by the predicate or the thread is there to be woken.
- `JoinedThreadEndsCorrect`, from `StopInv`: "join" is reached after `m_running` was
  cleared, and nothing sets it again, so each test of the thread leads on to its end. Its
  measure, `StepsLeft`, is the part of `StopReturnsWhenNotAsleep` that needs no fairness.
- `ImplementsSourceCorrect`: the phase is "stopped" from the return of the Stop that won,
  which `StopInv` makes unique and final; `NothingYet` covers the time before the start. A
  callback is admitted by the test of `m_running` and begun after the filter, whatever
  became of the flag; the join is what ends it before Stop returns.

`AudioCaptureHandlerProofs`
- `ThreadSafe`: `ThreadAssignable` and `RunningHasThread`. `OneInitialize` (who is inside
  Initialize holds its mutex) makes the join of line 99 still true at the assignment of
  line 125; `JoinedIsOver` ties the thread object to the thread; `DeviceFollows` says what
  the device is at each point of the thread.
- `StopQuiescesCorrect`, from the same invariant: a completed join leaves nothing behind.
- `FlagsConsistentCorrect`: results are cleared before a thread is created and a start is
  requested only of an initialised handler, so no latch by Stop or by the exception
  handler can contradict another.
- `InitializeTruthfulCorrect`, from `ReadyToStart`.
- `WaiterAnsweredCorrect`, from `ControllersOnly` (which threads are in which call) and
  `CreatorAnswered` (from the creation of the thread on, the result of the initialisation
  is there or due). It is the safety part of `WaitsEnd`. It leaves one case out: the Stop inside
  another controller's Initialize latches the answer of a start, and Initialize resets it
  (112-116) before the waiter has run; `WaitsEnd` holds for one controller only. The
  recorder's mutex keeps today's callers from overlapping the two.
- `ImplementsSourceCorrect`, for any number of controllers and stoppers whose calls overlap
  as they like. A delivery is admitted by the test of `m_isRunning` and begun in a later
  step, which a Stop may precede. The source is told to stop when `m_isRunning` goes from true to false, so a
  Stop that clears it before a start sets it (one of the two cases of `audio_hang`) counts
  as one that came before the start: the refinement says nothing of it.

`CallbackRegistryProofs`
- `NoLeakedCallbackCorrect` and `OwnRegistrationStandsCorrect`, from `IdsAreOwned`: ids held
  by handles and tokens are below the counter and pairwise different.

`VideoCaptureServiceProofs`
- `RecordingTruthfulCorrect`, `CallbacksOfOwnerCorrect`, `CallbackTargetRootedCorrect` and
  `ObserversSeeRecordingCorrect`, for any number of sessions, client threads and Starts,
  all from `ServiceInv`: `CallsApart` (a session is in one call), `Ownership` (who is past
  `AcquireProcessOwnership` owns the recorder), `NativeFollows` (the recorder's session
  follows the owner's call), `CallbacksFollow` (delegates on their way from the fields to
  the native session) and `StoredRooted` (what the recorder keeps is rooted or the
  owner's). `ServiceInvStep` has one step per action and one leaf per part.
- `ImplementsOwnershipCorrect`: the refinement of `RecorderOwnership`. `ServesOwner` says
  that a callback in progress belongs to the owner; the owner lets go only when there is no
  native session, and a session ends only when no callback runs.
- `NoCyclicWaitCorrect`: `HandlersStayOut` (the guards turn away every call made in a
  handler) and `NativeFollows` (who has the mutex starts or stops) leave no circle of waits.

`RecordingTimelineProofs`, for any frequencies and any number of pauses
- First the arithmetic of the conversions, which round down: `TicksMonotone`, `TicksOfSum`
  (the ticks of a sum are at least the sum of the ticks), `FramesLastNoLonger` and
  `SilenceLastsNoLonger` (the frames counted in an interval, or filled in for a silence,
  last no longer than it).
- `RelativeTimeIsRecordedCorrect` and `ResetStandsCorrect` from `ControlInv`: `ClockInv`
  ties start, pause start and paused total to `recorded`, `ThreadsInv` says at which points
  of the audio thread the session can be in which state, so that it is over before a reset.
- `VideoTimeForwardCorrect` from `VideoInv`: the last stamp is not above the
  clock it was read from, and the frame thread reads relative time only before it has once
  read the audio clock. A frame reads the counter and then waits for the clock's lock: if a
  pause ended meanwhile, what it reads is not the relative time of any moment, which is the
  exception in the property.
- `ClockNeverAheadCorrect` from `HistoryInv` (what was recorded up to each value of the
  counter) and `AheadInv`. The device hands over packets when it likes, so the clock is not
  bounded by the present: it is bounded, with the frames in hand, by what was recorded up to
  `Covered`, the end of the last packet or of the last silence filled in, whichever is later,
  and by the surplus. A packet that ends before `filledTo` is surplus altogether, one that
  begins before it in part (`PacketBound`), and a silence as far as the recording stood still
  (`SilenceBound`). The bound says what the code promises and no more: nothing bounds the
  surplus itself, because the code does not look at the time stamps of the packets.
- `OverlapOnlyByPauseCorrect` from `OverlapInv`: the end of what is written passes the
  clock only by one refused advance, which has a pause of its own.

`CompositeAudioSourceProofs`, for any rates, packet sizes and number of sources
- `BufferBoundedCorrect` and `MixedOnceCorrect` from `BufferInv`. How many
  frames a mix takes is the first index at which the code's loop breaks off; `LeastNumber`
  shows that there is a first one (natural numbers are well founded). `InsertKeeps` and `MixKeeps` are the two operations, apart from who calls them.
- `OnlyCurrentSourceCorrect` and `OnlySelectedCapturesCorrect` from `SourceInv`, which says
  for each point of a call which of the sources may run (`Placed`, `Followed`) and whose
  frames the buffer holds (`HeldFrom`): between the swap and the clear also those of the
  source that is replaced.

`AudioRecordingProofs`, for any number of sessions, client threads, Starts and sizes
- `RecordingStoppableCorrect` from `RecorderInv`: as there is no owner, `Stoppable` follows
  which session's Start made the recording through the calls of all the others, `Says`
  what `IsRecording` is at each point of a call, and `NativeFollows` that the mutex is held
  by the call that starts or stops.
- `CallbackRootedCorrect` from `Rooted`: a session that neither records nor is in a call
  has only a rooted delegate, so its next Start may replace it.
- `HeaderDescribesFileCorrect` and `HeaderPromisesNoMoreCorrect` from `Header`: the file is
  open exactly while there is a session, so nothing follows the patch, what is counted is
  what was written unless a write was cut short, and never more, and a field that is not
  patched is still zero.
- `NoCyclicWaitCorrect` from `HandlerInv`: a capture thread is in a call only inside its
  handler, where the exports turn it away, so it never has the mutex or waits for it.
- `ImplementsContractCorrect`: the refinement of `RecordingContract` by a recorder that is
  used again (`ContractStep`, one step per action). `HandlerInv` also says that a packet is
  let in, and a handler runs, only in a session that has become active: a session whose start
  failed has none to wait for, and the next begins with none.

`CaptureSessionProofs`, for any number of registrations
- `ImplementsContractCorrect`: the refinement of `RecordingContract`, one step per action
  (`RefinementStep`), and `StaysStoppedCorrect`, `FailedStartLeavesNothingRunningCorrect`
  and `MuteHasCauseCorrect`, from `Parts`. `Starting` and `Stopping` say where the sources
  are at each point of the two long calls, `Resting` between calls, `Cleaned` after a Stop,
  and `Delivering` that a source runs only with a file that can take its samples. A Start
  of a session that was initialized, then stopped, goes on: `Starting` has to hold of it
  too, and `Cleaned` is why it gets no further than an abort.
- These four assume `~StartsPausedSession`: the run `session_restart` shows that the code
  would let a client start a paused session, which no caller does.
- `UsesSourcesCorrect`, with or without that assumption: what a step does to each source is
  a step of `CaptureSource` (`UsesStep`), the one that admits a delivery and the one that
  begins it included. A source that did not start is given up, not
  started once more, and one that was stopped stays so; `Untouched` says that a session
  which is not initialized has not touched its sources.
- `RegistriesAsSpecified`: each registry is used by its own operations only, so the
  theorems of `CallbackRegistryProofs` hold of both; `TypeCorrect` needs it.
- `SessionRegistriesCorrect` draws the conclusion: `NoLeakedCallback` of both registries
  inside the session, by instantiating `CallbackRegistryProofs` with their variables.

Proved and not a property of a run, since a checked property or a proved refinement says
more, or TLC checks the liveness property of which it is the safety half:
`NoCallbackAfterStop` (in `CaptureSource`, a stopped source delivers nothing),
`DestroyedOnlyAfterThreadEnds`, `SleepsOnlyWhenEmpty` (of `FrameEventuallyTaken`) and
`JoinedThreadEnds` (of `StopReturnsWhenNotAsleep`) of `FrameArrivedHandler`;
`FlagsConsistent`, `RunningHasThread` and `WaiterAnswered` (of `WaitsEnd`) of
`AudioCaptureHandler`; `ResetStands` of `RecordingTimeline`; and `TypeOK` of every module.

Only model-checked: everything temporal under fairness, which is out of the prover's
reach: `FrameEventuallyTaken`, `StopReturnsWhenNotAsleep`, `WaitsEnd`, `LoneCallReturns` and
the `CallsReturn` of three modules. Every invariant and every action property of a passing run is proved.

## Not modelled

- Sample contents, volumes, texture copies, pixel formats, logging and configuration
  values; the creation of Windows objects beyond success and failure.
- `AudioCaptureHandler`: the enabled flag, which `SetInputDevice` saves and restores (the
  session's copy of that pattern is in `CaptureSession`), and a clock fallback that ends at
  once because the sample rate is below 100 Hz.
- `CaptureSession`: the two volume setters and the drain time before the file is finalised.
- `VideoCaptureService` and `AudioRecording`: the audio controls, which pass through to the
  recorder whoever owns it, `IsPaused`, which nothing reads, and the `RecordingStarted`
  event. Both: two threads on one session object, which nothing in the
  code serialises or promises.
- `RecordingTimeline`: a device whose own clock runs faster than its nominal rate (a packet
  holds no more frames than its time has), and overlapping Invokes, whose stamps
  `FrameArrivedHandler` covers: there is one frame thread.
- `CompositeAudioSource`: a second mix of frames of a buffer that overflowed, which the code
  does after a trim and `MixedOnce` exempts;
  the enabled flags and volumes, formats that differ in more than
  the sample rate, and the sources' own failures while they run (`AudioCaptureHandler`).
- The MP4 sink's correction of video time stamps: `DeliveredSpaced` shows that the stamps
  it is given are a frame apart, which the correction leaves as they are.
- `MediaFoundationLifecycleManager` (a count under one mutex), screenshots (one
  synchronous call, no state between calls), the dimension policy, validation of
  configuration, results and error reporting: nothing that a model checker reaches and
  a unit test does not.

## Plan

1. The enabled flag of `AudioCaptureHandler`, which `SetInputDevice` saves and restores
   across the join and the restart of its thread.
2. A composition of `CompositeAudioSource` with `AudioCaptureHandler`, so that the failures
   of a source while it runs meet the switch of the microphone.
