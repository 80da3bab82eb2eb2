---------------------------- MODULE CaptureSession -----------------------------
(***************************************************************************)
(* The recording session (WindowsGraphicsCaptureSession.cpp) with its      *)
(* state machine (CaptureSessionState.h), composed with its two callback   *)
(* registries, its sink writer (WindowsMFMP4SinkWriter.cpp) and its two    *)
(* capture sources.                                                        *)
(*                                                                         *)
(* Three threads act: the control thread, which makes the session's calls  *)
(* one after the other (the recorder's mutex serialises them), and one     *)
(* source thread per stream, which runs the callback that Initialize gave  *)
(* the source.  A call is split where a source thread can act in between.  *)
(* A source is what its own module promises of it: a Stop asks its thread  *)
(* to end and returns when the delivery it has admitted, or is making, is  *)
(* over, and a stopped source does not start again.                        *)
(***************************************************************************)
EXTENDS Naturals, FiniteSets

CONSTANTS MaxId, \* bound: registrations of each client callback
          NoId,  \* no callback
          StartsPausedSession \* the client may call Start on a paused session

ASSUME SessionAssumption == MaxId \in Nat /\ NoId \notin Nat /\ StartsPausedSession \in BOOLEAN

Streams == {"video", "audio"}
States  == {"Created", "Initialized", "Active", "Paused", "Stopped", "Failed"}

VARIABLES
    state,            \* m_stateMachine
    cleanupCompleted, \* m_cleanupCompleted
    isShuttingDown,   \* m_isShuttingDown
    audioAvailable,   \* m_audioAvailable
    source,           \* state of each source; "none" once m_audioCaptureSource is reset
    enabled,          \* the audio source's enabled flag
    clock,            \* m_mediaClock: reset, running or paused
    sink,             \* the sink writer: open (m_sinkWriter), audio, begun
    control,          \* where the control thread is
    wasEnabled,       \* SetAudioInputSource's local
    at,               \* where each source's thread is
    wanted,           \* history: whether the client wants audio
    encoderFailed,    \* history: the encoder has refused an audio sample
    videoCallbacks, videoNextId, videoHandle, videoReplaced, videoTodo, videoCalling,
    audioCallbacks, audioNextId, audioHandle, audioReplaced, audioTodo, audioCalling

Video == INSTANCE CallbackRegistry WITH
    Owners <- {"client"}, Invokers <- {"video"},
    callbacks <- videoCallbacks, nextId <- videoNextId, handle <- videoHandle,
    replaced <- videoReplaced, todo <- videoTodo, calling <- videoCalling

Audio == INSTANCE CallbackRegistry WITH
    Owners <- {"client"}, Invokers <- {"audio"},
    callbacks <- audioCallbacks, nextId <- audioNextId, handle <- audioHandle,
    replaced <- audioReplaced, todo <- audioTodo, calling <- audioCalling

videoRegistry == << videoCallbacks, videoNextId, videoHandle, videoReplaced,
                    videoTodo, videoCalling >>
audioRegistry == << audioCallbacks, audioNextId, audioHandle, audioReplaced,
                    audioTodo, audioCalling >>
registries == << videoRegistry, audioRegistry >>
lifecycle  == << state, cleanupCompleted, isShuttingDown >>
history    == << wanted, encoderFailed >>
vars == << lifecycle, audioAvailable, source, enabled, clock, sink, control,
           wasEnabled, at, history, registries >>

NoSink == [open |-> FALSE, audio |-> FALSE, begun |-> FALSE]

Init ==
    /\ state = "Created"
    /\ cleanupCompleted = FALSE
    /\ isShuttingDown = FALSE
    /\ audioAvailable = FALSE
    /\ source = [s \in Streams |-> "new"]
    /\ enabled = TRUE
    /\ clock = "reset"
    /\ sink = NoSink
    /\ control = "idle"
    /\ wasEnabled = FALSE
    /\ at = [s \in Streams |-> "idle"]
    /\ wanted = TRUE
    /\ encoderFailed = FALSE
    /\ Video!Init
    /\ Audio!Init

Goto(p) == control' = p

\* A source's Stop, when it is entered and when its thread is over.
StopAsked(x) == IF x = "running" THEN "stopping" ELSE x
StopEnded(x) == IF x = "none" THEN "none" ELSE "stopped"
-----------------------------------------------------------------------------
(* CaptureSessionStateMachine.                                              *)

IsValidTransition(from, to) ==
    \/ from = "Created"     /\ to \in {"Initialized", "Failed"}
    \/ from = "Initialized" /\ to \in {"Active", "Failed"}
    \/ from = "Active"      /\ to \in {"Paused", "Stopped", "Failed"}
    \/ from = "Paused"      /\ to \in {"Active", "Stopped", "Failed"}

TryTransitionTo(to) == state' = IF IsValidTransition(state, to) THEN to ELSE state

-----------------------------------------------------------------------------
(* Initialize.                                                              *)

\* WindowsMFMP4SinkWriter::Initialize opens the file for video ...
OpenSink == [NoSink EXCEPT !.open = TRUE]

\* ... and InitializeAudioStream adds the second stream, once, and begins to write.
InitializeAudioStream(sinkWriter) ==
    IF sinkWriter.open /\ ~sinkWriter.audio
    THEN [sinkWriter EXCEPT !.audio = TRUE, !.begun = TRUE] ELSE sinkWriter

\* The session's InitializeSinkWriter, with audio when there is a format.
InitializeSinkWriter(withAudio) ==
    sink' = IF withAudio THEN InitializeAudioStream(OpenSink) ELSE OpenSink

\* WindowsDesktopVideoCaptureSource::Initialize: whatever step of it fails, the source
\* cannot be started and Stop has nothing of it to unregister.
VideoInitialized(ok) == IF ok THEN "ready" ELSE "new"

\* The audio source is given up when it cannot be initialized.
SourcesInitialized(audio) ==
    source' = [video |-> VideoInitialized(TRUE), audio |-> IF audio THEN "ready" ELSE "none"]

InitializeFails ==
    /\ TryTransitionTo("Failed")
    /\ UNCHANGED << enabled, clock, control, wasEnabled, at, history, registries,
                    cleanupCompleted, isShuttingDown >>

\* The video source cannot be initialised.
InitializeVideoFails ==
    /\ control = "idle" /\ state = "Created"
    /\ source' = [source EXCEPT !["video"] = VideoInitialized(FALSE)]
    /\ InitializeFails
    /\ UNCHANGED << audioAvailable, sink >>

\* An audio source, or an audio stream, that cannot be had is given up; a sink that
\* cannot be opened fails the session.
InitializeSinkFails ==
    /\ control = "idle" /\ state = "Created"
    /\ \E audio \in BOOLEAN :
          /\ audioAvailable' = audio
          /\ SourcesInitialized(audio)
    /\ sink' = NoSink
    /\ InitializeFails

Initialize ==
    /\ control = "idle" /\ state = "Created"
    /\ \E audio \in BOOLEAN :
          /\ audioAvailable' = audio
          /\ SourcesInitialized(audio)
          /\ InitializeSinkWriter(audio)
    /\ TryTransitionTo("Initialized")
    /\ UNCHANGED << enabled, clock, control, wasEnabled, at, history, registries,
                    cleanupCompleted, isShuttingDown >>

-----------------------------------------------------------------------------
(* Start.                                                                   *)

startUnchanged == UNCHANGED << cleanupCompleted, isShuttingDown, clock, wasEnabled, at,
                               encoderFailed, registries >>

\* Start goes on when the state machine allows Active next: from Initialized, and from
\* Paused as well.  Otherwise it returns and nothing changes.
StartClock ==
    /\ control = "idle"
    /\ IsValidTransition(state, "Active")
    /\ state = "Paused" => StartsPausedSession
    /\ clock' = "running"
    /\ Goto("startAudio")
    /\ UNCHANGED << lifecycle, audioAvailable, source, enabled, sink, wasEnabled, at,
                    history, registries >>

\* Mutant: an audio source that was stopped is started again.
StartAudioAgain ==
    /\ control = "startAudio"
    /\ \/ /\ ~audioAvailable
          /\ Goto("begin")
          /\ UNCHANGED << source, enabled, wanted >>
       \/ /\ audioAvailable
          /\ enabled' \in BOOLEAN
          /\ wanted' = enabled'
          /\ source' = [source EXCEPT !["audio"] = "running"]
          /\ Goto("begin")
    /\ UNCHANGED << state, audioAvailable, sink >> /\ startUnchanged

\* StartAudioCapture: nothing to start, or the enabled setting is applied and the
\* source started.  Only a source that was never started can be.
StartAudio ==
    /\ control = "startAudio"
    /\ \/ /\ ~audioAvailable
          /\ Goto("begin")
          /\ UNCHANGED << source, enabled, wanted >>
       \/ /\ audioAvailable
          /\ enabled' \in BOOLEAN
          /\ wanted' = enabled'
          /\ \/ /\ source["audio"] = "ready"
                /\ source' = [source EXCEPT !["audio"] = "running"]
                /\ Goto("begin")
             \/ /\ source' = [source EXCEPT !["audio"] = StopAsked(@)]
                /\ Goto("dropAudio")
    /\ UNCHANGED << state, audioAvailable, sink >> /\ startUnchanged

\* The source that did not start is stopped and destroyed, and the file finalised.
DropAudio ==
    /\ control = "dropAudio"
    /\ at["audio"] = "idle"
    /\ source' = [source EXCEPT !["audio"] = "none"]
    /\ audioAvailable' = FALSE
    /\ sink' = [sink EXCEPT !.open = FALSE]
    /\ Goto("rebuildSink")
    /\ UNCHANGED << state, enabled, wanted >> /\ startUnchanged

\* Mutant: a sink is opened without a device to encode from.
RebuildSinkAnyDevice ==
    /\ control = "rebuildSink"
    /\ InitializeSinkWriter(FALSE)
    /\ Goto("begin")
    /\ UNCHANGED << state, audioAvailable, source, enabled, wanted >> /\ startUnchanged

\* Mutant: a sink that cannot be rebuilt is tried again.
RebuildSinkRetries ==
    /\ control = "rebuildSink"
    /\ \/ /\ source["video"] \in {"ready", "running"}
          /\ InitializeSinkWriter(FALSE)
          /\ Goto("begin")
       \/ UNCHANGED << sink, control >>
    /\ UNCHANGED << state, audioAvailable, source, enabled, wanted >> /\ startUnchanged

\* A video-only sink replaces it, if the video source still has its device.
RebuildSink ==
    /\ control = "rebuildSink"
    /\ \/ /\ source["video"] \in {"ready", "running"}
          /\ InitializeSinkWriter(FALSE)
          /\ Goto("begin")
          /\ UNCHANGED state
       \/ /\ sink' \in {NoSink, sink}
          /\ TryTransitionTo("Failed")
          /\ Goto("idle")
    /\ UNCHANGED << audioAvailable, source, enabled, wanted >> /\ startUnchanged

\* What Start does when BeginWriting or the video source fails: the audio source is
\* asked to stop if it runs.
AbortStart ==
    /\ source' = [source EXCEPT !["audio"] = StopAsked(@)]
    /\ Goto("abortStart")

BeginWriting ==
    /\ control = "begin"
    /\ \/ /\ sink.open
          /\ sink' = [sink EXCEPT !.begun = TRUE]
          /\ Goto("startVideo")
          /\ UNCHANGED source
       \/ /\ ~(sink.open /\ sink.begun)
          /\ AbortStart
          /\ UNCHANGED sink
    /\ UNCHANGED << state, audioAvailable, enabled, wanted >> /\ startUnchanged

\* A video source whose StartCapture fails keeps its frame handler registered, so its
\* thread waits, without frames, until the session is stopped.
StartVideo ==
    /\ control = "startVideo"
    /\ \/ /\ source["video"] = "ready"
          /\ source' = [source EXCEPT !["video"] = "running"]
          /\ Goto("activate")
       \/ AbortStart
       \/ /\ source["video"] = "ready"
          /\ source' = [video |-> "registered", audio |-> StopAsked(source["audio"])]
          /\ Goto("abortStart")
    /\ UNCHANGED << state, audioAvailable, enabled, sink, wanted >> /\ startUnchanged

\* Mutant: the session fails without waiting for the audio source to stop.
AbortStartDoneNoWait ==
    /\ control = "abortStart"
    /\ TryTransitionTo("Failed")
    /\ Goto("idle")
    /\ UNCHANGED << audioAvailable, source, enabled, sink, wanted >> /\ startUnchanged

AbortStartDone ==
    /\ control = "abortStart"
    /\ source["audio"] = "stopping" => at["audio"] = "idle"
    /\ source' = [source EXCEPT !["audio"] = IF @ = "stopping" THEN StopEnded(@) ELSE @]
    /\ TryTransitionTo("Failed")
    /\ Goto("idle")
    /\ UNCHANGED << audioAvailable, enabled, sink, wanted >> /\ startUnchanged

Activate ==
    /\ control = "activate"
    /\ TryTransitionTo("Active")
    /\ Goto("idle")
    /\ UNCHANGED << audioAvailable, source, enabled, sink, wanted >> /\ startUnchanged

-----------------------------------------------------------------------------
(* Stop, called by the client or by the destructor.                         *)

stopUnchanged == UNCHANGED << audioAvailable, enabled, wasEnabled, history >>

\* The shutdown flag is raised and both client callbacks are unregistered.
Stop ==
    /\ control = "idle"
    /\ ~cleanupCompleted /\ state \notin {"Created", "Stopped"}
    /\ isShuttingDown' = TRUE
    /\ Goto("stopUnregister")
    /\ UNCHANGED << state, cleanupCompleted, source, clock, sink, at, registries >>
    /\ stopUnchanged

StopUnregister ==
    /\ control = "stopUnregister"
    /\ Video!Unregister("client")
    /\ Audio!Unregister("client")
    /\ source' = [source EXCEPT !["video"] = StopAsked(@)]
    /\ Goto("stopVideo")
    /\ UNCHANGED << lifecycle, clock, sink, at >> /\ stopUnchanged

\* Mutant: Stop does not wait for the video delivery in progress.
StopVideoNoWait ==
    /\ control = "stopVideo"
    /\ source' = [video |-> StopEnded(source["video"]),
                  audio |-> StopAsked(source["audio"])]
    /\ Goto("stopAudio")
    /\ UNCHANGED << lifecycle, clock, sink, at, registries >> /\ stopUnchanged

\* The video source has ended its thread and released its device; audio is next.
StopVideo ==
    /\ control = "stopVideo"
    /\ at["video"] = "idle"
    /\ source' = [video |-> StopEnded(source["video"]),
                  audio |-> StopAsked(source["audio"])]
    /\ Goto("stopAudio")
    /\ UNCHANGED << lifecycle, clock, sink, at, registries >> /\ stopUnchanged

\* The audio source has ended its threads; the clock is paused.
StopAudio ==
    /\ control = "stopAudio"
    /\ at["audio"] = "idle"
    /\ source' = [source EXCEPT !["audio"] = StopEnded(@)]
    /\ clock' = IF clock = "running" THEN "paused" ELSE clock
    /\ Goto("stopClear")
    /\ UNCHANGED << lifecycle, sink, at, registries >> /\ stopUnchanged

StopClear ==
    /\ control = "stopClear"
    /\ Video!Clear
    /\ Audio!Clear
    /\ Goto("finalize")
    /\ UNCHANGED << lifecycle, source, clock, sink, at >> /\ stopUnchanged

Finalize ==
    /\ control = "finalize"
    /\ sink' = [sink EXCEPT !.open = FALSE]
    /\ Goto("stopDone")
    /\ UNCHANGED << lifecycle, source, clock, at, registries >> /\ stopUnchanged

\* The state machine refuses Stopped after Initialized and Failed.
StopDone ==
    /\ control = "stopDone"
    /\ clock' = "reset"
    /\ TryTransitionTo("Stopped")
    /\ isShuttingDown' = FALSE
    /\ cleanupCompleted' = TRUE
    /\ Goto("idle")
    /\ UNCHANGED << source, sink, at, registries >> /\ stopUnchanged

-----------------------------------------------------------------------------
(* The other calls.                                                         *)

callUnchanged == UNCHANGED << cleanupCompleted, isShuttingDown, audioAvailable, source,
                              sink, at, encoderFailed >>

Pause ==
    /\ control = "idle" /\ state = "Active"
    /\ clock' = IF clock = "running" THEN "paused" ELSE clock
    /\ TryTransitionTo("Paused")
    /\ UNCHANGED << enabled, control, wasEnabled, wanted, registries >> /\ callUnchanged

Resume ==
    /\ control = "idle" /\ state = "Paused"
    /\ clock' = IF clock = "paused" THEN "running" ELSE clock
    /\ TryTransitionTo("Active")
    /\ UNCHANGED << enabled, control, wasEnabled, wanted, registries >> /\ callUnchanged

ToggleAudioCapture(e) ==
    /\ control = "idle" /\ source["audio"] = "running"
    /\ enabled' = e
    /\ wanted' = e
    /\ UNCHANGED << state, clock, control, wasEnabled, registries >> /\ callUnchanged

\* SetAudioInputSource saves the enabled flag and has the source switch its input, which
\* keeps the format.
SetAudioInputSource ==
    /\ control = "idle" /\ source["audio"] # "none"
    /\ wasEnabled' = enabled
    /\ Goto("restoreEnabled")
    /\ UNCHANGED << state, enabled, clock, wanted, registries >> /\ callUnchanged

\* Mutant: the input switch leaves the audio disabled.
RestoreEnabledFalse ==
    /\ control = "restoreEnabled"
    /\ enabled' = FALSE
    /\ Goto("idle")
    /\ UNCHANGED << state, clock, wasEnabled, wanted, registries >> /\ callUnchanged

\* The switch succeeded: the saved flag is written back.
RestoreEnabled ==
    /\ control = "restoreEnabled"
    /\ enabled' = wasEnabled
    /\ Goto("idle")
    /\ UNCHANGED << state, clock, wasEnabled, wanted, registries >> /\ callUnchanged

\* The switch failed: the call returns at once, and the flag is left as it is.
SwitchFails ==
    /\ control = "restoreEnabled"
    /\ Goto("idle")
    /\ UNCHANGED << state, enabled, clock, wasEnabled, wanted, registries >> /\ callUnchanged

\* One registry acts, the other does not.
OnRegistry(s, videoAction, audioAction) ==
    \/ s = "video" /\ videoAction /\ UNCHANGED audioRegistry
    \/ s = "audio" /\ audioAction /\ UNCHANGED videoRegistry

RegistrationsLeft(s) == (IF s = "video" THEN videoNextId ELSE audioNextId) \in 1..MaxId

\* SetVideoFrameCallback and SetAudioSampleCallback: the previous callback is
\* unregistered, and a new one, if there is one, registered after that.
SetCallback(s) ==
    /\ control = "idle"
    /\ OnRegistry(s, Video!Unregister("client"), Audio!Unregister("client"))
    /\ \/ Goto("idle")
       \/ RegistrationsLeft(s) /\ Goto(IF s = "video" THEN "registerVideo" ELSE "registerAudio")
    /\ UNCHANGED << state, enabled, clock, wasEnabled, wanted >> /\ callUnchanged

RegisterCallback(s) ==
    /\ control = IF s = "video" THEN "registerVideo" ELSE "registerAudio"
    /\ OnRegistry(s, Video!Register("client"), Audio!Register("client"))
    /\ Goto("idle")
    /\ UNCHANGED << state, enabled, clock, wasEnabled, wanted >> /\ callUnchanged

-----------------------------------------------------------------------------
(* The source callbacks that SetupVideoCallback and SetupAudioCallback install. *)

streamUnchanged == UNCHANGED << lifecycle, audioAvailable, source, clock, control,
                                wasEnabled, wanted >>
Move(s, p) == at' = [at EXCEPT ![s] = p]

\* The source's thread has a sample and found the source running, which it does not look at
\* again: a Stop may ask the source to end before the callback is entered.
SampleAdmitted(s) ==
    /\ source[s] = "running" /\ at[s] = "idle"
    /\ Move(s, "admitted")
    /\ UNCHANGED << enabled, sink, encoderFailed, registries >> /\ streamUnchanged

\* The callback is entered; the sample goes no further if the session is shutting down, or
\* if the source has given it up (its filter or its skipping of samples).
SampleArrives(s) ==
    /\ at[s] = "admitted"
    /\ \/ ~isShuttingDown /\ Move(s, "write")
       \/ Move(s, "idle")
    /\ UNCHANGED << enabled, sink, encoderFailed, registries >> /\ streamUnchanged

\* WriteFrame begins writing itself when there is no audio stream.
WriteFrame ==
    /\ at["video"] = "write"
    /\ \/ /\ sink.open /\ (sink.begun \/ ~sink.audio)
          /\ sink' = [sink EXCEPT !.begun = TRUE]
          /\ Move("video", "forward")
       \/ /\ UNCHANGED sink
          /\ Move("video", "idle")
    /\ UNCHANGED << enabled, encoderFailed, registries >> /\ streamUnchanged

\* WriteAudioSample; a failure disables the audio source, and the sample is forwarded
\* all the same.
WriteAudioSample ==
    /\ at["audio"] = "write"
    /\ Move("audio", "forward")
    /\ \/ sink.open /\ sink.audio /\ sink.begun /\ UNCHANGED << enabled, encoderFailed >>
       \/ /\ enabled' = FALSE
          /\ encoderFailed' = (encoderFailed \/ (sink.open /\ sink.audio /\ sink.begun))
    /\ UNCHANGED << sink, registries >> /\ streamUnchanged

HasCallbacks(s) == IF s = "video" THEN videoCallbacks # {} ELSE audioCallbacks # {}

\* HasCallbacks, then Invoke, each under the registry's mutex: the callbacks may have
\* gone in between, and Invoke copies none.
Forward(s) ==
    /\ at[s] = "forward"
    /\ Move(s, IF HasCallbacks(s) THEN "invoke" ELSE "idle")
    /\ UNCHANGED << enabled, sink, encoderFailed, registries >> /\ streamUnchanged

InvokeCopy(s) ==
    /\ at[s] = "invoke"
    /\ \/ /\ HasCallbacks(s)
          /\ OnRegistry(s, Video!InvokeCopy("video"), Audio!InvokeCopy("audio"))
          /\ Move(s, "calling")
       \/ /\ ~HasCallbacks(s)
          /\ Move(s, "idle")
          /\ UNCHANGED registries
    /\ UNCHANGED << enabled, sink, encoderFailed >> /\ streamUnchanged

InvokeCall(s) ==
    /\ at[s] = "calling"
    /\ OnRegistry(s, Video!InvokeCall("video"), Audio!InvokeCall("audio"))
    /\ UNCHANGED << enabled, sink, encoderFailed, at >> /\ streamUnchanged

InvokeReturn(s) ==
    /\ at[s] = "calling"
    /\ OnRegistry(s, Video!InvokeReturn("video"), Audio!InvokeReturn("audio"))
    /\ UNCHANGED << enabled, sink, encoderFailed, at >> /\ streamUnchanged

InvokeDone(s) ==
    /\ at[s] = "calling"
    /\ IF s = "video" THEN Video!NotInvoking("video") ELSE Audio!NotInvoking("audio")
    /\ Move(s, "idle")
    /\ UNCHANGED << enabled, sink, encoderFailed, registries >> /\ streamUnchanged

-----------------------------------------------------------------------------
StartStep == \/ StartAudio \/ DropAudio \/ RebuildSink \/ BeginWriting \/ StartVideo
             \/ AbortStartDone \/ Activate
StopStep  == \/ StopUnregister \/ StopVideo \/ StopAudio \/ StopClear \/ Finalize
             \/ StopDone
CallBegins ==
    \/ InitializeVideoFails \/ InitializeSinkFails \/ Initialize
    \/ StartClock \/ Stop \/ Pause \/ Resume \/ SetAudioInputSource
    \/ \E e \in BOOLEAN : ToggleAudioCapture(e)
    \/ \E s \in Streams : SetCallback(s)
ControlStep ==
    \/ StartStep \/ StopStep \/ RestoreEnabled \/ SwitchFails
    \/ \E s \in Streams : RegisterCallback(s)
StreamStep(s) ==
    \/ SampleArrives(s)
    \/ s = "video" /\ WriteFrame
    \/ s = "audio" /\ WriteAudioSample
    \/ Forward(s) \/ InvokeCopy(s) \/ InvokeCall(s) \/ InvokeReturn(s) \/ InvokeDone(s)

Next == \/ CallBegins \/ ControlStep
        \/ \E s \in Streams : SampleAdmitted(s) \/ StreamStep(s)

Spec == Init /\ [][Next]_vars

\* A call that has begun goes on, and a delivery that has begun goes on: the client's
\* callbacks return and the sources' Stops return once their threads are over.
FairSpec == Spec /\ WF_vars(ControlStep) /\ \A s \in Streams : WF_vars(StreamStep(s))
-----------------------------------------------------------------------------
SourceStates == {"new", "ready", "registered", "running", "stopping", "stopped", "none"}
ControlPoints == {"idle", "startAudio", "dropAudio", "rebuildSink", "begin", "startVideo",
                  "abortStart", "activate", "stopUnregister", "stopVideo", "stopAudio",
                  "stopClear", "finalize", "stopDone", "restoreEnabled", "registerVideo",
                  "registerAudio"}

\* The shape of the state, and of both registries.
TypeOK ==
    /\ state \in States
    /\ {cleanupCompleted, isShuttingDown, audioAvailable, enabled, wasEnabled, wanted,
        encoderFailed} \subseteq BOOLEAN
    /\ source \in [Streams -> SourceStates]
    /\ clock \in {"reset", "running", "paused"}
    /\ sink \in [open : BOOLEAN, audio : BOOLEAN, begun : BOOLEAN]
    /\ control \in ControlPoints
    /\ at \in [Streams -> {"idle", "admitted", "write", "forward", "invoke", "calling"}]
    /\ Video!TypeOK
    /\ Audio!TypeOK

Live == \E s \in Streams : source[s] \in {"running", "stopping"}

\* A Start that failed leaves no source delivering, although the ones started before
\* the failing step were.
FailedStartLeavesNothingRunning == state = "Failed" /\ control = "idle" => ~Live

\* A session that was cleaned up stays so, although Stop lowers the shutdown flag again
\* and lets callbacks be set: no delivery survives it and none begins ("Callback will not
\* be invoked after Stop() returns", WindowsGraphicsCaptureSession.h:62 and 68).  Stop
\* leaves an Initialized session in its state, so a later Start does go on; it must not
\* reach the sources or the file ("impossible to reuse a completed or failed session",
\* CaptureSessionState.h:10-11).
StaysStopped ==
    cleanupCompleted =>
        /\ \A s \in Streams : at[s] = "idle"
        /\ ~sink.open /\ ~Live /\ state # "Active"

\* Audio the client wants is disabled only because the encoder refused a sample.
MuteHasCause == wanted /\ ~enabled => encoderFailed

\* What the client and the file see of a session.
Contract == INSTANCE RecordingContract WITH
    Reusable <- FALSE,
    phase <- IF Live THEN "live"
             ELSE IF \E s \in Streams : source[s] = "stopped" THEN "over" ELSE "before",
    fileOpen <- sink.open,
    busy <- {s \in Streams : at[s] \notin {"idle", "admitted"}}

\* The session implements the recording contract: deliveries only while live with the
\* file open, live once, the file shut only when nothing is delivered and never reopened
\* after the session went live.
ImplementsContract == Contract!Spec

\* What a capture source is doing, from its state here: a registered video source runs
\* without frames, and a source that was given up is as good as stopped.
SourcePhase(s) ==
    CASE source[s] \in {"new", "ready"}          -> "new"
      [] source[s] \in {"registered", "running"} -> "running"
      [] source[s] = "stopping"                  -> "stopping"
      [] OTHER                                   -> "stopped"

SourceDelivery(s) ==
    IF at[s] = "idle" THEN "none" ELSE IF at[s] = "admitted" THEN "admitted" ELSE "begun"

VideoSource == INSTANCE CaptureSource WITH
    Reusable <- FALSE, phase <- SourcePhase("video"), delivery <- SourceDelivery("video")
AudioSource == INSTANCE CaptureSource WITH
    Reusable <- FALSE, phase <- SourcePhase("audio"), delivery <- SourceDelivery("audio")

\* The session relies on no more than a capture source promises: through every failed
\* start, stop and retry its sources admit deliveries only between their start and their
\* stop, are given up or stopped only when the last one is over, and are never started a
\* second time.
UsesSources == VideoSource!Spec /\ AudioSource!Spec

\* Every call returns: Start whatever fails in it, Stop whatever is being delivered.
CallsReturn == (control # "idle") ~> (control = "idle")

\* "can only start from Initialized state" (WindowsGraphicsCaptureSession.cpp:269): a
\* Start that goes on does so from no other state.
StartsOnlyFromInitialized ==
    [][control = "idle" /\ control' = "startAudio" => state = "Initialized"]_vars
=============================================================================
