------------------------- MODULE CaptureSessionProofs -------------------------
(***************************************************************************)
(* Proofs about the recording session, for any number of registrations:    *)
(* what it promises, and that it implements RecordingContract.             *)
(*                                                                         *)
(* A client that starts a paused session (StartsPausedSession) breaks the  *)
(* promises, so the theorems that need it assume that no client does.      *)
(***************************************************************************)
EXTENDS CaptureSession, TLAPS

InStart == {"startAudio", "dropAudio", "rebuildSink", "begin", "startVideo", "abortStart",
            "activate"}
InStop  == {"stopUnregister", "stopVideo", "stopAudio", "stopClear", "finalize", "stopDone"}

video == source["video"]
audio == source["audio"]

\* The video source is never given up, the audio source is when there is no audio; a source
\* runs only with an open file, which has an audio stream if it is the audio
\* source, and a thread delivers only while its source runs.
Delivering ==
    /\ video # "none" /\ (audioAvailable => audio # "none")
    /\ \A s \in Streams : at[s] # "idle" => source[s] \in {"running", "stopping"}
    /\ Live => sink.open
    /\ audio \in {"running", "stopping"} => sink.audio /\ sink.begun

\* A session ready to be started.
Ready ==
    /\ video = "ready" /\ audio \in {"ready", "none"} /\ audioAvailable = (audio = "ready")
    /\ sink.open /\ (audio = "ready" => sink.audio /\ sink.begun)

\* Where the sources are at each point of Start.
Starting ==
    /\ control \in InStart => state = "Initialized"
    /\ control = "startAudio" /\ ~cleanupCompleted => Ready
    /\ control = "dropAudio" =>
          /\ audio \in {"ready", "stopped"}
          /\ ~cleanupCompleted => video = "ready" /\ audio = "ready"
    /\ control = "rebuildSink" =>
          audio = "none" /\ ~sink.open /\ (~cleanupCompleted => video = "ready")
    /\ control = "begin" /\ ~cleanupCompleted =>
          video = "ready" /\ audio \in {"running", "none"} /\ sink.open
    /\ control = "startVideo" =>
          /\ video = "ready" /\ audio \in {"running", "none"} /\ sink.open
          /\ ~cleanupCompleted
    /\ control = "activate" =>
          video = "running" /\ audio \in {"running", "none"} /\ ~cleanupCompleted
    /\ control = "abortStart" =>
          video \in {"ready", "registered", "stopped"} /\ audio \in {"stopping", "stopped", "none"}

\* Where they are at each point of Stop.
Stopping ==
    /\ control \in InStop => state \notin {"Created", "Stopped"} /\ ~cleanupCompleted
    /\ control \in {"stopAudio", "stopClear", "finalize", "stopDone"} => video = "stopped"
    /\ control \in {"stopClear", "finalize", "stopDone"} => audio \in {"stopped", "none"}
    /\ control = "stopDone" => ~sink.open

\* Where they are in each state, between and during the other calls.
Resting ==
    /\ state = "Created" => video = "new" /\ audio = "new" /\ ~sink.open /\ ~cleanupCompleted
    /\ state = "Initialized" /\ control \notin InStart \cup InStop /\ ~cleanupCompleted => Ready
    /\ state \in {"Active", "Paused"} /\ control \notin InStop =>
          video = "running" /\ audio \in {"running", "none"}
    /\ state = "Failed" /\ control \notin InStop => ~Live

\* What a completed Stop leaves, whatever is called after it.
Cleaned ==
    cleanupCompleted =>
        /\ video = "stopped" /\ audio \in {"stopped", "none"} /\ ~sink.open
        /\ state \notin {"Created", "Active", "Paused"}

\* SetAudioInputSource has saved an enabled flag that had its cause.
Muted ==
    /\ MuteHasCause
    /\ control = "restoreEnabled" /\ wanted /\ ~wasEnabled => encoderFailed

Parts == Delivering /\ Starting /\ Stopping /\ Resting /\ Cleaned

-----------------------------------------------------------------------------
Sinks == [open : BOOLEAN, audio : BOOLEAN, begun : BOOLEAN]

\* Everything but the registries.
SessionTypeOK ==
    /\ state \in States
    /\ cleanupCompleted \in BOOLEAN /\ isShuttingDown \in BOOLEAN /\ audioAvailable \in BOOLEAN
    /\ enabled \in BOOLEAN /\ wasEnabled \in BOOLEAN /\ wanted \in BOOLEAN
    /\ encoderFailed \in BOOLEAN
    /\ source \in [Streams -> SourceStates]
    /\ clock \in {"reset", "running", "paused"}
    /\ sink \in Sinks
    /\ control \in ControlPoints
    /\ at \in [Streams -> {"idle", "admitted", "write", "forward", "invoke", "calling"}]

RegistriesTypeOK == Video!TypeOK /\ Audio!TypeOK

\* The type invariant has these two parts.
LEMMA TypeParts == TypeOK <=> SessionTypeOK /\ RegistriesTypeOK
BY DEF TypeOK, SessionTypeOK, Sinks, RegistriesTypeOK

\* What a step does to the video registry is an operation of CallbackRegistry, or nothing.
VideoStep ==
    \/ Video!Register("client") \/ Video!Unregister("client") \/ Video!Clear
    \/ Video!InvokeCopy("video") \/ Video!InvokeCall("video") \/ Video!InvokeReturn("video")
    \/ UNCHANGED videoRegistry

\* Likewise the audio registry.
AudioStep ==
    \/ Audio!Register("client") \/ Audio!Unregister("client") \/ Audio!Clear
    \/ Audio!InvokeCopy("audio") \/ Audio!InvokeCall("audio") \/ Audio!InvokeReturn("audio")
    \/ UNCHANGED audioRegistry

\* Each operation of the video registry keeps its types.
LEMMA VideoTypes ==
    ASSUME Video!TypeOK, VideoStep
    PROVE  Video!TypeOK'
<1> USE SessionAssumption DEF Video!TypeOK, Video!MaybeId, Video!Ids
<1>1. CASE Video!Register("client")
  BY <1>1 DEF Video!Register
<1>2. CASE Video!Unregister("client")
  BY <1>2 DEF Video!Unregister
<1>3. CASE Video!Clear
  BY <1>3 DEF Video!Clear
<1>4. CASE Video!InvokeCopy("video")
  BY <1>4 DEF Video!InvokeCopy
<1>5. CASE Video!InvokeCall("video")
  BY <1>5 DEF Video!InvokeCall
<1>6. CASE Video!InvokeReturn("video")
  BY <1>6 DEF Video!InvokeReturn
<1>7. CASE UNCHANGED videoRegistry
  BY <1>7 DEF videoRegistry
<1>8. QED
  BY <1>1, <1>2, <1>3, <1>4, <1>5, <1>6, <1>7 DEF VideoStep

\* Each operation of the audio registry keeps its types.
LEMMA AudioTypes ==
    ASSUME Audio!TypeOK, AudioStep
    PROVE  Audio!TypeOK'
<1> USE SessionAssumption DEF Audio!TypeOK, Audio!MaybeId, Audio!Ids
<1>1. CASE Audio!Register("client")
  BY <1>1 DEF Audio!Register
<1>2. CASE Audio!Unregister("client")
  BY <1>2 DEF Audio!Unregister
<1>3. CASE Audio!Clear
  BY <1>3 DEF Audio!Clear
<1>4. CASE Audio!InvokeCopy("audio")
  BY <1>4 DEF Audio!InvokeCopy
<1>5. CASE Audio!InvokeCall("audio")
  BY <1>5 DEF Audio!InvokeCall
<1>6. CASE Audio!InvokeReturn("audio")
  BY <1>6 DEF Audio!InvokeReturn
<1>7. CASE UNCHANGED audioRegistry
  BY <1>7 DEF audioRegistry
<1>8. QED
  BY <1>1, <1>2, <1>3, <1>4, <1>5, <1>6, <1>7 DEF AudioStep

\* The steps of Next, one disjunct per action.
LEMMA NextActions ==
    ASSUME [Next]_vars
    PROVE  \/ CallBegins \/ ControlStep
           \/ \E s \in Streams : SampleAdmitted(s) \/ StreamStep(s)
           \/ UNCHANGED vars
BY DEF Next

\* The registries change by their own operations only.
LEMMA RegistriesStep ==
    ASSUME [Next]_vars
    PROVE  VideoStep /\ AudioStep
<1> USE DEF VideoStep, AudioStep, registries
<1>1. ASSUME InitializeVideoFails PROVE VideoStep /\ AudioStep
  BY <1>1
     DEF InitializeVideoFails, InitializeFails, TryTransitionTo, IsValidTransition,
         VideoInitialized
<1>2. ASSUME InitializeSinkFails PROVE VideoStep /\ AudioStep
  BY <1>2
     DEF InitializeSinkFails, InitializeFails, TryTransitionTo, IsValidTransition,
         SourcesInitialized, VideoInitialized
<1>3. ASSUME Initialize PROVE VideoStep /\ AudioStep
  BY <1>3
     DEF Initialize, TryTransitionTo, IsValidTransition, SourcesInitialized, VideoInitialized,
         InitializeSinkWriter, InitializeAudioStream, OpenSink
<1>4. ASSUME StartClock PROVE VideoStep /\ AudioStep
  BY <1>4 DEF StartClock, Goto, IsValidTransition
<1>5. ASSUME Stop PROVE VideoStep /\ AudioStep
  BY <1>5 DEF Stop, Goto, stopUnchanged
<1>6. ASSUME Pause PROVE VideoStep /\ AudioStep
  BY <1>6 DEF Pause, TryTransitionTo, IsValidTransition, callUnchanged
<1>7. ASSUME Resume PROVE VideoStep /\ AudioStep
  BY <1>7 DEF Resume, TryTransitionTo, IsValidTransition, callUnchanged
<1>8. ASSUME SetAudioInputSource PROVE VideoStep /\ AudioStep
  BY <1>8 DEF SetAudioInputSource, Goto, callUnchanged
<1>9. ASSUME NEW e \in BOOLEAN, ToggleAudioCapture(e) PROVE VideoStep /\ AudioStep
  BY <1>9 DEF ToggleAudioCapture, callUnchanged
<1>10. ASSUME NEW s \in Streams, SetCallback(s) PROVE VideoStep /\ AudioStep
  BY <1>10 DEF SetCallback, Goto, callUnchanged, OnRegistry
<1>11. ASSUME StartAudio PROVE VideoStep /\ AudioStep
  BY <1>11 DEF StartAudio, Goto, startUnchanged, StopAsked
<1>12. ASSUME DropAudio PROVE VideoStep /\ AudioStep
  BY <1>12 DEF DropAudio, Goto, startUnchanged
<1>13. ASSUME RebuildSink PROVE VideoStep /\ AudioStep
  BY <1>13
     DEF RebuildSink, Goto, startUnchanged, TryTransitionTo, IsValidTransition,
         InitializeSinkWriter, OpenSink
<1>14. ASSUME BeginWriting PROVE VideoStep /\ AudioStep
  BY <1>14 DEF BeginWriting, Goto, startUnchanged, AbortStart, StopAsked
<1>15. ASSUME StartVideo PROVE VideoStep /\ AudioStep
  BY <1>15 DEF StartVideo, Goto, startUnchanged, AbortStart, StopAsked
<1>16. ASSUME AbortStartDone PROVE VideoStep /\ AudioStep
  BY <1>16
     DEF AbortStartDone, Goto, startUnchanged, TryTransitionTo, IsValidTransition, StopEnded
<1>17. ASSUME Activate PROVE VideoStep /\ AudioStep
  BY <1>17 DEF Activate, Goto, startUnchanged, TryTransitionTo, IsValidTransition
<1>18. ASSUME StopUnregister PROVE VideoStep /\ AudioStep
  BY <1>18 DEF StopUnregister, Goto, stopUnchanged, StopAsked
<1>19. ASSUME StopVideo PROVE VideoStep /\ AudioStep
  BY <1>19 DEF StopVideo, Goto, stopUnchanged, StopAsked, StopEnded
<1>20. ASSUME StopAudio PROVE VideoStep /\ AudioStep
  BY <1>20 DEF StopAudio, Goto, stopUnchanged, StopEnded
<1>21. ASSUME StopClear PROVE VideoStep /\ AudioStep
  BY <1>21 DEF StopClear, Goto, stopUnchanged
<1>22. ASSUME Finalize PROVE VideoStep /\ AudioStep
  BY <1>22 DEF Finalize, Goto, stopUnchanged
<1>23. ASSUME StopDone PROVE VideoStep /\ AudioStep
  BY <1>23 DEF StopDone, Goto, stopUnchanged, TryTransitionTo, IsValidTransition
<1>24. ASSUME RestoreEnabled \/ SwitchFails PROVE VideoStep /\ AudioStep
  BY <1>24 DEF RestoreEnabled, SwitchFails, Goto, callUnchanged
<1>25. ASSUME NEW s \in Streams, RegisterCallback(s) PROVE VideoStep /\ AudioStep
  BY <1>25 DEF RegisterCallback, Goto, callUnchanged, OnRegistry
<1>26. ASSUME NEW s \in Streams, SampleAdmitted(s) \/ SampleArrives(s) PROVE VideoStep /\ AudioStep
  BY <1>26 DEF SampleAdmitted, SampleArrives, Move, streamUnchanged
<1>27. ASSUME WriteFrame PROVE VideoStep /\ AudioStep
  BY <1>27 DEF WriteFrame, Move, streamUnchanged
<1>28. ASSUME WriteAudioSample PROVE VideoStep /\ AudioStep
  BY <1>28 DEF WriteAudioSample, Move, streamUnchanged
<1>29. ASSUME NEW s \in Streams, Forward(s) PROVE VideoStep /\ AudioStep
  BY <1>29 DEF Forward, Move, streamUnchanged
<1>30. ASSUME NEW s \in Streams, InvokeCopy(s) PROVE VideoStep /\ AudioStep
  BY <1>30 DEF InvokeCopy, Move, streamUnchanged, OnRegistry
<1>31. ASSUME NEW s \in Streams, InvokeCall(s) PROVE VideoStep /\ AudioStep
  BY <1>31 DEF InvokeCall, Move, streamUnchanged, OnRegistry
<1>32. ASSUME NEW s \in Streams, InvokeReturn(s) PROVE VideoStep /\ AudioStep
  BY <1>32 DEF InvokeReturn, Move, streamUnchanged, OnRegistry
<1>33. ASSUME NEW s \in Streams, InvokeDone(s) PROVE VideoStep /\ AudioStep
  BY <1>33 DEF InvokeDone, Move, streamUnchanged
<1>34. ASSUME UNCHANGED vars PROVE VideoStep /\ AudioStep
  BY <1>34 DEF vars
<1>35. QED
  BY <1>1, <1>2, <1>3, <1>4, <1>5, <1>6, <1>7, <1>8, <1>9, <1>10, <1>11, <1>12, <1>13,
     <1>14, <1>15, <1>16, <1>17, <1>18, <1>19, <1>20, <1>21, <1>22, <1>23, <1>24, <1>25,
     <1>26, <1>27, <1>28, <1>29, <1>30, <1>31, <1>32, <1>33, <1>34, NextActions
     DEF CallBegins, ControlStep, StartStep, StopStep, StreamStep

\* Each step keeps the types of the rest.
LEMMA TypeStep ==
    ASSUME SessionTypeOK, [Next]_vars
    PROVE  SessionTypeOK'
<1> USE SessionAssumption DEF SessionTypeOK, States, Streams, SourceStates, ControlPoints, NoSink,
        lifecycle, history
<1>1. ASSUME InitializeVideoFails PROVE SessionTypeOK'
  BY <1>1
     DEF InitializeVideoFails, InitializeFails, TryTransitionTo, IsValidTransition,
         VideoInitialized
<1>2. ASSUME InitializeSinkFails PROVE SessionTypeOK'
  <2>1. sink' \in Sinks
    BY <1>2 DEF Sinks, NoSink, InitializeSinkFails
  <2>2. QED
    BY <1>2, <2>1
       DEF InitializeSinkFails, InitializeFails, TryTransitionTo, IsValidTransition,
           SourcesInitialized, VideoInitialized
<1>3. ASSUME Initialize PROVE SessionTypeOK'
  <2>1. sink' \in Sinks
    BY <1>3 DEF Sinks, Initialize, InitializeSinkWriter, InitializeAudioStream, OpenSink
  <2>2. QED
    BY <1>3, <2>1
       DEF Initialize, TryTransitionTo, IsValidTransition, SourcesInitialized, VideoInitialized,
           InitializeSinkWriter, InitializeAudioStream, OpenSink
<1>4. ASSUME StartClock PROVE SessionTypeOK'
  BY <1>4 DEF StartClock, Goto, IsValidTransition
<1>5. ASSUME Stop PROVE SessionTypeOK'
  BY <1>5 DEF Stop, Goto, stopUnchanged
<1>6. ASSUME Pause PROVE SessionTypeOK'
  BY <1>6 DEF Pause, TryTransitionTo, IsValidTransition, callUnchanged
<1>7. ASSUME Resume PROVE SessionTypeOK'
  BY <1>7 DEF Resume, TryTransitionTo, IsValidTransition, callUnchanged
<1>8. ASSUME SetAudioInputSource PROVE SessionTypeOK'
  BY <1>8 DEF SetAudioInputSource, Goto, callUnchanged
<1>9. ASSUME NEW e \in BOOLEAN, ToggleAudioCapture(e) PROVE SessionTypeOK'
  BY <1>9 DEF ToggleAudioCapture, callUnchanged
<1>10. ASSUME NEW s \in Streams, SetCallback(s) PROVE SessionTypeOK'
  BY <1>10 DEF SetCallback, Goto, callUnchanged
<1>11. ASSUME StartAudio PROVE SessionTypeOK'
  BY <1>11 DEF StartAudio, Goto, startUnchanged, StopAsked
<1>12. ASSUME DropAudio PROVE SessionTypeOK'
  <2>1. sink' \in Sinks
    BY <1>12 DEF Sinks, DropAudio
  <2>2. QED
    BY <1>12, <2>1
       DEF DropAudio, Goto, startUnchanged
<1>13. ASSUME RebuildSink PROVE SessionTypeOK'
  <2>1. NoSink \in Sinks /\ OpenSink \in Sinks
    BY DEF Sinks, NoSink, OpenSink
  <2>2. sink' \in Sinks
    BY <1>13, <2>1 DEF RebuildSink, InitializeSinkWriter
  <2>3. state' \in States /\ control' \in ControlPoints
    BY <1>13 DEF RebuildSink, Goto, TryTransitionTo
  <2>4. QED
    BY <1>13, <2>2, <2>3 DEF RebuildSink, startUnchanged
<1>14. ASSUME BeginWriting PROVE SessionTypeOK'
  <2>1. sink' \in Sinks
    BY <1>14 DEF Sinks, BeginWriting, startUnchanged
  <2>2. QED
    BY <1>14, <2>1
       DEF BeginWriting, Goto, startUnchanged, AbortStart, StopAsked
<1>15. ASSUME StartVideo PROVE SessionTypeOK'
  BY <1>15 DEF StartVideo, Goto, startUnchanged, AbortStart, StopAsked
<1>16. ASSUME AbortStartDone PROVE SessionTypeOK'
  BY <1>16
     DEF AbortStartDone, Goto, startUnchanged, TryTransitionTo, IsValidTransition, StopEnded
<1>17. ASSUME Activate PROVE SessionTypeOK'
  BY <1>17 DEF Activate, Goto, startUnchanged, TryTransitionTo, IsValidTransition
<1>18. ASSUME StopUnregister PROVE SessionTypeOK'
  BY <1>18 DEF StopUnregister, Goto, stopUnchanged, StopAsked
<1>19. ASSUME StopVideo PROVE SessionTypeOK'
  BY <1>19 DEF StopVideo, Goto, stopUnchanged, StopAsked, StopEnded
<1>20. ASSUME StopAudio PROVE SessionTypeOK'
  BY <1>20 DEF StopAudio, Goto, stopUnchanged, StopEnded
<1>21. ASSUME StopClear PROVE SessionTypeOK'
  BY <1>21 DEF StopClear, Goto, stopUnchanged
<1>22. ASSUME Finalize PROVE SessionTypeOK'
  <2>1. sink' \in Sinks
    BY <1>22 DEF Sinks, Finalize
  <2>2. QED
    BY <1>22, <2>1
       DEF Finalize, Goto, stopUnchanged
<1>23. ASSUME StopDone PROVE SessionTypeOK'
  BY <1>23 DEF StopDone, Goto, stopUnchanged, TryTransitionTo, IsValidTransition
<1>24. ASSUME RestoreEnabled \/ SwitchFails PROVE SessionTypeOK'
  BY <1>24 DEF RestoreEnabled, SwitchFails, Goto, callUnchanged
<1>25. ASSUME NEW s \in Streams, RegisterCallback(s) PROVE SessionTypeOK'
  BY <1>25 DEF RegisterCallback, Goto, callUnchanged
<1>26. ASSUME NEW s \in Streams, SampleAdmitted(s) \/ SampleArrives(s) PROVE SessionTypeOK'
  BY <1>26 DEF SampleAdmitted, SampleArrives, Move, streamUnchanged
<1>27. ASSUME WriteFrame PROVE SessionTypeOK'
  <2>1. sink' \in Sinks
    BY <1>27 DEF Sinks, WriteFrame
  <2>2. QED
    BY <1>27, <2>1
       DEF WriteFrame, Move, streamUnchanged
<1>28. ASSUME WriteAudioSample PROVE SessionTypeOK'
  <2>1. encoderFailed' \in BOOLEAN
    BY <1>28 DEF Sinks, WriteAudioSample
  <2>2. enabled' \in BOOLEAN
    BY <1>28 DEF WriteAudioSample
  <2>3. at' \in [Streams -> {"idle", "admitted", "write", "forward", "invoke", "calling"}]
    BY <1>28 DEF WriteAudioSample, Move
  <2>4. QED
    BY <1>28, <2>1, <2>2, <2>3 DEF WriteAudioSample, streamUnchanged
<1>29. ASSUME NEW s \in Streams, Forward(s) PROVE SessionTypeOK'
  BY <1>29 DEF Forward, Move, streamUnchanged
<1>30. ASSUME NEW s \in Streams, InvokeCopy(s) PROVE SessionTypeOK'
  BY <1>30 DEF InvokeCopy, Move, streamUnchanged
<1>31. ASSUME NEW s \in Streams, InvokeCall(s) PROVE SessionTypeOK'
  BY <1>31 DEF InvokeCall, Move, streamUnchanged
<1>32. ASSUME NEW s \in Streams, InvokeReturn(s) PROVE SessionTypeOK'
  BY <1>32 DEF InvokeReturn, Move, streamUnchanged
<1>33. ASSUME NEW s \in Streams, InvokeDone(s) PROVE SessionTypeOK'
  BY <1>33 DEF InvokeDone, Move, streamUnchanged
<1>34. ASSUME UNCHANGED vars PROVE SessionTypeOK'
  BY <1>34 DEF vars
<1>35. QED
  BY <1>1, <1>2, <1>3, <1>4, <1>5, <1>6, <1>7, <1>8, <1>9, <1>10, <1>11, <1>12, <1>13,
     <1>14, <1>15, <1>16, <1>17, <1>18, <1>19, <1>20, <1>21, <1>22, <1>23, <1>24, <1>25,
     <1>26, <1>27, <1>28, <1>29, <1>30, <1>31, <1>32, <1>33, <1>34, NextActions
     DEF CallBegins, ControlStep, StartStep, StopStep, StreamStep

\* Each step keeps the invariant of sources and file, if no client starts a paused session.
LEMMA PartsStep ==
    ASSUME ~StartsPausedSession, SessionTypeOK, Parts, [Next]_vars
    PROVE  Parts'
<1> USE DEF SessionTypeOK, Sinks, Streams, SourceStates, NoSink, lifecycle, history, InStart,
        InStop, video, audio, Live, Parts, Delivering, Ready, Starting, Stopping, Resting, Cleaned
<1>1. ASSUME InitializeVideoFails PROVE Parts'
  <2>1. Delivering'
    BY <1>1
       DEF InitializeVideoFails, InitializeFails, TryTransitionTo, IsValidTransition,
           VideoInitialized
  <2>2. Starting'
    BY <1>1
       DEF InitializeVideoFails, InitializeFails, TryTransitionTo, IsValidTransition,
           VideoInitialized
  <2>3. Stopping'
    BY <1>1
       DEF InitializeVideoFails, InitializeFails, TryTransitionTo, IsValidTransition,
           VideoInitialized
  <2>4. Resting'
    BY <1>1
       DEF InitializeVideoFails, InitializeFails, TryTransitionTo, IsValidTransition,
           VideoInitialized
  <2>5. Cleaned'
    BY <1>1
       DEF InitializeVideoFails, InitializeFails, TryTransitionTo, IsValidTransition,
           VideoInitialized
  <2>6. QED
    BY <2>1, <2>2, <2>3, <2>4, <2>5
<1>2. ASSUME InitializeSinkFails PROVE Parts'
  <2>1. Delivering'
    BY <1>2
       DEF InitializeSinkFails, InitializeFails, TryTransitionTo, IsValidTransition,
           SourcesInitialized, VideoInitialized
  <2>2. Starting'
    BY <1>2
       DEF InitializeSinkFails, InitializeFails, TryTransitionTo, IsValidTransition,
           SourcesInitialized, VideoInitialized
  <2>3. Stopping'
    BY <1>2
       DEF InitializeSinkFails, InitializeFails, TryTransitionTo, IsValidTransition,
           SourcesInitialized, VideoInitialized
  <2>4. Resting'
    BY <1>2
       DEF InitializeSinkFails, InitializeFails, TryTransitionTo, IsValidTransition,
           SourcesInitialized, VideoInitialized
  <2>5. Cleaned'
    BY <1>2
       DEF InitializeSinkFails, InitializeFails, TryTransitionTo, IsValidTransition,
           SourcesInitialized, VideoInitialized
  <2>6. QED
    BY <2>1, <2>2, <2>3, <2>4, <2>5
<1>3. ASSUME Initialize PROVE Parts'
  <2>1. Delivering'
    BY <1>3
       DEF Initialize, TryTransitionTo, IsValidTransition, SourcesInitialized, VideoInitialized,
           InitializeSinkWriter, InitializeAudioStream, OpenSink
  <2>2. Starting'
    BY <1>3
       DEF Initialize, TryTransitionTo, IsValidTransition, SourcesInitialized, VideoInitialized,
           InitializeSinkWriter, InitializeAudioStream, OpenSink
  <2>3. Stopping'
    BY <1>3
       DEF Initialize, TryTransitionTo, IsValidTransition, SourcesInitialized, VideoInitialized,
           InitializeSinkWriter, InitializeAudioStream, OpenSink
  <2>4. Resting'
    BY <1>3
       DEF Initialize, TryTransitionTo, IsValidTransition, SourcesInitialized, VideoInitialized,
           InitializeSinkWriter, InitializeAudioStream, OpenSink
  <2>5. Cleaned'
    BY <1>3
       DEF Initialize, TryTransitionTo, IsValidTransition, SourcesInitialized, VideoInitialized,
           InitializeSinkWriter, InitializeAudioStream, OpenSink
  <2>6. QED
    BY <2>1, <2>2, <2>3, <2>4, <2>5
<1>4. ASSUME StartClock PROVE Parts'
  <2>1. Delivering'
    BY <1>4 DEF StartClock, Goto, IsValidTransition
  <2>2. Starting'
    BY <1>4 DEF StartClock, Goto, IsValidTransition
  <2>3. Stopping'
    BY <1>4 DEF StartClock, Goto, IsValidTransition
  <2>4. Resting'
    BY <1>4 DEF StartClock, Goto, IsValidTransition
  <2>5. Cleaned'
    BY <1>4 DEF StartClock, Goto, IsValidTransition
  <2>6. QED
    BY <2>1, <2>2, <2>3, <2>4, <2>5
<1>5. ASSUME Stop PROVE Parts'
  <2>1. Delivering'
    BY <1>5 DEF Stop, Goto, stopUnchanged
  <2>2. Starting'
    BY <1>5 DEF Stop, Goto, stopUnchanged
  <2>3. Stopping'
    BY <1>5 DEF Stop, Goto, stopUnchanged
  <2>4. Resting'
    BY <1>5 DEF Stop, Goto, stopUnchanged
  <2>5. Cleaned'
    BY <1>5 DEF Stop, Goto, stopUnchanged
  <2>6. QED
    BY <2>1, <2>2, <2>3, <2>4, <2>5
<1>6. ASSUME Pause PROVE Parts'
  <2>1. Delivering'
    BY <1>6 DEF Pause, TryTransitionTo, IsValidTransition, callUnchanged
  <2>2. Starting'
    BY <1>6 DEF Pause, TryTransitionTo, IsValidTransition, callUnchanged
  <2>3. Stopping'
    BY <1>6 DEF Pause, TryTransitionTo, IsValidTransition, callUnchanged
  <2>4. Resting'
    BY <1>6 DEF Pause, TryTransitionTo, IsValidTransition, callUnchanged
  <2>5. Cleaned'
    BY <1>6 DEF Pause, TryTransitionTo, IsValidTransition, callUnchanged
  <2>6. QED
    BY <2>1, <2>2, <2>3, <2>4, <2>5
<1>7. ASSUME Resume PROVE Parts'
  <2>1. Delivering'
    BY <1>7 DEF Resume, TryTransitionTo, IsValidTransition, callUnchanged
  <2>2. Starting'
    BY <1>7 DEF Resume, TryTransitionTo, IsValidTransition, callUnchanged
  <2>3. Stopping'
    BY <1>7 DEF Resume, TryTransitionTo, IsValidTransition, callUnchanged
  <2>4. Resting'
    BY <1>7 DEF Resume, TryTransitionTo, IsValidTransition, callUnchanged
  <2>5. Cleaned'
    BY <1>7 DEF Resume, TryTransitionTo, IsValidTransition, callUnchanged
  <2>6. QED
    BY <2>1, <2>2, <2>3, <2>4, <2>5
<1>8. ASSUME SetAudioInputSource PROVE Parts'
  <2>1. Delivering'
    BY <1>8 DEF SetAudioInputSource, Goto, callUnchanged
  <2>2. Starting'
    BY <1>8 DEF SetAudioInputSource, Goto, callUnchanged
  <2>3. Stopping'
    BY <1>8 DEF SetAudioInputSource, Goto, callUnchanged
  <2>4. Resting'
    BY <1>8 DEF SetAudioInputSource, Goto, callUnchanged
  <2>5. Cleaned'
    BY <1>8 DEF SetAudioInputSource, Goto, callUnchanged
  <2>6. QED
    BY <2>1, <2>2, <2>3, <2>4, <2>5
<1>9. ASSUME NEW e \in BOOLEAN, ToggleAudioCapture(e) PROVE Parts'
  <2>1. Delivering'
    BY <1>9 DEF ToggleAudioCapture, callUnchanged
  <2>2. Starting'
    BY <1>9 DEF ToggleAudioCapture, callUnchanged
  <2>3. Stopping'
    BY <1>9 DEF ToggleAudioCapture, callUnchanged
  <2>4. Resting'
    BY <1>9 DEF ToggleAudioCapture, callUnchanged
  <2>5. Cleaned'
    BY <1>9 DEF ToggleAudioCapture, callUnchanged
  <2>6. QED
    BY <2>1, <2>2, <2>3, <2>4, <2>5
<1>10. ASSUME NEW s \in Streams, SetCallback(s) PROVE Parts'
  <2>1. Delivering'
    BY <1>10 DEF SetCallback, Goto, callUnchanged
  <2>2. Starting'
    BY <1>10 DEF SetCallback, Goto, callUnchanged
  <2>3. Stopping'
    BY <1>10 DEF SetCallback, Goto, callUnchanged
  <2>4. Resting'
    BY <1>10 DEF SetCallback, Goto, callUnchanged
  <2>5. Cleaned'
    BY <1>10 DEF SetCallback, Goto, callUnchanged
  <2>6. QED
    BY <2>1, <2>2, <2>3, <2>4, <2>5
<1>11. ASSUME StartAudio PROVE Parts'
  <2>1. Delivering'
    BY <1>11 DEF StartAudio, Goto, startUnchanged, StopAsked
  <2>2. Starting'
    <3>1. CASE ~audioAvailable /\ Goto("begin") /\ UNCHANGED source
      BY <1>11, <3>1 DEF StartAudio, Goto, startUnchanged, StopAsked
    <3>2. CASE source' = [source EXCEPT !["audio"] = "running"] /\ audio = "ready"
               /\ Goto("begin")
      BY <1>11, <3>2 DEF StartAudio, Goto, startUnchanged, StopAsked
    <3>3. CASE source' = [source EXCEPT !["audio"] = StopAsked(audio)] /\ audioAvailable
               /\ Goto("dropAudio")
      BY <1>11, <3>3 DEF StartAudio, Goto, startUnchanged, StopAsked
    <3>4. QED
      BY <1>11, <3>1, <3>2, <3>3 DEF StartAudio
  <2>3. Stopping'
    BY <1>11 DEF StartAudio, Goto, startUnchanged, StopAsked
  <2>4. Resting'
    BY <1>11 DEF StartAudio, Goto, startUnchanged, StopAsked
  <2>5. Cleaned'
    BY <1>11 DEF StartAudio, Goto, startUnchanged, StopAsked
  <2>6. QED
    BY <2>1, <2>2, <2>3, <2>4, <2>5
<1>12. ASSUME DropAudio PROVE Parts'
  <2>1. Delivering'
    BY <1>12 DEF DropAudio, Goto, startUnchanged
  <2>2. Starting'
    BY <1>12 DEF DropAudio, Goto, startUnchanged
  <2>3. Stopping'
    BY <1>12 DEF DropAudio, Goto, startUnchanged
  <2>4. Resting'
    BY <1>12 DEF DropAudio, Goto, startUnchanged
  <2>5. Cleaned'
    BY <1>12 DEF DropAudio, Goto, startUnchanged
  <2>6. QED
    BY <2>1, <2>2, <2>3, <2>4, <2>5
<1>13. ASSUME RebuildSink PROVE Parts'
  <2>1. Delivering'
    BY <1>13
       DEF RebuildSink, Goto, startUnchanged, TryTransitionTo, IsValidTransition,
           InitializeSinkWriter, OpenSink
  <2>2. Starting'
    BY <1>13
       DEF RebuildSink, Goto, startUnchanged, TryTransitionTo, IsValidTransition,
           InitializeSinkWriter, OpenSink
  <2>3. Stopping'
    BY <1>13
       DEF RebuildSink, Goto, startUnchanged, TryTransitionTo, IsValidTransition,
           InitializeSinkWriter, OpenSink
  <2>4. Resting'
    BY <1>13
       DEF RebuildSink, Goto, startUnchanged, TryTransitionTo, IsValidTransition,
           InitializeSinkWriter, OpenSink
  <2>5. Cleaned'
    BY <1>13
       DEF RebuildSink, Goto, startUnchanged, TryTransitionTo, IsValidTransition,
           InitializeSinkWriter, OpenSink
  <2>6. QED
    BY <2>1, <2>2, <2>3, <2>4, <2>5
<1>14. ASSUME BeginWriting PROVE Parts'
  <2>1. Delivering'
    BY <1>14 DEF BeginWriting, Goto, startUnchanged, AbortStart, StopAsked
  <2>2. Starting'
    BY <1>14 DEF BeginWriting, Goto, startUnchanged, AbortStart, StopAsked
  <2>3. Stopping'
    BY <1>14 DEF BeginWriting, Goto, startUnchanged, AbortStart, StopAsked
  <2>4. Resting'
    BY <1>14 DEF BeginWriting, Goto, startUnchanged, AbortStart, StopAsked
  <2>5. Cleaned'
    BY <1>14 DEF BeginWriting, Goto, startUnchanged, AbortStart, StopAsked
  <2>6. QED
    BY <2>1, <2>2, <2>3, <2>4, <2>5
<1>15. ASSUME StartVideo PROVE Parts'
  <2>1. Delivering'
    BY <1>15 DEF StartVideo, Goto, startUnchanged, AbortStart, StopAsked
  <2>2. Starting'
    BY <1>15 DEF StartVideo, Goto, startUnchanged, AbortStart, StopAsked
  <2>3. Stopping'
    BY <1>15 DEF StartVideo, Goto, startUnchanged, AbortStart, StopAsked
  <2>4. Resting'
    BY <1>15 DEF StartVideo, Goto, startUnchanged, AbortStart, StopAsked
  <2>5. Cleaned'
    BY <1>15 DEF StartVideo, Goto, startUnchanged, AbortStart, StopAsked
  <2>6. QED
    BY <2>1, <2>2, <2>3, <2>4, <2>5
<1>16. ASSUME AbortStartDone PROVE Parts'
  <2>1. Delivering'
    BY <1>16
       DEF AbortStartDone, Goto, startUnchanged, TryTransitionTo, IsValidTransition, StopEnded
  <2>2. Starting'
    BY <1>16
       DEF AbortStartDone, Goto, startUnchanged, TryTransitionTo, IsValidTransition, StopEnded
  <2>3. Stopping'
    BY <1>16
       DEF AbortStartDone, Goto, startUnchanged, TryTransitionTo, IsValidTransition, StopEnded
  <2>4. Resting'
    BY <1>16
       DEF AbortStartDone, Goto, startUnchanged, TryTransitionTo, IsValidTransition, StopEnded
  <2>5. Cleaned'
    BY <1>16
       DEF AbortStartDone, Goto, startUnchanged, TryTransitionTo, IsValidTransition, StopEnded
  <2>6. QED
    BY <2>1, <2>2, <2>3, <2>4, <2>5
<1>17. ASSUME Activate PROVE Parts'
  <2>1. Delivering'
    BY <1>17 DEF Activate, Goto, startUnchanged, TryTransitionTo, IsValidTransition
  <2>2. Starting'
    BY <1>17 DEF Activate, Goto, startUnchanged, TryTransitionTo, IsValidTransition
  <2>3. Stopping'
    BY <1>17 DEF Activate, Goto, startUnchanged, TryTransitionTo, IsValidTransition
  <2>4. Resting'
    BY <1>17 DEF Activate, Goto, startUnchanged, TryTransitionTo, IsValidTransition
  <2>5. Cleaned'
    BY <1>17 DEF Activate, Goto, startUnchanged, TryTransitionTo, IsValidTransition
  <2>6. QED
    BY <2>1, <2>2, <2>3, <2>4, <2>5
<1>18. ASSUME StopUnregister PROVE Parts'
  <2>1. Delivering'
    BY <1>18 DEF StopUnregister, Goto, stopUnchanged, StopAsked
  <2>2. Starting'
    BY <1>18 DEF StopUnregister, Goto, stopUnchanged, StopAsked
  <2>3. Stopping'
    BY <1>18 DEF StopUnregister, Goto, stopUnchanged, StopAsked
  <2>4. Resting'
    BY <1>18 DEF StopUnregister, Goto, stopUnchanged, StopAsked
  <2>5. Cleaned'
    BY <1>18 DEF StopUnregister, Goto, stopUnchanged, StopAsked
  <2>6. QED
    BY <2>1, <2>2, <2>3, <2>4, <2>5
<1>19. ASSUME StopVideo PROVE Parts'
  <2>1. Delivering'
    BY <1>19 DEF StopVideo, Goto, stopUnchanged, StopAsked, StopEnded
  <2>2. Starting'
    BY <1>19 DEF StopVideo, Goto, stopUnchanged, StopAsked, StopEnded
  <2>3. Stopping'
    BY <1>19 DEF StopVideo, Goto, stopUnchanged, StopAsked, StopEnded
  <2>4. Resting'
    BY <1>19 DEF StopVideo, Goto, stopUnchanged, StopAsked, StopEnded
  <2>5. Cleaned'
    BY <1>19 DEF StopVideo, Goto, stopUnchanged, StopAsked, StopEnded
  <2>6. QED
    BY <2>1, <2>2, <2>3, <2>4, <2>5
<1>20. ASSUME StopAudio PROVE Parts'
  <2>1. Delivering'
    BY <1>20 DEF StopAudio, Goto, stopUnchanged, StopEnded
  <2>2. Starting'
    BY <1>20 DEF StopAudio, Goto, stopUnchanged, StopEnded
  <2>3. Stopping'
    BY <1>20 DEF StopAudio, Goto, stopUnchanged, StopEnded
  <2>4. Resting'
    BY <1>20 DEF StopAudio, Goto, stopUnchanged, StopEnded
  <2>5. Cleaned'
    BY <1>20 DEF StopAudio, Goto, stopUnchanged, StopEnded
  <2>6. QED
    BY <2>1, <2>2, <2>3, <2>4, <2>5
<1>21. ASSUME StopClear PROVE Parts'
  <2>1. Delivering'
    BY <1>21 DEF StopClear, Goto, stopUnchanged
  <2>2. Starting'
    BY <1>21 DEF StopClear, Goto, stopUnchanged
  <2>3. Stopping'
    BY <1>21 DEF StopClear, Goto, stopUnchanged
  <2>4. Resting'
    BY <1>21 DEF StopClear, Goto, stopUnchanged
  <2>5. Cleaned'
    BY <1>21 DEF StopClear, Goto, stopUnchanged
  <2>6. QED
    BY <2>1, <2>2, <2>3, <2>4, <2>5
<1>22. ASSUME Finalize PROVE Parts'
  <2>1. Delivering'
    BY <1>22 DEF Finalize, Goto, stopUnchanged
  <2>2. Starting'
    BY <1>22 DEF Finalize, Goto, stopUnchanged
  <2>3. Stopping'
    BY <1>22 DEF Finalize, Goto, stopUnchanged
  <2>4. Resting'
    BY <1>22 DEF Finalize, Goto, stopUnchanged
  <2>5. Cleaned'
    BY <1>22 DEF Finalize, Goto, stopUnchanged
  <2>6. QED
    BY <2>1, <2>2, <2>3, <2>4, <2>5
<1>23. ASSUME StopDone PROVE Parts'
  <2>1. Delivering'
    BY <1>23 DEF StopDone, Goto, stopUnchanged, TryTransitionTo, IsValidTransition
  <2>2. Starting'
    BY <1>23 DEF StopDone, Goto, stopUnchanged, TryTransitionTo, IsValidTransition
  <2>3. Stopping'
    BY <1>23 DEF StopDone, Goto, stopUnchanged, TryTransitionTo, IsValidTransition
  <2>4. Resting'
    BY <1>23 DEF StopDone, Goto, stopUnchanged, TryTransitionTo, IsValidTransition
  <2>5. Cleaned'
    BY <1>23 DEF StopDone, Goto, stopUnchanged, TryTransitionTo, IsValidTransition
  <2>6. QED
    BY <2>1, <2>2, <2>3, <2>4, <2>5
<1>24. ASSUME RestoreEnabled \/ SwitchFails PROVE Parts'
  <2>1. Delivering'
    BY <1>24 DEF RestoreEnabled, SwitchFails, Goto, callUnchanged
  <2>2. Starting'
    BY <1>24 DEF RestoreEnabled, SwitchFails, Goto, callUnchanged
  <2>3. Stopping'
    BY <1>24 DEF RestoreEnabled, SwitchFails, Goto, callUnchanged
  <2>4. Resting'
    BY <1>24 DEF RestoreEnabled, SwitchFails, Goto, callUnchanged
  <2>5. Cleaned'
    BY <1>24 DEF RestoreEnabled, SwitchFails, Goto, callUnchanged
  <2>6. QED
    BY <2>1, <2>2, <2>3, <2>4, <2>5
<1>25. ASSUME NEW s \in Streams, RegisterCallback(s) PROVE Parts'
  <2>1. Delivering'
    BY <1>25 DEF RegisterCallback, Goto, callUnchanged
  <2>2. Starting'
    BY <1>25 DEF RegisterCallback, Goto, callUnchanged
  <2>3. Stopping'
    BY <1>25 DEF RegisterCallback, Goto, callUnchanged
  <2>4. Resting'
    BY <1>25 DEF RegisterCallback, Goto, callUnchanged
  <2>5. Cleaned'
    BY <1>25 DEF RegisterCallback, Goto, callUnchanged
  <2>6. QED
    BY <2>1, <2>2, <2>3, <2>4, <2>5
<1>26. ASSUME NEW s \in Streams, SampleAdmitted(s) \/ SampleArrives(s) PROVE Parts'
  <2>1. Delivering'
    BY <1>26 DEF SampleAdmitted, SampleArrives, Move, streamUnchanged
  <2>2. Starting'
    BY <1>26 DEF SampleAdmitted, SampleArrives, Move, streamUnchanged
  <2>3. Stopping'
    BY <1>26 DEF SampleAdmitted, SampleArrives, Move, streamUnchanged
  <2>4. Resting'
    BY <1>26 DEF SampleAdmitted, SampleArrives, Move, streamUnchanged
  <2>5. Cleaned'
    BY <1>26 DEF SampleAdmitted, SampleArrives, Move, streamUnchanged
  <2>6. QED
    BY <2>1, <2>2, <2>3, <2>4, <2>5
<1>27. ASSUME WriteFrame PROVE Parts'
  <2>1. Delivering'
    BY <1>27 DEF WriteFrame, Move, streamUnchanged
  <2>2. Starting'
    BY <1>27 DEF WriteFrame, Move, streamUnchanged
  <2>3. Stopping'
    BY <1>27 DEF WriteFrame, Move, streamUnchanged
  <2>4. Resting'
    BY <1>27 DEF WriteFrame, Move, streamUnchanged
  <2>5. Cleaned'
    BY <1>27 DEF WriteFrame, Move, streamUnchanged
  <2>6. QED
    BY <2>1, <2>2, <2>3, <2>4, <2>5
<1>28. ASSUME WriteAudioSample PROVE Parts'
  <2>1. Delivering'
    BY <1>28 DEF WriteAudioSample, Move, streamUnchanged
  <2>2. Starting'
    BY <1>28 DEF WriteAudioSample, Move, streamUnchanged
  <2>3. Stopping'
    BY <1>28 DEF WriteAudioSample, Move, streamUnchanged
  <2>4. Resting'
    BY <1>28 DEF WriteAudioSample, Move, streamUnchanged
  <2>5. Cleaned'
    BY <1>28 DEF WriteAudioSample, Move, streamUnchanged
  <2>6. QED
    BY <2>1, <2>2, <2>3, <2>4, <2>5
<1>29. ASSUME NEW s \in Streams, Forward(s) PROVE Parts'
  <2>1. Delivering'
    BY <1>29 DEF Forward, Move, streamUnchanged
  <2>2. Starting'
    BY <1>29 DEF Forward, Move, streamUnchanged
  <2>3. Stopping'
    BY <1>29 DEF Forward, Move, streamUnchanged
  <2>4. Resting'
    BY <1>29 DEF Forward, Move, streamUnchanged
  <2>5. Cleaned'
    BY <1>29 DEF Forward, Move, streamUnchanged
  <2>6. QED
    BY <2>1, <2>2, <2>3, <2>4, <2>5
<1>30. ASSUME NEW s \in Streams, InvokeCopy(s) PROVE Parts'
  <2>1. Delivering'
    BY <1>30 DEF InvokeCopy, Move, streamUnchanged
  <2>2. Starting'
    BY <1>30 DEF InvokeCopy, Move, streamUnchanged
  <2>3. Stopping'
    BY <1>30 DEF InvokeCopy, Move, streamUnchanged
  <2>4. Resting'
    BY <1>30 DEF InvokeCopy, Move, streamUnchanged
  <2>5. Cleaned'
    BY <1>30 DEF InvokeCopy, Move, streamUnchanged
  <2>6. QED
    BY <2>1, <2>2, <2>3, <2>4, <2>5
<1>31. ASSUME NEW s \in Streams, InvokeCall(s) PROVE Parts'
  <2>1. Delivering'
    BY <1>31 DEF InvokeCall, Move, streamUnchanged
  <2>2. Starting'
    BY <1>31 DEF InvokeCall, Move, streamUnchanged
  <2>3. Stopping'
    BY <1>31 DEF InvokeCall, Move, streamUnchanged
  <2>4. Resting'
    BY <1>31 DEF InvokeCall, Move, streamUnchanged
  <2>5. Cleaned'
    BY <1>31 DEF InvokeCall, Move, streamUnchanged
  <2>6. QED
    BY <2>1, <2>2, <2>3, <2>4, <2>5
<1>32. ASSUME NEW s \in Streams, InvokeReturn(s) PROVE Parts'
  <2>1. Delivering'
    BY <1>32 DEF InvokeReturn, Move, streamUnchanged
  <2>2. Starting'
    BY <1>32 DEF InvokeReturn, Move, streamUnchanged
  <2>3. Stopping'
    BY <1>32 DEF InvokeReturn, Move, streamUnchanged
  <2>4. Resting'
    BY <1>32 DEF InvokeReturn, Move, streamUnchanged
  <2>5. Cleaned'
    BY <1>32 DEF InvokeReturn, Move, streamUnchanged
  <2>6. QED
    BY <2>1, <2>2, <2>3, <2>4, <2>5
<1>33. ASSUME NEW s \in Streams, InvokeDone(s) PROVE Parts'
  <2>1. Delivering'
    BY <1>33 DEF InvokeDone, Move, streamUnchanged
  <2>2. Starting'
    BY <1>33 DEF InvokeDone, Move, streamUnchanged
  <2>3. Stopping'
    BY <1>33 DEF InvokeDone, Move, streamUnchanged
  <2>4. Resting'
    BY <1>33 DEF InvokeDone, Move, streamUnchanged
  <2>5. Cleaned'
    BY <1>33 DEF InvokeDone, Move, streamUnchanged
  <2>6. QED
    BY <2>1, <2>2, <2>3, <2>4, <2>5
<1>34. ASSUME UNCHANGED vars PROVE Parts'
  BY <1>34 DEF vars
<1>35. QED
  BY <1>1, <1>2, <1>3, <1>4, <1>5, <1>6, <1>7, <1>8, <1>9, <1>10, <1>11, <1>12, <1>13,
     <1>14, <1>15, <1>16, <1>17, <1>18, <1>19, <1>20, <1>21, <1>22, <1>23, <1>24, <1>25,
     <1>26, <1>27, <1>28, <1>29, <1>30, <1>31, <1>32, <1>33, <1>34, NextActions
     DEF CallBegins, ControlStep, StartStep, StopStep, StreamStep

\* Each step keeps the invariant of the enabled flag.
LEMMA MutedStep ==
    ASSUME SessionTypeOK, Parts, Muted, [Next]_vars
    PROVE  Muted'
<1> USE DEF SessionTypeOK, Sinks, Streams, NoSink, lifecycle, history, audio, Live, Parts,
        Delivering, Muted, MuteHasCause
<1>1. ASSUME InitializeVideoFails PROVE Muted'
  BY <1>1
     DEF InitializeVideoFails, InitializeFails, TryTransitionTo, IsValidTransition,
         VideoInitialized
<1>2. ASSUME InitializeSinkFails PROVE Muted'
  BY <1>2
     DEF InitializeSinkFails, InitializeFails, TryTransitionTo, IsValidTransition,
         SourcesInitialized, VideoInitialized
<1>3. ASSUME Initialize PROVE Muted'
  BY <1>3
     DEF Initialize, TryTransitionTo, IsValidTransition, SourcesInitialized, VideoInitialized,
         InitializeSinkWriter, InitializeAudioStream, OpenSink
<1>4. ASSUME StartClock PROVE Muted'
  BY <1>4 DEF StartClock, Goto, IsValidTransition
<1>5. ASSUME Stop PROVE Muted'
  BY <1>5 DEF Stop, Goto, stopUnchanged
<1>6. ASSUME Pause PROVE Muted'
  BY <1>6 DEF Pause, TryTransitionTo, IsValidTransition, callUnchanged
<1>7. ASSUME Resume PROVE Muted'
  BY <1>7 DEF Resume, TryTransitionTo, IsValidTransition, callUnchanged
<1>8. ASSUME SetAudioInputSource PROVE Muted'
  BY <1>8 DEF SetAudioInputSource, Goto, callUnchanged
<1>9. ASSUME NEW e \in BOOLEAN, ToggleAudioCapture(e) PROVE Muted'
  BY <1>9 DEF ToggleAudioCapture, callUnchanged
<1>10. ASSUME NEW s \in Streams, SetCallback(s) PROVE Muted'
  BY <1>10 DEF SetCallback, Goto, callUnchanged
<1>11. ASSUME StartAudio PROVE Muted'
  BY <1>11 DEF StartAudio, Goto, startUnchanged, StopAsked
<1>12. ASSUME DropAudio PROVE Muted'
  BY <1>12 DEF DropAudio, Goto, startUnchanged
<1>13. ASSUME RebuildSink PROVE Muted'
  BY <1>13
     DEF RebuildSink, Goto, startUnchanged, TryTransitionTo, IsValidTransition,
         InitializeSinkWriter, OpenSink
<1>14. ASSUME BeginWriting PROVE Muted'
  BY <1>14 DEF BeginWriting, Goto, startUnchanged, AbortStart, StopAsked
<1>15. ASSUME StartVideo PROVE Muted'
  BY <1>15 DEF StartVideo, Goto, startUnchanged, AbortStart, StopAsked
<1>16. ASSUME AbortStartDone PROVE Muted'
  BY <1>16
     DEF AbortStartDone, Goto, startUnchanged, TryTransitionTo, IsValidTransition, StopEnded
<1>17. ASSUME Activate PROVE Muted'
  BY <1>17 DEF Activate, Goto, startUnchanged, TryTransitionTo, IsValidTransition
<1>18. ASSUME StopUnregister PROVE Muted'
  BY <1>18 DEF StopUnregister, Goto, stopUnchanged, StopAsked
<1>19. ASSUME StopVideo PROVE Muted'
  BY <1>19 DEF StopVideo, Goto, stopUnchanged, StopAsked, StopEnded
<1>20. ASSUME StopAudio PROVE Muted'
  BY <1>20 DEF StopAudio, Goto, stopUnchanged, StopEnded
<1>21. ASSUME StopClear PROVE Muted'
  BY <1>21 DEF StopClear, Goto, stopUnchanged
<1>22. ASSUME Finalize PROVE Muted'
  BY <1>22 DEF Finalize, Goto, stopUnchanged
<1>23. ASSUME StopDone PROVE Muted'
  BY <1>23 DEF StopDone, Goto, stopUnchanged, TryTransitionTo, IsValidTransition
<1>24. ASSUME RestoreEnabled \/ SwitchFails PROVE Muted'
  BY <1>24 DEF RestoreEnabled, SwitchFails, Goto, callUnchanged
<1>25. ASSUME NEW s \in Streams, RegisterCallback(s) PROVE Muted'
  BY <1>25 DEF RegisterCallback, Goto, callUnchanged
<1>26. ASSUME NEW s \in Streams, SampleAdmitted(s) \/ SampleArrives(s) PROVE Muted'
  BY <1>26 DEF SampleAdmitted, SampleArrives, Move, streamUnchanged
<1>27. ASSUME WriteFrame PROVE Muted'
  BY <1>27 DEF WriteFrame, Move, streamUnchanged
<1>28. ASSUME WriteAudioSample PROVE Muted'
  BY <1>28 DEF WriteAudioSample, Move, streamUnchanged
<1>29. ASSUME NEW s \in Streams, Forward(s) PROVE Muted'
  BY <1>29 DEF Forward, Move, streamUnchanged
<1>30. ASSUME NEW s \in Streams, InvokeCopy(s) PROVE Muted'
  BY <1>30 DEF InvokeCopy, Move, streamUnchanged
<1>31. ASSUME NEW s \in Streams, InvokeCall(s) PROVE Muted'
  BY <1>31 DEF InvokeCall, Move, streamUnchanged
<1>32. ASSUME NEW s \in Streams, InvokeReturn(s) PROVE Muted'
  BY <1>32 DEF InvokeReturn, Move, streamUnchanged
<1>33. ASSUME NEW s \in Streams, InvokeDone(s) PROVE Muted'
  BY <1>33 DEF InvokeDone, Move, streamUnchanged
<1>34. ASSUME UNCHANGED vars PROVE Muted'
  BY <1>34 DEF vars
<1>35. QED
  BY <1>1, <1>2, <1>3, <1>4, <1>5, <1>6, <1>7, <1>8, <1>9, <1>10, <1>11, <1>12, <1>13,
     <1>14, <1>15, <1>16, <1>17, <1>18, <1>19, <1>20, <1>21, <1>22, <1>23, <1>24, <1>25,
     <1>26, <1>27, <1>28, <1>29, <1>30, <1>31, <1>32, <1>33, <1>34, NextActions
     DEF CallBegins, ControlStep, StartStep, StopStep, StreamStep

-----------------------------------------------------------------------------
\* All parts of the invariant hold at first.
LEMMA InvInit ==
    ASSUME Init
    PROVE  SessionTypeOK /\ RegistriesTypeOK /\ Parts /\ Muted
<1> USE SessionAssumption DEF Init, NoSink, Streams
<1>1. SessionTypeOK
  BY DEF SessionTypeOK, Sinks, States, SourceStates, ControlPoints
<1>2. RegistriesTypeOK
  <2>1. Video!TypeOK
    BY DEF Video!Init, Video!TypeOK, Video!MaybeId, Video!Ids
  <2>2. Audio!TypeOK
    BY DEF Audio!Init, Audio!TypeOK, Audio!MaybeId, Audio!Ids
  <2>3. QED
    BY <2>1, <2>2 DEF RegistriesTypeOK
<1>3. Parts
  BY DEF Parts, Delivering, Ready, Starting, Stopping, Resting, Cleaned, InStart, InStop, video,
         audio, Live
<1>4. Muted
  BY DEF Muted, MuteHasCause
<1>5. QED
  BY <1>1, <1>2, <1>3, <1>4

\* The state keeps its shape, and both registries theirs: the session changes them by
\* their own operations only.
THEOREM TypeCorrect == Spec => []TypeOK
<1>1. Init => SessionTypeOK /\ RegistriesTypeOK
  BY InvInit
<1>2. SessionTypeOK /\ RegistriesTypeOK /\ [Next]_vars => (SessionTypeOK /\ RegistriesTypeOK)'
  BY TypeStep, RegistriesStep, VideoTypes, AudioTypes DEF RegistriesTypeOK
<1>3. SessionTypeOK /\ RegistriesTypeOK => TypeOK
  BY TypeParts
<1>4. QED
  BY <1>1, <1>2, <1>3, PTL DEF Spec

\* The inductive invariant of sources, file and enabled flag.
THEOREM Invariance ==
    ASSUME ~StartsPausedSession
    PROVE  Spec => [](SessionTypeOK /\ Parts /\ Muted)
<1> DEFINE Inv == SessionTypeOK /\ Parts /\ Muted
<1>1. Init => Inv
  BY InvInit
<1>2. Inv /\ [Next]_vars => Inv'
  BY TypeStep, PartsStep, MutedStep
<1>3. QED
  BY <1>1, <1>2, PTL DEF Spec

\* A completed Stop leaves nothing delivering and the file shut, whatever is called later.
THEOREM StaysStoppedCorrect ==
    ASSUME ~StartsPausedSession
    PROVE  Spec => []StaysStopped
<1>1. SessionTypeOK /\ Parts /\ Muted => StaysStopped
  BY DEF SessionTypeOK, Parts, Delivering, Cleaned, StaysStopped, Live, Streams, video, audio
<1>2. QED
  BY <1>1, Invariance, PTL

\* A failed Start leaves no source running.
THEOREM FailedStartLeavesNothingRunningCorrect ==
    ASSUME ~StartsPausedSession
    PROVE  Spec => []FailedStartLeavesNothingRunning
<1>1. SessionTypeOK /\ Parts /\ Muted => FailedStartLeavesNothingRunning
  BY DEF Parts, Resting, InStop, FailedStartLeavesNothingRunning
<1>2. QED
  BY <1>1, Invariance, PTL

\* Wanted audio is disabled only because the encoder refused a sample.
THEOREM MuteHasCauseCorrect ==
    ASSUME ~StartsPausedSession
    PROVE  Spec => []MuteHasCause
<1>1. SessionTypeOK /\ Parts /\ Muted => MuteHasCause
  BY DEF Muted
<1>2. QED
  BY <1>1, Invariance, PTL

-----------------------------------------------------------------------------
\* A step of the contract, or none.
ContractStep == Contract!Next \/ UNCHANGED Contract!contractVars

\* Each step of the session is a step of the contract, or leaves what it speaks of.
LEMMA RefinementStep ==
    ASSUME ~StartsPausedSession, SessionTypeOK, Parts, [Next]_vars
    PROVE  ContractStep
<1> USE DEF SessionTypeOK, Sinks, Streams, SourceStates, NoSink, lifecycle, history, InStart,
        InStop, video, audio, Live, Parts, Delivering, Ready, Starting, Stopping, Resting,
        Cleaned, ContractStep, Contract!Next, Contract!contractVars
<1>0. sink'.open \in BOOLEAN
  BY TypeStep
<1>1. ASSUME InitializeVideoFails PROVE ContractStep
  BY <1>1
     DEF InitializeVideoFails, InitializeFails, TryTransitionTo, IsValidTransition,
         VideoInitialized
<1>2. ASSUME InitializeSinkFails PROVE ContractStep
  <2>1. \A s \in Streams : source[s] = "new" /\ source'[s] \in {"ready", "none"}
    BY <1>2 DEF InitializeSinkFails, InitializeFails, TryTransitionTo, IsValidTransition,
                SourcesInitialized, VideoInitialized, Contract!Prepare
  <2>2. UNCHANGED at
    BY <1>2 DEF InitializeSinkFails, InitializeFails, TryTransitionTo, IsValidTransition,
                SourcesInitialized, VideoInitialized, Contract!Prepare
  <2>3. QED
    BY <1>0, <2>1, <2>2 DEF Contract!Prepare
<1>3. ASSUME Initialize PROVE ContractStep
  <2>1. \A s \in Streams : source[s] = "new" /\ source'[s] \in {"ready", "none"}
    BY <1>3 DEF Initialize, TryTransitionTo, IsValidTransition, SourcesInitialized,
                VideoInitialized, InitializeSinkWriter, InitializeAudioStream, OpenSink,
                Contract!Prepare
  <2>2. UNCHANGED at
    BY <1>3 DEF Initialize, TryTransitionTo, IsValidTransition, SourcesInitialized,
                VideoInitialized, InitializeSinkWriter, InitializeAudioStream, OpenSink,
                Contract!Prepare
  <2>3. QED
    BY <1>0, <2>1, <2>2 DEF Contract!Prepare
<1>4. ASSUME StartClock PROVE ContractStep
  BY <1>4 DEF StartClock, Goto, IsValidTransition
<1>5. ASSUME Stop PROVE ContractStep
  BY <1>5 DEF Stop, Goto, stopUnchanged
<1>6. ASSUME Pause PROVE ContractStep
  BY <1>6 DEF Pause, TryTransitionTo, IsValidTransition, callUnchanged
<1>7. ASSUME Resume PROVE ContractStep
  BY <1>7 DEF Resume, TryTransitionTo, IsValidTransition, callUnchanged
<1>8. ASSUME SetAudioInputSource PROVE ContractStep
  BY <1>8 DEF SetAudioInputSource, Goto, callUnchanged
<1>9. ASSUME NEW e \in BOOLEAN, ToggleAudioCapture(e) PROVE ContractStep
  BY <1>9 DEF ToggleAudioCapture, callUnchanged
<1>10. ASSUME NEW s \in Streams, SetCallback(s) PROVE ContractStep
  BY <1>10 DEF SetCallback, Goto, callUnchanged
<1>11. ASSUME StartAudio PROVE ContractStep
  BY <1>11 DEF StartAudio, Goto, startUnchanged, StopAsked, Contract!GoLive
<1>12. ASSUME DropAudio PROVE ContractStep
  <2>1. CASE cleanupCompleted
    BY <1>12, <1>0, <2>1
       DEF DropAudio, Goto, startUnchanged, Contract!Prepare, Contract!Shut
  <2>2. CASE ~cleanupCompleted
    BY <1>12, <1>0, <2>2
       DEF DropAudio, Goto, startUnchanged, Contract!Prepare, Contract!Shut
  <2>3. QED
    BY <2>1, <2>2
<1>13. ASSUME RebuildSink PROVE ContractStep
  <2>1. CASE cleanupCompleted
    BY <1>13, <1>0, <2>1
       DEF RebuildSink, Goto, startUnchanged, TryTransitionTo, IsValidTransition,
           InitializeSinkWriter, OpenSink, Contract!Prepare, Contract!Shut
  <2>2. CASE ~cleanupCompleted
    BY <1>13, <1>0, <2>2
       DEF RebuildSink, Goto, startUnchanged, TryTransitionTo, IsValidTransition,
           InitializeSinkWriter, OpenSink, Contract!Prepare, Contract!Shut
  <2>3. QED
    BY <2>1, <2>2
<1>14. ASSUME BeginWriting PROVE ContractStep
  BY <1>14 DEF BeginWriting, Goto, startUnchanged, AbortStart, StopAsked
<1>15. ASSUME StartVideo PROVE ContractStep
  BY <1>15
     DEF StartVideo, Goto, startUnchanged, AbortStart, StopAsked, Contract!GoLive
<1>16. ASSUME AbortStartDone PROVE ContractStep
  BY <1>16
     DEF AbortStartDone, Goto, startUnchanged, TryTransitionTo, IsValidTransition, StopEnded,
         Contract!GoOver
<1>17. ASSUME Activate PROVE ContractStep
  BY <1>17 DEF Activate, Goto, startUnchanged, TryTransitionTo, IsValidTransition
<1>18. ASSUME StopUnregister PROVE ContractStep
  BY <1>18 DEF StopUnregister, Goto, stopUnchanged, StopAsked
<1>19. ASSUME StopVideo PROVE ContractStep
  BY <1>19 DEF StopVideo, Goto, stopUnchanged, StopAsked, StopEnded, Contract!GoOver
<1>20. ASSUME StopAudio PROVE ContractStep
  BY <1>20 DEF StopAudio, Goto, stopUnchanged, StopEnded, Contract!GoOver
<1>21. ASSUME StopClear PROVE ContractStep
  BY <1>21 DEF StopClear, Goto, stopUnchanged
<1>22. ASSUME Finalize PROVE ContractStep
  BY <1>22 DEF Finalize, Goto, stopUnchanged, Contract!Shut
<1>23. ASSUME StopDone PROVE ContractStep
  BY <1>23 DEF StopDone, Goto, stopUnchanged, TryTransitionTo, IsValidTransition
<1>24. ASSUME RestoreEnabled \/ SwitchFails PROVE ContractStep
  BY <1>24 DEF RestoreEnabled, SwitchFails, Goto, callUnchanged
<1>25. ASSUME NEW s \in Streams, RegisterCallback(s) PROVE ContractStep
  BY <1>25 DEF RegisterCallback, Goto, callUnchanged
<1>26. ASSUME NEW s \in Streams, SampleAdmitted(s) \/ SampleArrives(s) PROVE ContractStep
  BY <1>26 DEF SampleAdmitted, SampleArrives, Move, streamUnchanged, Contract!Deliver
<1>27. ASSUME WriteFrame PROVE ContractStep
  BY <1>27 DEF WriteFrame, Move, streamUnchanged, Contract!Delivered
<1>28. ASSUME WriteAudioSample PROVE ContractStep
  BY <1>28 DEF WriteAudioSample, Move, streamUnchanged
<1>29. ASSUME NEW s \in Streams, Forward(s) PROVE ContractStep
  BY <1>29 DEF Forward, Move, streamUnchanged, Contract!Delivered
<1>30. ASSUME NEW s \in Streams, InvokeCopy(s) PROVE ContractStep
  BY <1>30 DEF InvokeCopy, Move, streamUnchanged, Contract!Delivered
<1>31. ASSUME NEW s \in Streams, InvokeCall(s) PROVE ContractStep
  BY <1>31 DEF InvokeCall, Move, streamUnchanged
<1>32. ASSUME NEW s \in Streams, InvokeReturn(s) PROVE ContractStep
  BY <1>32 DEF InvokeReturn, Move, streamUnchanged
<1>33. ASSUME NEW s \in Streams, InvokeDone(s) PROVE ContractStep
  BY <1>33 DEF InvokeDone, Move, streamUnchanged, Contract!Delivered
<1>34. ASSUME UNCHANGED vars PROVE ContractStep
  BY <1>34 DEF vars
<1>35. QED
  BY <1>1, <1>2, <1>3, <1>4, <1>5, <1>6, <1>7, <1>8, <1>9, <1>10, <1>11, <1>12, <1>13,
     <1>14, <1>15, <1>16, <1>17, <1>18, <1>19, <1>20, <1>21, <1>22, <1>23, <1>24, <1>25,
     <1>26, <1>27, <1>28, <1>29, <1>30, <1>31, <1>32, <1>33, <1>34, NextActions
     DEF CallBegins, ControlStep, StartStep, StopStep, StreamStep

\* The session implements the recording contract.
THEOREM ImplementsContractCorrect ==
    ASSUME ~StartsPausedSession
    PROVE  Spec => ImplementsContract
<1>1. Init => Contract!Init
  BY DEF Init, Contract!Init, Live, Streams, NoSink
<1>2. SessionTypeOK /\ Parts /\ Muted /\ [Next]_vars => [Contract!Next]_(Contract!contractVars)
  BY RefinementStep DEF ContractStep
<1>3. QED
  BY <1>1, <1>2, Invariance, PTL DEF Spec, ImplementsContract, Contract!Spec

-----------------------------------------------------------------------------
(***************************************************************************)
(* The session uses its sources as CaptureSource says, whether or not the  *)
(* client starts a paused session: before Initialize nothing has happened  *)
(* to them, and every later step of theirs waits for what it must.         *)
(***************************************************************************)
Untouched ==
    state = "Created" =>
        /\ control \notin InStart \cup InStop
        /\ \A s \in Streams : source[s] = "new" /\ at[s] = "idle"

\* What a step does to the two sources is a step of each, or nothing.
SourcesStep ==
    /\ VideoSource!Next \/ UNCHANGED VideoSource!sourceVars
    /\ AudioSource!Next \/ UNCHANGED AudioSource!sourceVars

\* A step that leaves the sources and their threads alone.
LEMMA SourcesUnchanged ==
    ASSUME UNCHANGED << source, at >>
    PROVE  SourcesStep
BY DEF SourcesStep, VideoSource!sourceVars, AudioSource!sourceVars, SourcePhase, SourceDelivery

\* Each step is a step of both sources.
LEMMA UsesStep ==
    ASSUME SessionTypeOK, Untouched, [Next]_vars
    PROVE  Untouched' /\ SourcesStep
<1> USE DEF SessionTypeOK, Streams, SourceStates, InStart, InStop, Untouched, Goto, lifecycle,
        history, startUnchanged, stopUnchanged, callUnchanged, streamUnchanged
<1>a. ASSUME VideoSource!Next \/ UNCHANGED VideoSource!sourceVars,
             AudioSource!Next \/ UNCHANGED AudioSource!sourceVars
      PROVE  SourcesStep
  BY <1>a DEF SourcesStep
<1>1. ASSUME InitializeVideoFails PROVE Untouched' /\ SourcesStep
  <2>1. Untouched'
    BY <1>1 DEF InitializeVideoFails, InitializeFails, TryTransitionTo, IsValidTransition
  <2>2. QED
    BY <1>1, <2>1, SourcesUnchanged DEF InitializeVideoFails, InitializeFails, VideoInitialized
<1>2. ASSUME InitializeSinkFails \/ Initialize PROVE Untouched' /\ SourcesStep
  <2>1. Untouched'
    BY <1>2 DEF InitializeSinkFails, Initialize, InitializeFails, TryTransitionTo, IsValidTransition
  <2>2. /\ source["video"] = "new" /\ source["audio"] = "new"
        /\ at["video"] = "idle" /\ at["audio"] = "idle" /\ UNCHANGED at
        /\ source'["video"] = "ready" /\ source'["audio"] \in {"ready", "none"}
    BY <1>2 DEF InitializeSinkFails, Initialize, InitializeFails, SourcesInitialized,
       VideoInitialized
  <2>3. UNCHANGED VideoSource!sourceVars
    BY <2>2 DEF VideoSource!sourceVars, SourcePhase, SourceDelivery
  <2>4. AudioSource!Next \/ UNCHANGED AudioSource!sourceVars
    BY <2>2 DEF AudioSource!sourceVars, SourcePhase, SourceDelivery, AudioSource!Next, AudioSource!Stopped
  <2>5. QED
    BY <2>1, <2>3, <2>4, <1>a
<1>3. ASSUME StartClock \/ Stop \/ Pause \/ Resume \/ SetAudioInputSource \/ RestoreEnabled
             \/ SwitchFails
      PROVE  Untouched' /\ SourcesStep
  BY <1>3, SourcesUnchanged DEF StartClock, Stop, Pause, Resume, SetAudioInputSource,
     RestoreEnabled, SwitchFails, TryTransitionTo, IsValidTransition
<1>4. ASSUME NEW e \in BOOLEAN, ToggleAudioCapture(e) PROVE Untouched' /\ SourcesStep
  BY <1>4, SourcesUnchanged DEF ToggleAudioCapture
<1>5. ASSUME NEW s \in Streams, SetCallback(s) \/ RegisterCallback(s)
      PROVE  Untouched' /\ SourcesStep
  BY <1>5, SourcesUnchanged DEF SetCallback, RegisterCallback
<1>6. ASSUME StartAudio PROVE Untouched' /\ SourcesStep
  <2>1. Untouched'
    BY <1>6 DEF StartAudio
  <2>2. /\ UNCHANGED at /\ source'["video"] = source["video"]
        /\ \/ source["audio"] = "ready" /\ source'["audio"] = "running"
           \/ source["audio"] = "running" /\ source'["audio"] = "stopping"
           \/ source'["audio"] = source["audio"]
    BY <1>6 DEF StartAudio, StopAsked
  <2>3. UNCHANGED VideoSource!sourceVars
    BY <2>2 DEF VideoSource!sourceVars, SourcePhase, SourceDelivery
  <2>4. AudioSource!Next \/ UNCHANGED AudioSource!sourceVars
    BY <2>2 DEF AudioSource!sourceVars, SourcePhase, SourceDelivery, AudioSource!Next, AudioSource!Start,
       AudioSource!AskStop
  <2>5. QED
    BY <2>1, <2>3, <2>4, <1>a
<1>7. ASSUME DropAudio PROVE Untouched' /\ SourcesStep
  <2>1. Untouched'
    BY <1>7 DEF DropAudio
  <2>2. /\ UNCHANGED at /\ at["audio"] = "idle" /\ source'["video"] = source["video"]
        /\ source'["audio"] = "none"
    BY <1>7 DEF DropAudio
  <2>3. UNCHANGED VideoSource!sourceVars
    BY <2>2 DEF VideoSource!sourceVars, SourcePhase, SourceDelivery
  <2>4. AudioSource!Next \/ UNCHANGED AudioSource!sourceVars
    BY <2>2 DEF AudioSource!sourceVars, SourcePhase, SourceDelivery, AudioSource!Next, AudioSource!Stopped
  <2>5. QED
    BY <2>1, <2>3, <2>4, <1>a
<1>8. ASSUME RebuildSink \/ Activate \/ StopClear \/ Finalize \/ StopDone
      PROVE  Untouched' /\ SourcesStep
  BY <1>8, SourcesUnchanged DEF RebuildSink, Activate, StopClear, Finalize, StopDone,
     TryTransitionTo, IsValidTransition
<1>9. ASSUME BeginWriting \/ StartVideo PROVE Untouched' /\ SourcesStep
  <2>1. Untouched'
    BY <1>9 DEF BeginWriting, StartVideo, AbortStart
  <2>2. /\ UNCHANGED at
        /\ \/ source["video"] = "ready" /\ source'["video"] \in {"running", "registered"}
           \/ source'["video"] = source["video"]
        /\ \/ source["audio"] = "running" /\ source'["audio"] = "stopping"
           \/ source'["audio"] = source["audio"]
    BY <1>9 DEF BeginWriting, StartVideo, AbortStart, StopAsked
  <2>3. VideoSource!Next \/ UNCHANGED VideoSource!sourceVars
    BY <2>2 DEF VideoSource!sourceVars, SourcePhase, SourceDelivery, VideoSource!Next, VideoSource!Start
  <2>4. AudioSource!Next \/ UNCHANGED AudioSource!sourceVars
    BY <2>2 DEF AudioSource!sourceVars, SourcePhase, SourceDelivery, AudioSource!Next, AudioSource!AskStop
  <2>5. QED
    BY <2>1, <2>3, <2>4, <1>a
<1>10. ASSUME AbortStartDone PROVE Untouched' /\ SourcesStep
  <2>1. Untouched'
    BY <1>10 DEF AbortStartDone, TryTransitionTo, IsValidTransition
  <2>2. /\ UNCHANGED at /\ source'["video"] = source["video"]
        /\ \/ at["audio"] = "idle" /\ source["audio"] = "stopping" /\ source'["audio"] = "stopped"
           \/ source'["audio"] = source["audio"]
    BY <1>10 DEF AbortStartDone, StopEnded
  <2>3. UNCHANGED VideoSource!sourceVars
    BY <2>2 DEF VideoSource!sourceVars, SourcePhase, SourceDelivery
  <2>4. AudioSource!Next \/ UNCHANGED AudioSource!sourceVars
    BY <2>2 DEF AudioSource!sourceVars, SourcePhase, SourceDelivery, AudioSource!Next, AudioSource!Stopped
  <2>5. QED
    BY <2>1, <2>3, <2>4, <1>a
<1>11. ASSUME StopUnregister \/ StopVideo PROVE Untouched' /\ SourcesStep
  <2>1. Untouched'
    BY <1>11 DEF StopUnregister, StopVideo
  <2>2. /\ UNCHANGED at
        /\ \/ source["video"] = "running" /\ source'["video"] = "stopping"
           \/ source'["video"] = source["video"]
           \/ at["video"] = "idle" /\ source'["video"] \in {"stopped", "none"}
        /\ \/ source["audio"] = "running" /\ source'["audio"] = "stopping"
           \/ source'["audio"] = source["audio"]
    BY <1>11 DEF StopUnregister, StopVideo, StopAsked, StopEnded
  <2>3. VideoSource!Next \/ UNCHANGED VideoSource!sourceVars
    BY <2>2 DEF VideoSource!sourceVars, SourcePhase, SourceDelivery, VideoSource!Next, VideoSource!AskStop,
       VideoSource!Stopped
  <2>4. AudioSource!Next \/ UNCHANGED AudioSource!sourceVars
    BY <2>2 DEF AudioSource!sourceVars, SourcePhase, SourceDelivery, AudioSource!Next, AudioSource!AskStop
  <2>5. QED
    BY <2>1, <2>3, <2>4, <1>a
<1>12. ASSUME StopAudio PROVE Untouched' /\ SourcesStep
  <2>1. Untouched'
    BY <1>12 DEF StopAudio
  <2>2. /\ UNCHANGED at /\ at["audio"] = "idle" /\ source'["video"] = source["video"]
        /\ source'["audio"] \in {"stopped", "none"}
    BY <1>12 DEF StopAudio, StopEnded
  <2>3. UNCHANGED VideoSource!sourceVars
    BY <2>2 DEF VideoSource!sourceVars, SourcePhase, SourceDelivery
  <2>4. AudioSource!Next \/ UNCHANGED AudioSource!sourceVars
    BY <2>2 DEF AudioSource!sourceVars, SourcePhase, SourceDelivery, AudioSource!Next, AudioSource!Stopped
  <2>5. QED
    BY <2>1, <2>3, <2>4, <1>a
<1>13. ASSUME NEW s \in Streams, SampleAdmitted(s) PROVE Untouched' /\ SourcesStep
  <2>1. Untouched'
    BY <1>13 DEF SampleAdmitted, Move
  <2>2. /\ UNCHANGED source /\ source[s] = "running" /\ at[s] = "idle" /\ at'[s] = "admitted"
        /\ \A r \in Streams \ {s} : at'[r] = at[r]
    BY <1>13 DEF SampleAdmitted, Move
  <2>3. VideoSource!Next \/ UNCHANGED VideoSource!sourceVars
    BY <2>2 DEF VideoSource!sourceVars, SourcePhase, SourceDelivery, VideoSource!Next,
       VideoSource!Admit
  <2>4. AudioSource!Next \/ UNCHANGED AudioSource!sourceVars
    BY <2>2 DEF AudioSource!sourceVars, SourcePhase, SourceDelivery, AudioSource!Next,
       AudioSource!Admit
  <2>5. QED
    BY <2>1, <2>3, <2>4, <1>a
<1>14. ASSUME NEW s \in Streams, StreamStep(s) PROVE Untouched' /\ SourcesStep
  <2>1. /\ UNCHANGED << source, state, control >> /\ at[s] # "idle" /\ at'[s] # "admitted"
        /\ \A r \in Streams \ {s} : at'[r] = at[r]
    BY <1>14 DEF StreamStep, SampleArrives, WriteFrame, WriteAudioSample, Forward, InvokeCopy,
       InvokeCall, InvokeReturn, InvokeDone, Move
  <2>2. VideoSource!Next \/ UNCHANGED VideoSource!sourceVars
    BY <2>1 DEF VideoSource!sourceVars, SourcePhase, SourceDelivery, VideoSource!Next,
       VideoSource!Deliver, VideoSource!Delivered
  <2>3. AudioSource!Next \/ UNCHANGED AudioSource!sourceVars
    BY <2>1 DEF AudioSource!sourceVars, SourcePhase, SourceDelivery, AudioSource!Next,
       AudioSource!Deliver, AudioSource!Delivered
  <2>4. QED
    BY <2>1, <2>2, <2>3, <1>a
<1>15. ASSUME UNCHANGED vars PROVE Untouched' /\ SourcesStep
  BY <1>15, SourcesUnchanged DEF vars
<1>16. QED
  BY <1>1, <1>2, <1>3, <1>4, <1>5, <1>6, <1>7, <1>8, <1>9, <1>10, <1>11, <1>12, <1>13,
     <1>14, <1>15, NextActions DEF CallBegins, ControlStep, StartStep, StopStep

\* The session asks of its two sources only what a capture source promises.
THEOREM UsesSourcesCorrect == Spec => UsesSources
<1>1. Init => SessionTypeOK /\ Untouched /\ VideoSource!Init /\ AudioSource!Init
  <2> SUFFICES ASSUME Init PROVE SessionTypeOK /\ Untouched /\ VideoSource!Init /\ AudioSource!Init
    OBVIOUS
  <2>1. SessionTypeOK
    BY InvInit
  <2>2. Untouched
    BY DEF Init, Untouched, InStart, InStop
  <2>3. VideoSource!Init /\ AudioSource!Init
    BY DEF Init, VideoSource!Init, AudioSource!Init, SourcePhase, SourceDelivery, Streams
  <2>4. QED
    BY <2>1, <2>2, <2>3
<1>2. SessionTypeOK /\ Untouched /\ [Next]_vars
      => /\ SessionTypeOK' /\ Untouched'
         /\ [VideoSource!Next]_(VideoSource!sourceVars)
         /\ [AudioSource!Next]_(AudioSource!sourceVars)
  BY TypeStep, UsesStep DEF SourcesStep
<1>3. QED
  BY <1>1, <1>2, PTL DEF Spec, UsesSources, VideoSource!Spec, AudioSource!Spec
-----------------------------------------------------------------------------
\* Each registry behaves, inside the session, as CallbackRegistry says, so what is proved of
\* that module holds of both.
THEOREM RegistriesAsSpecified == Spec => Video!Spec /\ Audio!Spec
<1>1. Init => Video!Init /\ Audio!Init
  BY DEF Init
<1>2. [Next]_vars => [Video!Next]_(Video!registryVars)
  <2>1. VideoStep => Video!Next \/ UNCHANGED videoRegistry
    BY DEF VideoStep, Video!Next
  <2>2. QED
    BY <2>1, RegistriesStep DEF videoRegistry, Video!registryVars
<1>3. [Next]_vars => [Audio!Next]_(Audio!registryVars)
  <2>1. AudioStep => Audio!Next \/ UNCHANGED audioRegistry
    BY DEF AudioStep, Audio!Next
  <2>2. QED
    BY <2>1, RegistriesStep DEF audioRegistry, Audio!registryVars
<1>4. QED
  BY <1>1, <1>2, <1>3, PTL DEF Spec, Video!Spec, Audio!Spec

VideoProofs == INSTANCE CallbackRegistryProofs WITH
    Owners <- {"client"}, Invokers <- {"video"},
    callbacks <- videoCallbacks, nextId <- videoNextId, handle <- videoHandle,
    replaced <- videoReplaced, todo <- videoTodo, calling <- videoCalling

AudioProofs == INSTANCE CallbackRegistryProofs WITH
    Owners <- {"client"}, Invokers <- {"audio"},
    callbacks <- audioCallbacks, nextId <- audioNextId, handle <- audioHandle,
    replaced <- audioReplaced, todo <- audioTodo, calling <- audioCalling

\* Inside the session, whatever it does with its registries, a registered callback has a
\* handle, or a token about to be destroyed, that will unregister it.
THEOREM SessionRegistriesCorrect ==
    Spec => [](Video!NoLeakedCallback /\ Audio!NoLeakedCallback)
<1>1. Video!Spec => []Video!NoLeakedCallback
  <2>1. VideoProofs!Spec => [](VideoProofs!RegistryInv /\ VideoProofs!NoLeakedCallback)
    BY VideoProofs!NoLeakedCallbackCorrect, SessionAssumption
  <2>2. Video!NoLeakedCallback <=> VideoProofs!NoLeakedCallback
    BY DEF Video!NoLeakedCallback, VideoProofs!NoLeakedCallback
  <2>3. Video!Init <=> VideoProofs!Init
    BY DEF Video!Init, VideoProofs!Init
  <2>4. [Video!Next]_(Video!registryVars) => [VideoProofs!Next]_(VideoProofs!registryVars)
    BY DEF Video!Next, Video!registryVars, VideoProofs!Next, VideoProofs!registryVars,
           Video!Register, VideoProofs!Register, Video!DestroyReplaced, VideoProofs!DestroyReplaced,
           Video!Unregister, VideoProofs!Unregister, Video!Clear, VideoProofs!Clear,
           Video!InvokeCopy, VideoProofs!InvokeCopy, Video!InvokeCall, VideoProofs!InvokeCall,
           Video!InvokeReturn, VideoProofs!InvokeReturn,
           Video!Ids, VideoProofs!Ids, Video!NotInvoking, VideoProofs!NotInvoking
  <2>5. QED
    BY <2>1, <2>2, <2>3, <2>4, PTL DEF Video!Spec, VideoProofs!Spec
<1>2. Audio!Spec => []Audio!NoLeakedCallback
  <2>1. AudioProofs!Spec => [](AudioProofs!RegistryInv /\ AudioProofs!NoLeakedCallback)
    BY AudioProofs!NoLeakedCallbackCorrect, SessionAssumption
  <2>2. Audio!NoLeakedCallback <=> AudioProofs!NoLeakedCallback
    BY DEF Audio!NoLeakedCallback, AudioProofs!NoLeakedCallback
  <2>3. Audio!Init <=> AudioProofs!Init
    BY DEF Audio!Init, AudioProofs!Init
  <2>4. [Audio!Next]_(Audio!registryVars) => [AudioProofs!Next]_(AudioProofs!registryVars)
    BY DEF Audio!Next, Audio!registryVars, AudioProofs!Next, AudioProofs!registryVars,
           Audio!Register, AudioProofs!Register, Audio!DestroyReplaced, AudioProofs!DestroyReplaced,
           Audio!Unregister, AudioProofs!Unregister, Audio!Clear, AudioProofs!Clear,
           Audio!InvokeCopy, AudioProofs!InvokeCopy, Audio!InvokeCall, AudioProofs!InvokeCall,
           Audio!InvokeReturn, AudioProofs!InvokeReturn,
           Audio!Ids, AudioProofs!Ids, Audio!NotInvoking, AudioProofs!NotInvoking
  <2>5. QED
    BY <2>1, <2>2, <2>3, <2>4, PTL DEF Audio!Spec, AudioProofs!Spec
<1>3. QED
  BY <1>1, <1>2, RegistriesAsSpecified, PTL
===============================================================================
