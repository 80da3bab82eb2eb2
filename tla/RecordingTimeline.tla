-------------------------- MODULE RecordingTimeline --------------------------
(***************************************************************************)
(* The time line of one recording: SimpleMediaClock, advanced by the audio *)
(* thread (RunCaptureLoop), paused and reset by the session, and read for  *)
(* the time stamps of audio samples and video frames.                      *)
(*                                                                         *)
(* now is the performance counter; between two ticks of it the three       *)
(* threads take any number of steps.  The audio device hands over what it  *)
(* recorded in its order, in packets, and as late as it likes: a packet    *)
(* may have been recorded before an earlier read that returned nothing, or *)
(* before or during a pause, and some of it may be missing (loopback       *)
(* capture records nothing while nothing plays).                           *)
(***************************************************************************)
EXTENDS Integers

CONSTANTS Frequency,      \* performance counter ticks in a second
          TicksPerSecond, \* media ticks in a second
          SampleRate,     \* audio frames in a second
          SilenceTicks,   \* 10 milliseconds
          MaxTime,        \* bound: the counter's last value
          MaxPauses       \* bound: pauses

ASSUME TimelineAssumption ==
    /\ Frequency \in Nat \ {0} /\ TicksPerSecond \in Nat \ {0} /\ SampleRate \in Nat \ {0}
    /\ SilenceTicks \in Nat \ {0} /\ MaxTime \in Nat \ {0} /\ MaxPauses \in Nat

VARIABLES
    now,
    currentTime, startQpc, isRunning, isPaused, pauseStartQpc, accumulatedPausedQpc,
    session,      \* what the session's control thread did last
    loop,         \* where the audio thread is
    capturing,    \* the audio thread's m_isRunning
    faulted,      \* the audio thread runs its fallback
    frames,       \* audio frames in hand
    silence,      \* they fill a silence
    stamp,        \* their time stamp
    deviceEnd,    \* the device has handed over what it recorded up to here
    lastAdvance,  \* lastAdvanceQpc
    frameAt,      \* where the frame thread is, in GetFrameTimestamp
    frameQpc,     \* the counter, as it read it
    frameStamp,   \* last stamp of a video frame
    fromAudio,    \* it is the audio clock's time
    recordedBy,   \* history: counter ticks of the recording up to each, pauses left out
    filledTo,     \* history: the clock was advanced for a silence that ended here
    inHand,       \* history: ticks of the frames in hand that the recording did not gain
    surplus,      \* history: those of all the frames that the clock was advanced by
    audioEnd,     \* history: end of the last audio sample written
    overlaps,     \* history: samples written that began before that end
    pauses        \* history: calls of Pause

clock   == << currentTime, startQpc, isRunning, isPaused, pauseStartQpc, accumulatedPausedQpc >>
audio   == << loop, capturing, faulted, frames, silence, stamp, deviceEnd, lastAdvance >>
video   == << frameAt, frameQpc, frameStamp, fromAudio >>
counted == << recordedBy, filledTo, inHand, surplus >>
written == << audioEnd, overlaps >>
vars    == << now, clock, session, audio, video, counted, written, pauses >>

Init ==
    /\ now = 1
    /\ currentTime = 0 /\ startQpc = 0 /\ isRunning = FALSE /\ isPaused = FALSE
    /\ pauseStartQpc = 0 /\ accumulatedPausedQpc = 0
    /\ session = "created"
    /\ loop = "off" /\ capturing = FALSE /\ faulted = FALSE
    /\ frames = 0 /\ silence = FALSE /\ stamp = 0
    /\ deviceEnd = 0 /\ lastAdvance = 0
    /\ frameAt = "idle" /\ frameQpc = 0 /\ frameStamp = 0 /\ fromAudio = FALSE
    /\ recordedBy = [t \in 0..MaxTime |-> 0]
    /\ filledTo = 0 /\ inHand = 0 /\ surplus = 0
    /\ audioEnd = 0 /\ overlaps = 0 /\ pauses = 0

QpcToTicks(q)           == (q * TicksPerSecond) \div Frequency
TicksFromAudioFrames(n) == (n * TicksPerSecond) \div SampleRate
FramesIn(q)             == (q * SampleRate) \div Frequency

\* SimpleMediaClock::GetRelativeTime.
GetRelativeTime(qpc) ==
    LET effective == IF isPaused /\ pauseStartQpc # 0 /\ qpc > pauseStartQpc
                     THEN pauseStartQpc ELSE qpc
        delta     == effective - startQpc - accumulatedPausedQpc
    IN  IF startQpc = 0 \/ delta <= 0 THEN 0 ELSE QpcToTicks(delta)

recorded == recordedBy[now]

\* What the recording gained between two readings of the counter.
Gained(from, to) == recordedBy[to] - recordedBy[from]

\* The recording goes on from Start, or the reading of the counter that a Resume takes,
\* to the one that the next Pause takes.
Tick ==
    /\ now < MaxTime
    /\ now' = now + 1
    /\ recordedBy' = [recordedBy EXCEPT ![now + 1] =
                         IF isRunning /\ pauseStartQpc = 0 THEN recorded + 1 ELSE recorded]
    /\ UNCHANGED << clock, session, audio, video, filledTo, inHand, surplus, written, pauses >>
-----------------------------------------------------------------------------
(* The session's control thread.                                            *)

\* SimpleMediaClock::Start, the first thing that a session's Start does.
ClockStart ==
    /\ session = "created"
    /\ startQpc' = now /\ currentTime' = 0 /\ isRunning' = TRUE /\ isPaused' = FALSE
    /\ pauseStartQpc' = 0 /\ accumulatedPausedQpc' = 0
    /\ session' = "starting"
    /\ UNCHANGED << now, audio, video, counted, written, pauses >>

\* The device is started, for the session's Start, and the audio thread told to run; a
\* session without audio never gets there.
LoopStart ==
    /\ session = "starting" /\ loop = "off"
    /\ loop' = "entering" /\ capturing' = TRUE
    /\ deviceEnd' = now
    /\ UNCHANGED << now, clock, session, faulted, frames, silence, stamp, lastAdvance, video,
                    counted, written, pauses >>

SetActive ==
    /\ session = "starting"
    /\ session' = "active"
    /\ UNCHANGED << now, clock, audio, video, counted, written, pauses >>

\* SimpleMediaClock::Pause reads the counter, and then raises a flag that is read without
\* the clock's lock.
ClockPauses ==
    /\ isRunning
    /\ pauseStartQpc' = now
    /\ UNCHANGED << currentTime, startQpc, isRunning, isPaused, accumulatedPausedQpc >>

ClockIsPaused ==
    /\ isPaused' = TRUE
    /\ UNCHANGED << now, currentTime, startQpc, isRunning, pauseStartQpc, accumulatedPausedQpc,
                    audio, video, counted, written, pauses >>

\* Pause stops the clock; the state that lets samples be written follows it.
Pause ==
    /\ session = "active" /\ pauses < MaxPauses
    /\ ClockPauses
    /\ session' = "pausing" /\ pauses' = pauses + 1
    /\ UNCHANGED << now, audio, video, counted, written >>

PauseEnds ==
    /\ session = "pausing"
    /\ ClockIsPaused
    /\ session' = "held"

SetPaused ==
    /\ session = "held"
    /\ session' = "paused"
    /\ UNCHANGED << now, clock, audio, video, counted, written, pauses >>

\* Mutant: the pause is not taken out of relative time.
ResumeKeepsPause ==
    /\ session = "paused" /\ isRunning /\ isPaused
    /\ pauseStartQpc' = 0
    /\ session' = "resuming"
    /\ UNCHANGED << now, currentTime, startQpc, isRunning, isPaused, accumulatedPausedQpc,
                    audio, video, counted, written, pauses >>

\* SimpleMediaClock::Resume: the counter is read before the flag is lowered.
Resume ==
    /\ session = "paused" /\ isRunning /\ isPaused
    /\ accumulatedPausedQpc' = IF pauseStartQpc # 0 /\ now > pauseStartQpc
                               THEN accumulatedPausedQpc + now - pauseStartQpc
                               ELSE accumulatedPausedQpc
    /\ pauseStartQpc' = 0
    /\ session' = "resuming"
    /\ UNCHANGED << now, currentTime, startQpc, isRunning, isPaused, audio, video, counted,
                    written, pauses >>

ResumeEnds ==
    /\ session = "resuming"
    /\ isPaused' = FALSE
    /\ session' = "released"
    /\ UNCHANGED << now, currentTime, startQpc, isRunning, pauseStartQpc, accumulatedPausedQpc,
                    audio, video, counted, written, pauses >>

SetResumed ==
    /\ session = "released"
    /\ session' = "active"
    /\ UNCHANGED << now, clock, audio, video, counted, written, pauses >>

\* The clock's lock, which GetRelativeTime takes and the other reads do not.
ClockLocked == session \in {"pausing", "resuming", "ending"}

\* Stop, also of a session that failed to start: it shuts down, the frame source stops,
\* and the audio thread is told to.
Stop ==
    /\ session \in {"starting", "active", "paused"}
    /\ frameAt = "idle"
    /\ session' = "stopping" /\ capturing' = FALSE
    /\ UNCHANGED << now, clock, loop, faulted, frames, silence, stamp, deviceEnd, lastAdvance,
                    video, counted, written, pauses >>

\* The audio thread is joined, and the clock paused for the last time.
AudioStopped ==
    /\ session = "stopping" /\ loop = "off"
    /\ ClockPauses
    /\ session' = "ending"
    /\ UNCHANGED << now, audio, video, counted, written, pauses >>

LastPauseEnds ==
    /\ session = "ending"
    /\ ClockIsPaused
    /\ session' = "draining"

\* SimpleMediaClock::Reset, after the file was finalized.
ClockReset ==
    /\ session = "draining"
    /\ currentTime' = 0 /\ startQpc' = 0 /\ isRunning' = FALSE /\ isPaused' = FALSE
    /\ pauseStartQpc' = 0 /\ accumulatedPausedQpc' = 0
    /\ session' = "stopped"
    /\ UNCHANGED << now, audio, video, counted, written, pauses >>
-----------------------------------------------------------------------------
(* The audio thread.                                                        *)

\* It takes the time from which a silence is measured, whatever the session does by then.
LoopEnters ==
    /\ loop = "entering"
    /\ loop' = "read" /\ lastAdvance' = now
    /\ UNCHANGED << now, clock, session, capturing, faulted, frames, silence, stamp, deviceEnd,
                    video, counted, written, pauses >>

\* While the clock is paused a packet is thrown away, if there is one, and the time noted.
ReadPaused ==
    /\ loop = "read" /\ capturing /\ isPaused
    /\ deviceEnd' \in deviceEnd..now
    /\ silence' = FALSE
    /\ loop' = "advanced"
    /\ UNCHANGED << now, clock, session, capturing, faulted, frames, stamp, lastAdvance, video,
                    counted, written, pauses >>

\* A packet, recorded between two times since the end of the one before it.  The recording
\* does not gain what it holds of a pause, or of a time that a silence was filled in for.
ReadSamples ==
    /\ loop = "read" /\ capturing /\ ~isPaused
    /\ \E from \in deviceEnd..now, to \in deviceEnd..now :
          /\ from <= to
          /\ frames' \in 1..FramesIn(to - from)
          /\ deviceEnd' = to
          /\ inHand' = (to - from) - IF to <= filledTo THEN 0
                                     ELSE IF from <= filledTo THEN Gained(filledTo, to)
                                     ELSE Gained(from, to)
    /\ silence' = FALSE
    /\ loop' = "stamp"
    /\ UNCHANGED << now, clock, session, capturing, faulted, stamp, lastAdvance, video,
                    recordedBy, filledTo, surplus, written, pauses >>

\* Nothing to read, and the clock not paused: how long the silence is, is yet to be seen.
ReadNothing ==
    /\ loop = "read" /\ capturing /\ ~isPaused
    /\ loop' = "silent"
    /\ UNCHANGED << now, clock, session, capturing, faulted, frames, silence, stamp, deviceEnd,
                    lastAdvance, video, counted, written, pauses >>

\* Mutant: silence is measured from the start of the recording.
SilentFramesSinceStart == (QpcToTicks(now - startQpc) * SampleRate) \div TicksPerSecond

\* Frames that stand for the time since the clock was advanced, when it is 10 milliseconds.
SilentFrames ==
    LET ticks == QpcToTicks(now - lastAdvance)
    IN  IF ticks >= SilenceTicks THEN (ticks * SampleRate) \div TicksPerSecond ELSE 0

FillSilence ==
    /\ loop = "silent"
    /\ IF SilentFrames > 0
       THEN /\ frames' = SilentFrames /\ silence' = TRUE
            /\ inHand' = (now - lastAdvance) - Gained(lastAdvance, now)
            /\ lastAdvance' = now
            /\ loop' = "stamp"
       ELSE loop' = "read" /\ UNCHANGED << frames, silence, inHand, lastAdvance >>
    /\ UNCHANGED << now, clock, session, capturing, faulted, stamp, deviceEnd, video,
                    recordedBy, filledTo, surplus, written, pauses >>

\* Samples are stamped before they are written and the clock is advanced after.  The
\* samples after a mute are skipped: they advance the clock and are not written.
Stamp ==
    /\ loop = "stamp"
    /\ IF capturing
       THEN /\ stamp' = IF isRunning THEN currentTime
                        ELSE stamp + TicksFromAudioFrames(frames)
            /\ loop' \in {"write"} \cup (IF silence THEN {} ELSE {"advance"})
       ELSE loop' = "advance" /\ UNCHANGED stamp
    /\ UNCHANGED << now, clock, session, capturing, faulted, frames, silence, deviceEnd,
                    lastAdvance, video, counted, written, pauses >>

\* The session's callback writes while its state is active, and is then silent.
Write ==
    /\ loop = "write"
    /\ IF session \in {"active", "pausing", "held"}
       THEN /\ audioEnd' = stamp + TicksFromAudioFrames(frames)
            /\ overlaps' = IF stamp < audioEnd THEN overlaps + 1 ELSE overlaps
       ELSE UNCHANGED written
    /\ loop' = "advance"
    /\ UNCHANGED << now, clock, session, capturing, faulted, frames, silence, stamp, deviceEnd,
                    lastAdvance, video, counted, pauses >>

\* Mutant: a silence is written and does not advance the clock.
AdvanceTestsSamples ==
    /\ loop = "advance"
    /\ loop' = IF isRunning /\ ~isPaused /\ ~silence THEN "add" ELSE "advanced"
    /\ UNCHANGED << now, clock, session, capturing, faulted, frames, silence, stamp, deviceEnd,
                    lastAdvance, video, counted, written, pauses >>

\* AdvanceByAudioSamples returns, or is about to add: the test and the addition are two
\* steps, outside the clock's lock.
AdvanceTests ==
    /\ loop = "advance"
    /\ loop' = IF isRunning /\ ~isPaused THEN "add" ELSE "advanced"
    /\ UNCHANGED << now, clock, session, capturing, faulted, frames, silence, stamp, deviceEnd,
                    lastAdvance, video, counted, written, pauses >>

AdvanceAdds ==
    /\ loop = "add"
    /\ currentTime' = currentTime + TicksFromAudioFrames(frames)
    /\ surplus' = surplus + inHand
    /\ filledTo' = IF silence THEN lastAdvance ELSE filledTo
    /\ loop' = "advanced"
    /\ UNCHANGED << now, startQpc, isRunning, isPaused, pauseStartQpc, accumulatedPausedQpc,
                    session, capturing, faulted, frames, silence, stamp, deviceEnd, lastAdvance,
                    video, recordedBy, inHand, written, pauses >>

\* The time of the advance is noted: for a silence it is the time up to which it was filled.
Advanced ==
    /\ loop = "advanced"
    /\ lastAdvance' = IF silence THEN lastAdvance ELSE now
    /\ frames' = 0 /\ inHand' = 0 /\ silence' = FALSE
    /\ loop' = IF faulted THEN "fallback" ELSE "read"
    /\ UNCHANGED << now, clock, session, capturing, faulted, stamp, deviceEnd, video,
                    recordedBy, filledTo, surplus, written, pauses >>

\* A fault of the device or of a callback: from then on the thread only keeps the clock
\* going, 10 milliseconds at a time.
LoopThrows ==
    /\ loop = "write" \/ (loop = "read" /\ capturing)
    /\ loop' = "fallback" /\ faulted' = TRUE
    /\ frames' = 0 /\ inHand' = 0 /\ silence' = FALSE
    /\ lastAdvance' = now
    /\ UNCHANGED << now, clock, session, capturing, stamp, deviceEnd, video, recordedBy,
                    filledTo, surplus, written, pauses >>

FallbackFrames == (SilenceTicks * SampleRate) \div TicksPerSecond

\* After 10 milliseconds of sleep; nothing is stamped or written.
FallbackAdvance ==
    /\ loop = "fallback" /\ capturing
    /\ QpcToTicks(now - lastAdvance) >= SilenceTicks
    /\ frames' = FallbackFrames /\ silence' = TRUE
    /\ inHand' = (now - lastAdvance) - Gained(lastAdvance, now)
    /\ lastAdvance' = now
    /\ loop' = "advance"
    /\ UNCHANGED << now, clock, session, capturing, faulted, stamp, deviceEnd, video,
                    recordedBy, filledTo, surplus, written, pauses >>

LoopEnds ==
    /\ loop \in {"read", "fallback"} /\ ~capturing
    /\ loop' = "off"
    /\ UNCHANGED << now, clock, session, capturing, faulted, frames, silence, stamp, deviceEnd,
                    lastAdvance, video, counted, written, pauses >>
-----------------------------------------------------------------------------
(* The frame thread, in FrameArrivedHandler::GetFrameTimestamp.             *)

FramesArrive ==
    session \in {"starting", "active", "pausing", "held", "paused", "resuming", "released"}

\* Mutant: the audio clock is not read while it is paused.
FrameReadsUnpaused ==
    /\ frameAt = "idle" /\ FramesArrive
    /\ IF currentTime > 0 /\ ~isPaused
       THEN frameStamp' = currentTime /\ fromAudio' = TRUE /\ UNCHANGED frameAt
       ELSE frameAt' = "counter" /\ UNCHANGED << frameStamp, fromAudio >>
    /\ UNCHANGED << now, clock, session, audio, frameQpc, counted, written, pauses >>

\* A frame is stamped with the audio clock's time, once there is one.
FrameReads ==
    /\ frameAt = "idle" /\ FramesArrive
    /\ IF currentTime > 0
       THEN frameStamp' = currentTime /\ fromAudio' = TRUE /\ UNCHANGED frameAt
       ELSE frameAt' = "counter" /\ UNCHANGED << frameStamp, fromAudio >>
    /\ UNCHANGED << now, clock, session, audio, frameQpc, counted, written, pauses >>

\* Until then it reads the counter, and then waits for the clock's lock.
FrameReadsCounter ==
    /\ frameAt = "counter"
    /\ frameQpc' = now
    /\ frameAt' = "relative"
    /\ UNCHANGED << now, clock, session, audio, frameStamp, fromAudio, counted, written, pauses >>

FrameReadsRelative ==
    /\ frameAt = "relative" /\ ~ClockLocked
    /\ frameStamp' = GetRelativeTime(frameQpc) /\ fromAudio' = FALSE
    /\ frameAt' = "idle" /\ frameQpc' = 0
    /\ UNCHANGED << now, clock, session, audio, counted, written, pauses >>

Control ==
    \/ ClockStart \/ LoopStart \/ SetActive
    \/ Pause \/ PauseEnds \/ SetPaused \/ Resume \/ ResumeEnds \/ SetResumed
    \/ Stop \/ AudioStopped \/ LastPauseEnds \/ ClockReset

AudioThread ==
    \/ LoopEnters \/ ReadPaused \/ ReadSamples \/ ReadNothing \/ FillSilence \/ Stamp \/ Write
    \/ AdvanceTests \/ AdvanceAdds \/ Advanced
    \/ LoopThrows \/ FallbackAdvance \/ LoopEnds

FrameThread == FrameReads \/ FrameReadsCounter \/ FrameReadsRelative

Next == Tick \/ Control \/ AudioThread \/ FrameThread

Spec == Init /\ [][Next]_vars
-----------------------------------------------------------------------------
\* The variables' types.
TypeOK ==
    /\ now \in 1..MaxTime /\ currentTime \in Nat
    /\ startQpc \in 0..now /\ pauseStartQpc \in 0..now /\ accumulatedPausedQpc \in 0..now
    /\ isRunning \in BOOLEAN /\ isPaused \in BOOLEAN /\ capturing \in BOOLEAN
    /\ session \in {"created", "starting", "active", "pausing", "held", "paused", "resuming",
                    "released", "stopping", "ending", "draining", "stopped"}
    /\ loop \in {"off", "entering", "read", "silent", "stamp", "write", "advance", "add",
                 "advanced", "fallback"}
    /\ faulted \in BOOLEAN /\ frames \in Nat /\ silence \in BOOLEAN /\ stamp \in Nat
    /\ deviceEnd \in 0..now /\ lastAdvance \in 0..now
    /\ frameAt \in {"idle", "counter", "relative"} /\ frameQpc \in 0..now
    /\ frameStamp \in Nat /\ fromAudio \in BOOLEAN
    /\ recordedBy \in [0..MaxTime -> Nat] /\ filledTo \in 0..now
    /\ inHand \in Nat /\ surplus \in Nat
    /\ audioEnd \in Nat /\ overlaps \in Nat /\ pauses \in 0..MaxPauses

\* Until the recording is torn down, relative time is the time that was recorded: every
\* pause is left out of it exactly, however often the session paused and resumed.  While
\* Pause or Resume holds the clock's lock, relative time cannot be read.
RelativeTimeIsRecorded ==
    isRunning /\ ~ClockLocked /\ session # "draining" => GetRelativeTime(now) = QpcToTicks(recorded)

\* The audio clock runs ahead of the recording only by the pauses that its thread did not
\* see, and by what the device handed over after a silence was filled in for it (the code
\* counts that twice).  Silence itself, the roundings of the conversions, packets that
\* follow a discarded one, and the fallback after a fault add no time that did not pass.
ClockNeverAhead == currentTime <= QpcToTicks(recorded + surplus)

\* A sample is written over the one before it (the clock refused to advance in between)
\* at most once for each pause, and never otherwise.
OverlapOnlyByPause == overlaps <= pauses

\* Nothing advances a clock that was reset: the audio thread is gone before.
ResetStands == session = "stopped" => currentTime = 0 /\ loop = "off"

\* Video time goes back when the audio clock, which starts later, takes over from the
\* relative time of the first frames, and in a frame that slept through a pause after it
\* had read the counter; never otherwise.
VideoTimeForward ==
    [][frameStamp' < frameStamp => \/ fromAudio' /\ ~fromAudio
                                   \/ ~fromAudio' /\ Gained(frameQpc, now) < now - frameQpc]_vars
=============================================================================
