------------------------ MODULE RecordingTimelineProofs ------------------------
(***************************************************************************)
(* Proofs about the time line of a recording, for any frequency of the     *)
(* counter, any sample rate, and any number of pauses.                     *)
(***************************************************************************)
EXTENDS RecordingTimeline, TLAPS

-----------------------------------------------------------------------------
(* Arithmetic: products and quotients of natural numbers.                   *)

\* Natural numbers are closed under products.
LEMMA ProductIsNat ==
    ASSUME NEW a \in Nat, NEW b \in Nat
    PROVE  a * b \in Nat
OBVIOUS

\* Products are monotone.
LEMMA ProductMonotone ==
    ASSUME NEW a \in Nat, NEW b \in Nat, NEW c \in Nat, a <= b
    PROVE  c * a <= c * b
OBVIOUS

\* Products commute.
LEMMA Swapped ==
    ASSUME NEW a \in Nat, NEW b \in Nat, NEW c \in Nat
    PROVE  a * (b * c) = b * (a * c)
OBVIOUS

\* What the quotient of a division is bounded by.
LEMMA Quotient ==
    ASSUME NEW a \in Nat, NEW b \in Nat \ {0}
    PROVE  /\ a \div b \in Nat
           /\ b * (a \div b) <= a
           /\ a < b * (a \div b) + b
OBVIOUS

\* The quotient is the greatest number whose product fits.
LEMMA QuotientGreatest ==
    ASSUME NEW a \in Nat, NEW b \in Nat \ {0}, NEW c \in Nat, b * c <= a
    PROVE  c <= a \div b
<1> DEFINE q == a \div b
<1>1. q \in Nat /\ a < b * q + b
  BY Quotient
<1> HIDE DEF q
<1>2. b * q \in Nat /\ b * c \in Nat
  BY <1>1, ProductIsNat
<1>3. SUFFICES ASSUME q + 1 <= c PROVE FALSE
  BY <1>1 DEF q
<1>4. b * (q + 1) <= b * c
  BY <1>1, <1>3, ProductMonotone
<1>5. b * (q + 1) = b * q + b
  BY <1>1
<1>6. QED
  BY <1>1, <1>2, <1>4, <1>5

\* The conversions give natural numbers.
LEMMA ConversionTypes ==
    ASSUME NEW n \in Nat
    PROVE  QpcToTicks(n) \in Nat /\ TicksFromAudioFrames(n) \in Nat /\ FramesIn(n) \in Nat
BY TimelineAssumption, Quotient, ProductIsNat DEF QpcToTicks, TicksFromAudioFrames, FramesIn

\* A later reading of the counter is a later media time.
LEMMA TicksMonotone ==
    ASSUME NEW x \in Nat, NEW y \in Nat, x <= y
    PROVE  QpcToTicks(x) <= QpcToTicks(y)
<1> DEFINE T == TicksPerSecond
<1>1. x * T \in Nat /\ y * T \in Nat /\ x * T <= y * T
  <2>1. T \in Nat
    BY TimelineAssumption
  <2>2. T * x <= T * y
    BY <2>1, ProductMonotone
  <2>3. QED
    BY <2>1, <2>2, ProductIsNat
<1>2. QpcToTicks(x) \in Nat /\ Frequency * QpcToTicks(x) <= x * T
  BY <1>1, Quotient, TimelineAssumption DEF QpcToTicks
<1>3. Frequency * QpcToTicks(x) \in Nat
  BY <1>2, ProductIsNat, TimelineAssumption
<1>4. Frequency * QpcToTicks(x) <= y * T
  BY <1>1, <1>2, <1>3
<1> HIDE DEF T
<1>5. QED
  BY <1>1, <1>2, <1>4, QuotientGreatest, TimelineAssumption DEF QpcToTicks, T

\* Durations converted one by one are not longer than converted together.
LEMMA TicksOfSum ==
    ASSUME NEW x \in Nat, NEW y \in Nat
    PROVE  QpcToTicks(x) + QpcToTicks(y) <= QpcToTicks(x + y)
<1> DEFINE a == QpcToTicks(x)
           b == QpcToTicks(y)
<1>1. a \in Nat /\ b \in Nat
  BY ConversionTypes
<1>2. x * TicksPerSecond \in Nat /\ y * TicksPerSecond \in Nat
  BY ProductIsNat, TimelineAssumption
<1>3. Frequency * a <= x * TicksPerSecond /\ Frequency * b <= y * TicksPerSecond
  BY <1>2, Quotient, TimelineAssumption DEF QpcToTicks
<1> HIDE DEF a, b
<1>4. Frequency * a \in Nat /\ Frequency * b \in Nat
  BY <1>1, ProductIsNat, TimelineAssumption
<1>5. Frequency * (a + b) = Frequency * a + Frequency * b
  BY <1>1, TimelineAssumption
<1>6. (x + y) * TicksPerSecond = x * TicksPerSecond + y * TicksPerSecond
  BY TimelineAssumption
<1>7. Frequency * (a + b) <= (x + y) * TicksPerSecond
  BY <1>2, <1>3, <1>4, <1>5, <1>6
<1>8. (x + y) * TicksPerSecond \in Nat
  BY <1>2, <1>6
<1>9. a + b <= QpcToTicks(x + y)
  BY <1>1, <1>7, <1>8, QuotientGreatest, TimelineAssumption DEF QpcToTicks
<1>10. QED
  BY <1>9 DEF a, b

\* Frames that a device recorded in q counter ticks, and fewer, do not last longer.
LEMMA FramesLastNoLonger ==
    ASSUME NEW q \in Nat, NEW n \in Nat, n <= FramesIn(q)
    PROVE  TicksFromAudioFrames(n) <= QpcToTicks(q)
<1> DEFINE F == Frequency
           T == TicksPerSecond
           S == SampleRate
           t == TicksFromAudioFrames(n)
<1>1. F \in Nat \ {0} /\ T \in Nat \ {0} /\ S \in Nat \ {0} /\ t \in Nat
  BY ConversionTypes, TimelineAssumption
<1>2. n * T \in Nat /\ q * S \in Nat /\ q * T \in Nat
  BY <1>1, ProductIsNat
<1>3. S * t <= n * T
  BY <1>1, <1>2, Quotient DEF TicksFromAudioFrames
<1>4. F * n <= q * S
  <2>1. FramesIn(q) \in Nat /\ F * FramesIn(q) <= q * S
    BY <1>1, <1>2, Quotient DEF FramesIn
  <2>2. F * n <= F * FramesIn(q)
    BY <1>1, <2>1, ProductMonotone
  <2>3. F * n \in Nat /\ F * FramesIn(q) \in Nat
    BY <1>1, <2>1, ProductIsNat
  <2>4. QED
    BY <1>2, <2>1, <2>2, <2>3
<1> HIDE DEF F, T, S, t
<1>5. F * (S * t) <= F * (n * T)
  BY <1>1, <1>2, <1>3, ProductIsNat, ProductMonotone
<1>6. T * (F * n) <= T * (q * S)
  BY <1>1, <1>2, <1>4, ProductIsNat, ProductMonotone
<1>7. F * (n * T) = T * (F * n) /\ T * (q * S) = S * (q * T)
  BY <1>1
<1>8. F * (S * t) = S * (F * t)
  BY <1>1, Swapped
<1>9. F * t \in Nat /\ S * (F * t) \in Nat /\ S * (q * T) \in Nat /\ F * (n * T) \in Nat
  BY <1>1, <1>2, ProductIsNat
<1>10. S * (F * t) <= S * (q * T)
  BY <1>5, <1>6, <1>7, <1>8, <1>9
<1>11. F * t <= q * T
  <2> SUFFICES ASSUME q * T + 1 <= F * t PROVE FALSE
    BY <1>2, <1>9
  <2>1. S * (q * T + 1) <= S * (F * t)
    BY <1>1, <1>2, <1>9, ProductMonotone
  <2>2. S * (q * T + 1) = S * (q * T) + S
    BY <1>1, <1>2
  <2>3. QED
    BY <1>1, <1>9, <1>10, <2>1, <2>2
<1>12. QED
  BY <1>1, <1>2, <1>11, QuotientGreatest DEF QpcToTicks, F, T, t

\* Frames made up for a duration do not last longer.
LEMMA SilenceLastsNoLonger ==
    ASSUME NEW d \in Nat
    PROVE  /\ (d * SampleRate) \div TicksPerSecond \in Nat
           /\ TicksFromAudioFrames((d * SampleRate) \div TicksPerSecond) <= d
<1> DEFINE n == (d * SampleRate) \div TicksPerSecond
           t == TicksFromAudioFrames(n)
<1>1. d * SampleRate \in Nat
  BY ProductIsNat, TimelineAssumption
<1>2. n \in Nat /\ TicksPerSecond * n <= d * SampleRate
  BY <1>1, Quotient, TimelineAssumption
<1>3. n * TicksPerSecond \in Nat /\ n * TicksPerSecond = TicksPerSecond * n
  BY <1>2, ProductIsNat, TimelineAssumption
<1>4. t \in Nat /\ SampleRate * t <= n * TicksPerSecond
  BY <1>2, <1>3, Quotient, TimelineAssumption DEF TicksFromAudioFrames
<1> HIDE DEF n, t
<1>5. SampleRate * t \in Nat
  BY <1>4, ProductIsNat, TimelineAssumption
<1>6. SampleRate * t <= SampleRate * d
  BY <1>1, <1>2, <1>3, <1>4, <1>5, TimelineAssumption
<1>7. t <= d
  <2> SUFFICES ASSUME d + 1 <= t PROVE FALSE
    BY <1>4
  <2>1. SampleRate * (d + 1) <= SampleRate * t
    BY <1>4, ProductMonotone, TimelineAssumption
  <2>2. SampleRate * (d + 1) = SampleRate * d + SampleRate
    BY TimelineAssumption
  <2>3. QED
    BY <1>1, <1>5, <1>6, <2>1, <2>2, TimelineAssumption
<1>8. QED
  BY <1>2, <1>7 DEF n, t

-----------------------------------------------------------------------------
(* The invariants.                                                          *)

Live == {"starting", "active", "pausing", "held", "paused", "resuming", "released"}

\* The clock follows the session, and keeps what was recorded.
ClockInv ==
    /\ now >= 1
    /\ isRunning <=> session \notin {"created", "stopped"}
    /\ isPaused => session \in {"held", "paused", "resuming", "stopping", "ending", "draining"}
    /\ session \in {"held", "paused", "resuming", "draining"} => isPaused
    /\ isRunning => startQpc >= 1
    /\ isRunning /\ ~ClockLocked => (pauseStartQpc # 0 <=> isPaused)
    /\ session = "pausing" => pauseStartQpc # 0
    /\ session = "resuming" => pauseStartQpc = 0
    /\ session = "ending" => pauseStartQpc # 0
    /\ isRunning /\ pauseStartQpc = 0 => recorded = now - startQpc - accumulatedPausedQpc
    /\ isRunning /\ pauseStartQpc # 0 /\ session \notin {"ending", "draining"} =>
          recorded = pauseStartQpc - startQpc - accumulatedPausedQpc
    /\ session = "created" => recorded = 0 /\ currentTime = 0

\* A span of time gives the recording no more than itself.
HistoryInv ==
    \A from, to \in 0..now : from <= to => Gained(from, to) \in 0..(to - from)

\* The threads live no longer than the session.
ThreadsInv ==
    /\ loop # "off" => session \in Live \cup {"stopping"}
    /\ frameAt # "idle" => session \in Live
    /\ session = "stopped" => currentTime = 0

ControlInv == TypeOK /\ ClockInv /\ ThreadsInv

\* Video stamps stay behind the clock that they were read from.
VideoInv ==
    /\ fromAudio /\ isRunning => frameStamp <= currentTime /\ currentTime > 0
    /\ ~fromAudio => frameStamp <= QpcToTicks(recorded)
    /\ ~fromAudio /\ frameAt = "relative" => frameStamp <= QpcToTicks(recordedBy[frameQpc])
    /\ frameAt # "idle" \/ session = "created" => ~fromAudio

\* The clock was advanced for nothing after this.
Covered == IF filledTo >= deviceEnd THEN filledTo ELSE deviceEnd

InHand == {"stamp", "write", "advance", "add"}

\* No span of time is advanced by twice, but by what the surplus counts.
AheadInv ==
    /\ currentTime <= QpcToTicks(recorded + surplus)
    /\ loop # "off" => currentTime <= QpcToTicks(recordedBy[Covered] + surplus)
    /\ loop \in {"read", "silent", "fallback"} \/ silence => Covered <= lastAdvance
    /\ loop \in InHand /\ ~silence =>
          currentTime + TicksFromAudioFrames(frames)
              <= QpcToTicks(recordedBy[Covered] + surplus + inHand)
    /\ loop \in InHand /\ silence =>
          currentTime + TicksFromAudioFrames(frames)
              <= QpcToTicks(recordedBy[lastAdvance] + surplus + inHand)
    /\ silence => loop \in InHand \cup {"advanced"}

\* A pause that was called and has not caused an overlap.
Pausing == session = "pausing" \/ (isPaused /\ session \notin {"ending", "draining"})

\* Each overlap that happened, or is bound to, has its pause.
OverlapInv ==
    /\ overlaps <= pauses
    /\ Pausing /\ loop # "off" => overlaps + 1 <= pauses
    /\ loop \notin {"advance", "add"} /\ audioEnd > currentTime /\ session # "stopped" =>
          /\ overlaps + 1 <= pauses
          /\ Pausing /\ (loop \in {"silent", "stamp", "write"} \/ session = "pausing") =>
                overlaps + 2 <= pauses
    /\ loop \in {"advance", "add"} /\ audioEnd > currentTime + TicksFromAudioFrames(frames) =>
          /\ overlaps + 1 <= pauses
          /\ session = "pausing" => overlaps + 2 <= pauses
    /\ loop = "write" => stamp = currentTime

-----------------------------------------------------------------------------
\* The invariant of the clock and its threads holds at first.
LEMMA ControlInvInit == Init => ControlInv /\ HistoryInv
<1> SUFFICES ASSUME Init PROVE ControlInv /\ HistoryInv
  OBVIOUS
<1>1. /\ isRunning \in BOOLEAN /\ isPaused \in BOOLEAN /\ capturing \in BOOLEAN
      /\ faulted \in BOOLEAN /\ silence \in BOOLEAN /\ fromAudio \in BOOLEAN
      /\ ~isRunning /\ ~isPaused
  BY DEF Init
<1>2. /\ recordedBy \in [0..MaxTime -> Nat]
      /\ \A t \in 0..MaxTime : recordedBy[t] = 0
      /\ now = 1 /\ now \in 0..MaxTime
  BY TimelineAssumption DEF Init
<1>3. HistoryInv
  BY <1>2, TimelineAssumption DEF HistoryInv, Gained
<1>4. ControlInv
  BY <1>1, <1>2, TimelineAssumption DEF Init, ControlInv, TypeOK, ClockInv, ThreadsInv, Live,
     recorded, ClockLocked
<1>5. QED
  BY <1>3, <1>4

\* The surplus of a span of time is not negative.
LEMMA GainedBounds ==
    ASSUME ControlInv, HistoryInv, NEW from \in 0..now, NEW to \in 0..now, from <= to
    PROVE  Gained(from, to) \in Nat /\ Gained(from, to) <= to - from
BY TimelineAssumption DEF HistoryInv, ControlInv, TypeOK

\* Relative time of an earlier reading of the counter: the time recorded, when it is read
\* at once; never more; and no less than was recorded by then, unless a pause came between.
LEMMA RelativeTime ==
    ASSUME ControlInv, isRunning, ~ClockLocked, session # "draining", NEW q \in 0..now
    PROVE  /\ GetRelativeTime(q) \in Nat
           /\ GetRelativeTime(q) <= QpcToTicks(recorded)
           /\ q = now => GetRelativeTime(q) = QpcToTicks(recorded)
           /\ Gained(q, now) >= now - q => QpcToTicks(recordedBy[q]) <= GetRelativeTime(q)
<1> DEFINE effective == IF isPaused /\ pauseStartQpc # 0 /\ q > pauseStartQpc
                        THEN pauseStartQpc ELSE q
           delta == effective - startQpc - accumulatedPausedQpc
<1>1. QpcToTicks(0) = 0
  <2>1. 0 * TicksPerSecond = 0
    BY TimelineAssumption
  <2>2. QED
    BY <2>1, TimelineAssumption DEF QpcToTicks
<1>2. recorded \in Nat /\ recordedBy[q] \in Nat /\ recorded = recordedBy[now] /\ startQpc # 0
  BY TimelineAssumption DEF ControlInv, TypeOK, ClockInv, recorded
<1>3. delta \in Int /\ delta <= recorded /\ (q = now => delta = recorded)
  BY DEF ControlInv, TypeOK, ClockInv, ClockLocked
<1>4. Gained(q, now) >= now - q => recordedBy[q] <= delta
  BY <1>2 DEF ControlInv, TypeOK, ClockInv, ClockLocked, Gained
<1>5. GetRelativeTime(q) = IF delta <= 0 THEN 0 ELSE QpcToTicks(delta)
  BY <1>2 DEF GetRelativeTime
<1> HIDE DEF delta
<1>6. CASE delta <= 0
  <2>1. GetRelativeTime(q) = 0 /\ QpcToTicks(recorded) \in Nat
    BY <1>2, <1>5, <1>6, ConversionTypes
  <2>2. q = now => recorded = 0
    BY <1>2, <1>3, <1>6
  <2>3. Gained(q, now) >= now - q => recordedBy[q] = 0
    BY <1>2, <1>3, <1>4, <1>6
  <2>4. QED
    BY <1>1, <2>1, <2>2, <2>3
<1>7. CASE ~(delta <= 0)
  <2>1. delta \in Nat /\ GetRelativeTime(q) = QpcToTicks(delta)
    BY <1>3, <1>5, <1>7
  <2>2. QED
    BY <1>2, <1>3, <1>4, <2>1, ConversionTypes, TicksMonotone
<1>8. QED
  BY <1>6, <1>7

\* Each step keeps the invariant of the clock and its threads.
LEMMA ControlInvStep ==
    ASSUME ControlInv, HistoryInv, [Next]_vars
    PROVE  ControlInv'
<1> USE TimelineAssumption DEF ControlInv, TypeOK, ClockInv, ThreadsInv, Live, recorded,
        ClockLocked, clock, audio, video, counted, written
<1>0. recordedBy[now] \in Nat /\ now \in 0..MaxTime /\ now - lastAdvance \in Nat
  OBVIOUS
<1>a. TicksFromAudioFrames(frames) \in Nat /\ QpcToTicks(now - lastAdvance) \in Nat
  <2>1. frames \in Nat
    OBVIOUS
  <2> HIDE DEF ControlInv
  <2>2. QED
    BY <1>0, <2>1, ConversionTypes
<1>1. ASSUME Tick PROVE ControlInv'
  <2>1. /\ now + 1 \in 0..MaxTime /\ recordedBy' \in [0..MaxTime -> Nat]
        /\ recordedBy'[now'] = IF isRunning /\ pauseStartQpc = 0 THEN recordedBy[now] + 1
                               ELSE recordedBy[now]
    BY <1>1, <1>0 DEF Tick
  <2>2. QED
    BY <1>1, <1>0, <2>1 DEF Tick
<1>2. ASSUME ClockStart PROVE ControlInv'
  <2>1. isRunning' /\ ~isPaused' /\ isRunning' \in BOOLEAN /\ isPaused' \in BOOLEAN
    BY <1>2 DEF ClockStart
  <2>2. QED
    BY <1>2, <2>1 DEF ClockStart
<1>3. ASSUME LoopStart PROVE ControlInv'
  BY <1>3 DEF LoopStart
<1>4. ASSUME SetActive PROVE ControlInv'
  BY <1>4 DEF SetActive
<1>5. ASSUME Pause PROVE ControlInv'
  BY <1>5 DEF Pause, ClockPauses
<1>6. ASSUME PauseEnds PROVE ControlInv'
  <2>1. isPaused' /\ isPaused' \in BOOLEAN
    BY <1>6 DEF PauseEnds, ClockIsPaused
  <2>2. QED
    BY <1>6, <2>1 DEF PauseEnds, ClockIsPaused
<1>7. ASSUME SetPaused PROVE ControlInv'
  BY <1>7 DEF SetPaused
<1>8. ASSUME Resume PROVE ControlInv'
  BY <1>8 DEF Resume
<1>9. ASSUME ResumeEnds PROVE ControlInv'
  <2>1. ~isPaused' /\ isPaused' \in BOOLEAN
    BY <1>9 DEF ResumeEnds
  <2>2. QED
    BY <1>9, <2>1 DEF ResumeEnds
<1>10. ASSUME SetResumed PROVE ControlInv'
  BY <1>10 DEF SetResumed
<1>11. ASSUME Stop PROVE ControlInv'
  BY <1>11 DEF Stop
<1>12. ASSUME AudioStopped PROVE ControlInv'
  BY <1>12 DEF AudioStopped, ClockPauses
<1>13. ASSUME LastPauseEnds PROVE ControlInv'
  <2>1. isPaused' /\ isPaused' \in BOOLEAN
    BY <1>13 DEF LastPauseEnds, ClockIsPaused
  <2>2. QED
    BY <1>13, <2>1 DEF LastPauseEnds, ClockIsPaused
<1>14. ASSUME ClockReset PROVE ControlInv'
  <2>1. ~isRunning' /\ ~isPaused' /\ isRunning' \in BOOLEAN /\ isPaused' \in BOOLEAN
    BY <1>14 DEF ClockReset
  <2>2. QED
    BY <1>14, <2>1 DEF ClockReset
<1>15. ASSUME LoopEnters PROVE ControlInv'
  BY <1>15 DEF LoopEnters
<1>16. ASSUME ReadPaused PROVE ControlInv'
  <2>1. silence' \in BOOLEAN
    BY <1>16 DEF ReadPaused
  <2>2. QED
    BY <1>16, <2>1 DEF ReadPaused
<1>17. ASSUME ReadSamples PROVE ControlInv'
  <2>1. PICK from \in deviceEnd..now, to \in deviceEnd..now :
           /\ from <= to
           /\ frames' \in 1..FramesIn(to - from)
           /\ deviceEnd' = to
           /\ inHand' = (to - from) - IF to <= filledTo THEN 0
                                      ELSE IF from <= filledTo THEN Gained(filledTo, to)
                                      ELSE Gained(from, to)
    BY <1>17 DEF ReadSamples
  <2>2. from \in 0..now /\ to \in 0..now /\ to - from \in Nat /\ filledTo \in 0..now
    BY <2>1
  <2>3. FramesIn(to - from) \in Nat
    BY <2>2, ConversionTypes
  <2>4. frames' \in Nat /\ deviceEnd' \in 0..now
    BY <2>1, <2>2, <2>3
  <2>5. inHand' \in Nat
    <3>1. CASE to <= filledTo
      BY <2>1, <2>2, <3>1
    <3>2. CASE filledTo < to /\ from <= filledTo
      <4>1. Gained(filledTo, to) \in Nat /\ Gained(filledTo, to) <= to - filledTo
        BY <2>2, <3>2, GainedBounds
      <4>2. QED
        BY <2>1, <2>2, <3>2, <4>1
    <3>3. CASE filledTo < to /\ filledTo < from
      <4>1. Gained(from, to) \in Nat /\ Gained(from, to) <= to - from
        BY <2>1, <2>2, GainedBounds
      <4>2. QED
        BY <2>1, <2>2, <3>3, <4>1
    <3>4. QED
      BY <2>2, <3>1, <3>2, <3>3
  <2>6. silence' \in BOOLEAN
    BY <1>17 DEF ReadSamples
  <2>7. QED
    BY <1>17, <2>4, <2>5, <2>6 DEF ReadSamples
<1>18. ASSUME ReadNothing PROVE ControlInv'
  BY <1>18 DEF ReadNothing
<1>19. ASSUME FillSilence PROVE ControlInv'
  <2>1. /\ Gained(lastAdvance, now) \in Nat
        /\ Gained(lastAdvance, now) <= now - lastAdvance
    BY GainedBounds
  <2>2. frames' \in Nat /\ silence' \in BOOLEAN /\ inHand' \in Nat
    <3>1. SilentFrames \in Nat
      BY <1>a, SilenceLastsNoLonger DEF SilentFrames
    <3>2. CASE SilentFrames > 0
      BY <1>19, <2>1, <3>1, <3>2 DEF FillSilence
    <3>3. CASE ~(SilentFrames > 0)
      BY <1>19, <3>3 DEF FillSilence
    <3>4. QED
      BY <3>2, <3>3
  <2>3. QED
    BY <1>19, <2>2 DEF FillSilence
<1>20. ASSUME Stamp PROVE ControlInv'
  BY <1>20, <1>a DEF Stamp
<1>21. ASSUME Write PROVE ControlInv'
  <2>1. audioEnd' \in Nat /\ overlaps' \in Nat
    <3>1. CASE session \in {"active", "pausing", "held"}
      BY <1>21, <1>a, <3>1 DEF Write
    <3>2. CASE session \notin {"active", "pausing", "held"}
      BY <1>21, <3>2 DEF Write
    <3>3. QED
      BY <3>1, <3>2
  <2>2. QED
    BY <1>21, <2>1 DEF Write
<1>22. ASSUME AdvanceTests PROVE ControlInv'
  BY <1>22 DEF AdvanceTests
<1>23. ASSUME AdvanceAdds PROVE ControlInv'
  BY <1>23, <1>a DEF AdvanceAdds
<1>24. ASSUME Advanced PROVE ControlInv'
  <2>1. silence' \in BOOLEAN
    BY <1>24 DEF Advanced
  <2>2. QED
    BY <1>24, <2>1 DEF Advanced
<1>25. ASSUME LoopThrows PROVE ControlInv'
  <2>1. silence' \in BOOLEAN /\ faulted' \in BOOLEAN
    BY <1>25 DEF LoopThrows
  <2>2. QED
    BY <1>25, <2>1 DEF LoopThrows
<1>26. ASSUME FallbackAdvance PROVE ControlInv'
  <2>1. /\ Gained(lastAdvance, now) \in Nat
        /\ Gained(lastAdvance, now) <= now - lastAdvance
    BY GainedBounds
  <2>2. FallbackFrames \in Nat
    BY SilenceLastsNoLonger DEF FallbackFrames
  <2>3. silence' \in BOOLEAN /\ frames' \in Nat /\ inHand' \in Nat
    BY <1>26, <2>1, <2>2 DEF FallbackAdvance
  <2>4. QED
    BY <1>26, <2>3 DEF FallbackAdvance
<1>27. ASSUME LoopEnds PROVE ControlInv'
  BY <1>27 DEF LoopEnds
<1>28. ASSUME FrameReads PROVE ControlInv'
  <2>1. CASE currentTime > 0
    <3>1. fromAudio' /\ fromAudio' \in BOOLEAN /\ frameStamp' \in Nat
      BY <1>28, <2>1 DEF FrameReads
    <3>2. QED
      BY <1>28, <2>1, <3>1 DEF FrameReads, FramesArrive
  <2>2. CASE ~(currentTime > 0)
    BY <1>28, <2>2 DEF FrameReads, FramesArrive
  <2>3. QED
    BY <2>1, <2>2
<1>29. ASSUME FrameReadsCounter PROVE ControlInv'
  BY <1>29 DEF FrameReadsCounter
<1>30. ASSUME FrameReadsRelative PROVE ControlInv'
  <2>1. GetRelativeTime(frameQpc) \in Nat
    <3>1. isRunning /\ ~ClockLocked /\ session # "draining" /\ frameQpc \in 0..now
      BY <1>30 DEF FrameReadsRelative
    <3>2. QED
      BY <3>1, RelativeTime
  <2>2. frameStamp' \in Nat /\ fromAudio' \in BOOLEAN
    BY <1>30, <2>1 DEF FrameReadsRelative
  <2>3. QED
    BY <1>30, <2>2 DEF FrameReadsRelative
<1>31. ASSUME UNCHANGED vars PROVE ControlInv'
  BY <1>31 DEF vars
<1>32. QED
  BY <1>1, <1>2, <1>3, <1>4, <1>5, <1>6, <1>7, <1>8, <1>9, <1>10, <1>11, <1>12,
     <1>13, <1>14, <1>15, <1>16, <1>17, <1>18, <1>19, <1>20, <1>21, <1>22,
     <1>23, <1>24, <1>25, <1>26, <1>27, <1>28, <1>29, <1>30, <1>31
     DEF Next, Control, AudioThread, FrameThread

\* Only time adds to the history.
LEMMA HistoryStands ==
    ASSUME [Next]_vars, ~Tick
    PROVE  now' = now /\ recordedBy' = recordedBy
<1> USE DEF counted, clock, audio, video, written
<1>1. CASE Control
  BY <1>1 DEF Control, ClockStart, LoopStart, SetActive, Pause, PauseEnds, ClockIsPaused,
     SetPaused, Resume, ResumeEnds, SetResumed, Stop, AudioStopped, LastPauseEnds, ClockReset
<1>2. CASE AudioThread
  BY <1>2 DEF AudioThread, LoopEnters, ReadPaused, ReadSamples, ReadNothing, FillSilence, Stamp,
     Write, AdvanceTests, AdvanceAdds, Advanced, LoopThrows, FallbackAdvance, LoopEnds
<1>3. CASE FrameThread
  BY <1>3 DEF FrameThread, FrameReads, FrameReadsCounter, FrameReadsRelative
<1>4. CASE UNCHANGED vars
  BY <1>4 DEF vars
<1>5. QED
  BY <1>1, <1>2, <1>3, <1>4 DEF Next

\* What a tick of the counter adds.
LEMMA TickAdds ==
    ASSUME ControlInv, Tick
    PROVE  /\ now' = now + 1
           /\ \A t \in 0..now : recordedBy'[t] = recordedBy[t]
           /\ recordedBy'[now'] \in {recordedBy[now], recordedBy[now] + 1}
<1>1. now \in 1..MaxTime /\ now + 1 \in 0..MaxTime /\ recordedBy \in [0..MaxTime -> Nat]
  BY TimelineAssumption DEF ControlInv, TypeOK, Tick
<1>2. QED
  BY <1>1, TimelineAssumption DEF Tick, recorded

\* Each step keeps the invariant of the history.
LEMMA HistoryInvStep ==
    ASSUME ControlInv, HistoryInv, [Next]_vars
    PROVE  HistoryInv'
<1>1. now \in Nat /\ \A t \in 0..now : recordedBy[t] \in Nat
  BY TimelineAssumption DEF ControlInv, TypeOK
<1>2. CASE Tick
  <2> SUFFICES ASSUME NEW from \in 0..now', NEW to \in 0..now', from <= to
               PROVE  (recordedBy'[to] - recordedBy'[from]) \in 0..(to - from)
    BY DEF HistoryInv, Gained
  <2>1. /\ now' = now + 1
        /\ \A t \in 0..now : recordedBy'[t] = recordedBy[t]
        /\ recordedBy'[now'] \in {recordedBy[now], recordedBy[now] + 1}
    BY <1>2, TickAdds
  <2>2. CASE to \in 0..now
    <3>1. from \in 0..now
      BY <1>1, <2>1, <2>2
    <3>2. recordedBy'[from] = recordedBy[from] /\ recordedBy'[to] = recordedBy[to]
      BY <2>1, <2>2, <3>1
    <3>3. recordedBy[to] - recordedBy[from] \in 0..(to - from)
      BY <2>2, <3>1 DEF HistoryInv, Gained
    <3>4. QED
      BY <3>2, <3>3
  <2>3. CASE to = now' /\ from \in 0..now
    <3>1. (recordedBy[now] - recordedBy[from]) \in 0..(now - from)
      BY <1>1, <2>3 DEF HistoryInv, Gained
    <3>2. recordedBy'[from] = recordedBy[from] /\ recordedBy[now] \in Nat /\ recordedBy[from] \in Nat
      BY <1>1, <2>1, <2>3
    <3>3. QED
      BY <1>1, <2>1, <2>3, <3>1, <3>2
  <2>4. CASE to = now' /\ from = now'
    BY <1>1, <2>1, <2>4
  <2>5. QED
    BY <1>1, <2>1, <2>2, <2>3, <2>4
<1>3. CASE ~Tick
  BY <1>3, HistoryStands DEF HistoryInv, Gained
<1>4. QED
  BY <1>2, <1>3

\* Each step keeps the invariant of the frame thread.
LEMMA VideoInvStep ==
    ASSUME ControlInv, HistoryInv, VideoInv, [Next]_vars
    PROVE  VideoInv'
<1> USE DEF ControlInv, TypeOK, ClockInv, ThreadsInv, Live, VideoInv, recorded, ClockLocked, clock,
        audio, video, counted, written
<1>1. ASSUME Tick PROVE VideoInv'
  <2>1. /\ now' = now + 1
        /\ \A t \in 0..now : recordedBy'[t] = recordedBy[t]
        /\ recordedBy'[now'] \in {recordedBy[now], recordedBy[now] + 1}
    BY <1>1, TickAdds
  <2>2. now \in 0..now /\ frameQpc \in 0..now /\ recordedBy[now] \in Nat
    BY TimelineAssumption
  <2>3. /\ QpcToTicks(recordedBy[now]) <= QpcToTicks(recordedBy'[now'])
        /\ QpcToTicks(recordedBy[now]) \in Nat /\ QpcToTicks(recordedBy'[now']) \in Nat
    <3>1. recordedBy'[now'] \in Nat /\ recordedBy[now] <= recordedBy'[now']
      BY <2>1, <2>2
    <3>2. QED
      BY <2>2, <3>1, TicksMonotone, ConversionTypes
  <2>4. recordedBy'[frameQpc'] = recordedBy[frameQpc]
    BY <1>1, <2>1, <2>2 DEF Tick
  <2>5. QED
    BY <1>1, <2>2, <2>3, <2>4 DEF Tick
<1>2. ASSUME ClockStart PROVE VideoInv'
  BY <1>2 DEF ClockStart
<1>3. ASSUME LoopStart PROVE VideoInv'
  BY <1>3 DEF LoopStart
<1>4. ASSUME SetActive PROVE VideoInv'
  BY <1>4 DEF SetActive
<1>5. ASSUME Pause PROVE VideoInv'
  BY <1>5 DEF Pause, ClockPauses
<1>6. ASSUME PauseEnds PROVE VideoInv'
  BY <1>6 DEF PauseEnds, ClockIsPaused
<1>7. ASSUME SetPaused PROVE VideoInv'
  BY <1>7 DEF SetPaused
<1>8. ASSUME Resume PROVE VideoInv'
  BY <1>8 DEF Resume
<1>9. ASSUME ResumeEnds PROVE VideoInv'
  BY <1>9 DEF ResumeEnds
<1>10. ASSUME SetResumed PROVE VideoInv'
  BY <1>10 DEF SetResumed
<1>11. ASSUME Stop PROVE VideoInv'
  BY <1>11 DEF Stop
<1>12. ASSUME AudioStopped PROVE VideoInv'
  BY <1>12 DEF AudioStopped, ClockPauses
<1>13. ASSUME LastPauseEnds PROVE VideoInv'
  BY <1>13 DEF LastPauseEnds, ClockIsPaused
<1>14. ASSUME ClockReset PROVE VideoInv'
  BY <1>14 DEF ClockReset
<1>15. ASSUME LoopEnters PROVE VideoInv'
  BY <1>15 DEF LoopEnters
<1>16. ASSUME ReadPaused PROVE VideoInv'
  BY <1>16 DEF ReadPaused
<1>17. ASSUME ReadSamples PROVE VideoInv'
  BY <1>17 DEF ReadSamples
<1>18. ASSUME ReadNothing PROVE VideoInv'
  BY <1>18 DEF ReadNothing
<1>19. ASSUME FillSilence PROVE VideoInv'
  BY <1>19 DEF FillSilence
<1>20. ASSUME Stamp PROVE VideoInv'
  BY <1>20 DEF Stamp
<1>21. ASSUME Write PROVE VideoInv'
  BY <1>21 DEF Write
<1>22. ASSUME AdvanceTests PROVE VideoInv'
  BY <1>22 DEF AdvanceTests
<1>23. ASSUME AdvanceAdds PROVE VideoInv'
  <2>1. TicksFromAudioFrames(frames) \in Nat
    BY ConversionTypes
  <2>2. QED
    BY <1>23, <2>1 DEF AdvanceAdds
<1>24. ASSUME Advanced PROVE VideoInv'
  BY <1>24 DEF Advanced
<1>25. ASSUME LoopThrows PROVE VideoInv'
  BY <1>25 DEF LoopThrows
<1>26. ASSUME FallbackAdvance PROVE VideoInv'
  BY <1>26 DEF FallbackAdvance
<1>27. ASSUME LoopEnds PROVE VideoInv'
  BY <1>27 DEF LoopEnds
<1>28. ASSUME FrameReads PROVE VideoInv'
  <2>1. CASE currentTime > 0
    BY <1>28, <2>1 DEF FrameReads, FramesArrive
  <2>2. CASE ~(currentTime > 0)
    BY <1>28, <2>2 DEF FrameReads, FramesArrive
  <2>3. QED
    BY <2>1, <2>2
<1>29. ASSUME FrameReadsCounter PROVE VideoInv'
  BY <1>29 DEF FrameReadsCounter
<1>30. ASSUME FrameReadsRelative PROVE VideoInv'
  <2>1. isRunning /\ session # "draining" /\ frameQpc \in 0..now
    BY <1>30 DEF FrameReadsRelative
  <2>2. GetRelativeTime(frameQpc) <= QpcToTicks(recorded)
    BY <1>30, <2>1, RelativeTime DEF FrameReadsRelative
  <2>3. ~fromAudio'
    BY <1>30 DEF FrameReadsRelative
  <2>4. QED
    BY <1>30, <2>2, <2>3 DEF FrameReadsRelative
<1>31. ASSUME UNCHANGED vars PROVE VideoInv'
  BY <1>31 DEF vars
<1>32. QED
  BY <1>1, <1>2, <1>3, <1>4, <1>5, <1>6, <1>7, <1>8, <1>9, <1>10, <1>11, <1>12,
     <1>13, <1>14, <1>15, <1>16, <1>17, <1>18, <1>19, <1>20, <1>21, <1>22,
     <1>23, <1>24, <1>25, <1>26, <1>27, <1>28, <1>29, <1>30, <1>31
     DEF Next, Control, AudioThread, FrameThread

\* Each step keeps the invariant of the written samples.
LEMMA OverlapInvStep ==
    ASSUME ControlInv, OverlapInv, [Next]_vars
    PROVE  OverlapInv'
<1> USE DEF ControlInv, TypeOK, ClockInv, ThreadsInv, Live, OverlapInv, Pausing, clock, audio, video,
        counted, written
<1>0. TicksFromAudioFrames(frames) \in Nat
  BY ConversionTypes
<1>1. ASSUME Tick PROVE OverlapInv'
  BY <1>1 DEF Tick
<1>2. ASSUME ClockStart PROVE OverlapInv'
  BY <1>2 DEF ClockStart
<1>3. ASSUME LoopStart PROVE OverlapInv'
  BY <1>3 DEF LoopStart
<1>4. ASSUME SetActive PROVE OverlapInv'
  BY <1>4 DEF SetActive
<1>5. ASSUME Pause PROVE OverlapInv'
  BY <1>5, <1>0 DEF Pause, ClockPauses
<1>6. ASSUME PauseEnds PROVE OverlapInv'
  BY <1>6, <1>0 DEF PauseEnds, ClockIsPaused
<1>7. ASSUME SetPaused PROVE OverlapInv'
  BY <1>7 DEF SetPaused
<1>8. ASSUME Resume PROVE OverlapInv'
  BY <1>8 DEF Resume
<1>9. ASSUME ResumeEnds PROVE OverlapInv'
  BY <1>9 DEF ResumeEnds
<1>10. ASSUME SetResumed PROVE OverlapInv'
  BY <1>10 DEF SetResumed
<1>11. ASSUME Stop PROVE OverlapInv'
  BY <1>11 DEF Stop
<1>12. ASSUME AudioStopped PROVE OverlapInv'
  BY <1>12 DEF AudioStopped, ClockPauses
<1>13. ASSUME LastPauseEnds PROVE OverlapInv'
  BY <1>13 DEF LastPauseEnds, ClockIsPaused
<1>14. ASSUME ClockReset PROVE OverlapInv'
  BY <1>14 DEF ClockReset
<1>15. ASSUME LoopEnters PROVE OverlapInv'
  BY <1>15 DEF LoopEnters
<1>16. ASSUME ReadPaused PROVE OverlapInv'
  BY <1>16 DEF ReadPaused
<1>17. ASSUME ReadSamples PROVE OverlapInv'
  BY <1>17 DEF ReadSamples
<1>18. ASSUME ReadNothing PROVE OverlapInv'
  BY <1>18 DEF ReadNothing
<1>19. ASSUME FillSilence PROVE OverlapInv'
  BY <1>19 DEF FillSilence
<1>20. ASSUME Stamp PROVE OverlapInv'
  BY <1>20, <1>0 DEF Stamp
<1>21. ASSUME Write PROVE OverlapInv'
  BY <1>21, <1>0 DEF Write
<1>22. ASSUME AdvanceTests PROVE OverlapInv'
  BY <1>22, <1>0 DEF AdvanceTests
<1>23. ASSUME AdvanceAdds PROVE OverlapInv'
  BY <1>23, <1>0 DEF AdvanceAdds
<1>24. ASSUME Advanced PROVE OverlapInv'
  BY <1>24 DEF Advanced
<1>25. ASSUME LoopThrows PROVE OverlapInv'
  BY <1>25 DEF LoopThrows
<1>26. ASSUME FallbackAdvance PROVE OverlapInv'
  <2>1. FallbackFrames \in Nat
    BY TimelineAssumption, SilenceLastsNoLonger DEF FallbackFrames
  <2>2. TicksFromAudioFrames(frames') \in Nat
    BY <1>26, <2>1, ConversionTypes DEF FallbackAdvance
  <2>3. QED
    BY <1>26, <2>2 DEF FallbackAdvance
<1>27. ASSUME LoopEnds PROVE OverlapInv'
  BY <1>27 DEF LoopEnds
<1>28. ASSUME FrameReads PROVE OverlapInv'
  BY <1>28 DEF FrameReads, FramesArrive
<1>29. ASSUME FrameReadsCounter PROVE OverlapInv'
  BY <1>29 DEF FrameReadsCounter
<1>30. ASSUME FrameReadsRelative PROVE OverlapInv'
  BY <1>30 DEF FrameReadsRelative
<1>31. ASSUME UNCHANGED vars PROVE OverlapInv'
  BY <1>31 DEF vars
<1>32. QED
  BY <1>1, <1>2, <1>3, <1>4, <1>5, <1>6, <1>7, <1>8, <1>9, <1>10, <1>11, <1>12,
     <1>13, <1>14, <1>15, <1>16, <1>17, <1>18, <1>19, <1>20, <1>21, <1>22,
     <1>23, <1>24, <1>25, <1>26, <1>27, <1>28, <1>29, <1>30, <1>31
     DEF Next, Control, AudioThread, FrameThread

\* The time recorded up to what was advanced for is part of the time recorded.
LEMMA CoveredIsRecorded ==
    ASSUME ControlInv, HistoryInv
    PROVE  /\ Covered \in 0..now /\ now \in Nat /\ recorded \in Nat
           /\ \A s \in 0..now : recordedBy[s] \in Nat /\ recordedBy[s] <= recorded
           /\ \A s, t \in 0..now : s <= t => recordedBy[s] <= recordedBy[t]
<1>1. Covered \in 0..now /\ now \in 0..now /\ now \in Nat
  BY DEF ControlInv, TypeOK, Covered
<1>2. \A s \in 0..now : recordedBy[s] \in Nat
  BY TimelineAssumption DEF ControlInv, TypeOK
<1>3. ASSUME NEW s \in 0..now, NEW t \in 0..now, s <= t
      PROVE  recordedBy[s] <= recordedBy[t]
  <2>1. recordedBy[t] - recordedBy[s] \in 0..(t - s)
    BY <1>3 DEF HistoryInv, Gained
  <2>2. QED
    BY <1>2, <2>1
<1>4. QED
  BY <1>1, <1>2, <1>3 DEF recorded

\* What frames that last no longer than a span of time advance the clock by.
LEMMA SpanAdds ==
    ASSUME NEW c \in Nat, NEW r \in Nat, NEW q \in Nat, NEW t \in Nat, NEW r2 \in Nat,
           c <= QpcToTicks(r), t <= QpcToTicks(q), r + q <= r2
    PROVE  c + t <= QpcToTicks(r2)
<1>1. QpcToTicks(r) + QpcToTicks(q) <= QpcToTicks(r + q)
  BY TicksOfSum
<1>2. QpcToTicks(r + q) <= QpcToTicks(r2)
  BY TicksMonotone
<1>3. /\ QpcToTicks(r) \in Nat /\ QpcToTicks(q) \in Nat
      /\ QpcToTicks(r + q) \in Nat /\ QpcToTicks(r2) \in Nat
  BY ConversionTypes
<1>4. QED
  BY <1>1, <1>2, <1>3

\* A bound of the clock stands when the time recorded grows.
LEMMA BoundGrows ==
    ASSUME NEW c \in Nat, NEW r \in Nat, NEW r2 \in Nat, c <= QpcToTicks(r), r <= r2
    PROVE  c <= QpcToTicks(r2)
<1>1. QpcToTicks(r) <= QpcToTicks(r2) /\ QpcToTicks(r) \in Nat /\ QpcToTicks(r2) \in Nat
  BY TicksMonotone, ConversionTypes
<1>2. QED
  BY <1>1

\* What a span of time, its gain left out, makes of the time recorded.
LEMMA SpanSurplus ==
    ASSUME NEW a \in Nat, NEW b \in Nat, NEW s \in Nat, NEW d \in Nat, NEW i, i = d - (b - a)
    PROVE  i \in Int /\ b + s + i = a + s + d
OBVIOUS

\* A packet advances the clock by no more than the recording gained and its surplus.
LEMMA PacketBound ==
    ASSUME ControlInv, HistoryInv, AheadInv, ReadSamples
    PROVE  AheadInv'
<1> USE DEF ControlInv, TypeOK
<1>1. PICK from \in deviceEnd..now, to \in deviceEnd..now :
         /\ from <= to
         /\ frames' \in 1..FramesIn(to - from)
         /\ deviceEnd' = to
         /\ inHand' = (to - from) - IF to <= filledTo THEN 0
                                    ELSE IF from <= filledTo THEN Gained(filledTo, to)
                                    ELSE Gained(from, to)
  BY DEF ReadSamples
<1>2. /\ from \in 0..now /\ to \in 0..now /\ to - from \in Nat /\ deviceEnd <= from
      /\ filledTo \in 0..now /\ deviceEnd \in 0..now /\ from \in Nat /\ to \in Nat
  BY <1>1
<1>3. /\ loop = "read" /\ loop' = "stamp" /\ ~silence' /\ silence' \in BOOLEAN
      /\ UNCHANGED << now, currentTime, recordedBy, filledTo, surplus, lastAdvance >>
  BY DEF ReadSamples, clock
<1>4. Covered' = IF filledTo >= to THEN filledTo ELSE to
  BY <1>1, <1>3 DEF Covered
<1>5. /\ \A s \in 0..now : recordedBy[s] \in Nat /\ recordedBy[s] <= recorded
      /\ \A s, t \in 0..now : s <= t => recordedBy[s] <= recordedBy[t]
      /\ Covered \in 0..now
  BY CoveredIsRecorded
<1>6. /\ currentTime \in Nat /\ surplus \in Nat /\ recordedBy[Covered] + surplus \in Nat
      /\ currentTime <= QpcToTicks(recordedBy[Covered] + surplus)
  BY <1>3, <1>5 DEF AheadInv
<1>7. Covered' \in 0..now /\ Covered <= Covered' /\ inHand' \in Int
      /\ recordedBy[Covered] + surplus + (to - from) <= recordedBy[Covered'] + surplus + inHand'
  <2>1. Covered' \in 0..now /\ Covered <= Covered'
    BY <1>2, <1>4 DEF Covered
  <2>2. CASE to <= filledTo
    <3>1. Covered' = filledTo /\ inHand' = to - from
      BY <1>1, <1>2, <1>4, <2>2
    <3>2. recordedBy[Covered] <= recordedBy[Covered']
      BY <1>5, <2>1
    <3>3. QED
      BY <1>2, <1>5, <1>6, <2>1, <3>1, <3>2
  <2>3. CASE filledTo < to /\ from <= filledTo
    <3>1. /\ Covered' = to /\ Covered = filledTo
          /\ inHand' = (to - from) - (recordedBy[to] - recordedBy[filledTo])
      BY <1>1, <1>2, <1>4, <2>3 DEF Covered, Gained
    <3>2. recordedBy[to] \in Nat /\ recordedBy[filledTo] \in Nat
      BY <1>2, <1>5
    <3>3. inHand' \in Int /\ recordedBy[to] + surplus + inHand' = recordedBy[filledTo] + surplus + (to - from)
      <4> DEFINE a == recordedBy[filledTo]
                 b == recordedBy[to]
                 d == to - from
      <4>1. a \in Nat /\ b \in Nat /\ d \in Nat /\ surplus \in Nat /\ inHand' = d - (b - a)
        BY <1>2, <1>6, <3>1, <3>2
      <4> HIDE DEF a, b, d
      <4>2. inHand' \in Int /\ b + surplus + inHand' = a + surplus + d
        BY <4>1, SpanSurplus
      <4>3. QED
        BY <4>2 DEF a, b, d
    <3>4. recordedBy[filledTo] + surplus + (to - from) \in Nat
      BY <1>2, <1>6, <3>2
    <3>5. QED
      BY <2>1, <3>1, <3>3, <3>4
  <2>4. CASE filledTo < to /\ filledTo < from
    <3>1. /\ Covered' = to /\ Covered <= from
          /\ inHand' = (to - from) - (recordedBy[to] - recordedBy[from])
      BY <1>1, <1>2, <1>4, <2>4 DEF Covered, Gained
    <3>2. /\ recordedBy[to] \in Nat /\ recordedBy[from] \in Nat
          /\ recordedBy[Covered] \in Nat /\ recordedBy[Covered] <= recordedBy[from]
      BY <1>2, <1>5, <3>1
    <3>3. inHand' \in Int /\ recordedBy[to] + surplus + inHand' = recordedBy[from] + surplus + (to - from)
      <4> DEFINE a == recordedBy[from]
                 b == recordedBy[to]
                 d == to - from
      <4>1. a \in Nat /\ b \in Nat /\ d \in Nat /\ surplus \in Nat /\ inHand' = d - (b - a)
        BY <1>2, <1>6, <3>1, <3>2
      <4> HIDE DEF a, b, d
      <4>2. inHand' \in Int /\ b + surplus + inHand' = a + surplus + d
        BY <4>1, SpanSurplus
      <4>3. QED
        BY <4>2 DEF a, b, d
    <3>4. recordedBy[Covered] + surplus + (to - from) <= recordedBy[from] + surplus + (to - from)
      BY <1>2, <1>6, <3>2
    <3>5. QED
      BY <2>1, <3>1, <3>3, <3>4
  <2>5. QED
    BY <1>2, <2>2, <2>3, <2>4
<1>8. /\ FramesIn(to - from) \in Nat /\ frames' \in Nat /\ frames' <= FramesIn(to - from)
  BY <1>1, <1>2, ConversionTypes
<1>9. /\ TicksFromAudioFrames(frames') \in Nat
      /\ TicksFromAudioFrames(frames') <= QpcToTicks(to - from)
  BY <1>2, <1>8, FramesLastNoLonger, ConversionTypes
<1>10. recordedBy[Covered'] \in Nat /\ recordedBy[Covered] \in Nat
       /\ recordedBy[Covered] <= recordedBy[Covered']
  BY <1>5, <1>7
<1>11. recordedBy[Covered'] + surplus + inHand' \in Nat
  BY <1>2, <1>6, <1>7, <1>10
<1>12. currentTime + TicksFromAudioFrames(frames')
           <= QpcToTicks(recordedBy[Covered'] + surplus + inHand')
  BY <1>2, <1>6, <1>7, <1>9, <1>11, SpanAdds
<1>13. currentTime <= QpcToTicks(recordedBy[Covered'] + surplus)
  BY <1>6, <1>10, BoundGrows
<1>14. QED
  BY <1>3, <1>12, <1>13 DEF AheadInv, InHand, recorded

\* So does a silence that is filled in, or that the fallback stands in for.
LEMMA SilenceBound ==
    ASSUME ControlInv, HistoryInv, AheadInv, NEW n \in Nat,
           loop \in {"silent", "fallback"}, loop' \in InHand,
           TicksFromAudioFrames(n) <= QpcToTicks(now - lastAdvance),
           frames' = n, silence' = TRUE, lastAdvance' = now,
           inHand' = (now - lastAdvance) - Gained(lastAdvance, now),
           UNCHANGED << now, currentTime, recordedBy, filledTo, surplus, deviceEnd >>
    PROVE  AheadInv'
<1> USE DEF ControlInv, TypeOK
<1>1. /\ \A s \in 0..now : recordedBy[s] \in Nat
      /\ \A s, t \in 0..now : s <= t => recordedBy[s] <= recordedBy[t]
      /\ Covered \in 0..now /\ Covered <= lastAdvance /\ Covered' = Covered
      /\ lastAdvance \in 0..now /\ now \in 0..now /\ now - lastAdvance \in Nat
  BY CoveredIsRecorded DEF AheadInv, Covered
<1>2. /\ currentTime \in Nat /\ surplus \in Nat
      /\ recordedBy[Covered] \in Nat /\ recordedBy[lastAdvance] \in Nat /\ recordedBy[now] \in Nat
      /\ recordedBy[Covered] <= recordedBy[lastAdvance]
      /\ currentTime <= QpcToTicks(recordedBy[Covered] + surplus)
  BY <1>1 DEF AheadInv
<1>3. /\ inHand' \in Int
      /\ recordedBy[now] + surplus + inHand' = recordedBy[lastAdvance] + surplus + (now - lastAdvance)
  <2>1. inHand' = (now - lastAdvance) - (recordedBy[now] - recordedBy[lastAdvance])
    BY DEF Gained
  <2>2. QED
    BY <1>1, <1>2, <2>1, SpanSurplus
<1>4. TicksFromAudioFrames(n) \in Nat
  BY ConversionTypes
<1>5. /\ recordedBy[Covered] + surplus \in Nat
      /\ recordedBy[now] + surplus + inHand' \in Nat
      /\ recordedBy[Covered] + surplus + (now - lastAdvance) <= recordedBy[now] + surplus + inHand'
  <2> DEFINE a == recordedBy[lastAdvance]
             b == recordedBy[now]
             c == recordedBy[Covered]
             d == now - lastAdvance
  <2>1. /\ a \in Nat /\ b \in Nat /\ c \in Nat /\ d \in Nat /\ surplus \in Nat /\ c <= a
        /\ inHand' \in Int /\ b + surplus + inHand' = a + surplus + d
    BY <1>1, <1>2, <1>3
  <2> HIDE DEF a, b, c, d
  <2>2. c + surplus \in Nat /\ b + surplus + inHand' \in Nat
        /\ c + surplus + d <= b + surplus + inHand'
    BY <2>1
  <2>3. QED
    BY <2>2 DEF a, b, c, d
<1>6. currentTime + TicksFromAudioFrames(n) <= QpcToTicks(recordedBy[now] + surplus + inHand')
  BY <1>1, <1>2, <1>4, <1>5, SpanAdds
<1>7. QED
  BY <1>1, <1>2, <1>6 DEF AheadInv, InHand, recorded

\* Each step keeps the invariant that bounds the audio clock.
LEMMA AheadInvStep ==
    ASSUME ControlInv, HistoryInv, AheadInv, [Next]_vars
    PROVE  AheadInv'
<1> USE DEF ControlInv, TypeOK, ClockInv, ThreadsInv, Live, AheadInv, InHand, Covered, recorded,
        clock, audio, video, counted, written
<1>0. /\ Covered \in 0..now /\ now \in Nat /\ recorded \in Nat
      /\ \A s \in 0..now : recordedBy[s] \in Nat /\ recordedBy[s] <= recorded
      /\ \A s, t \in 0..now : s <= t => recordedBy[s] <= recordedBy[t]
  BY CoveredIsRecorded
<1>1. ASSUME Tick PROVE AheadInv'
  <2>1. /\ now' = now + 1
        /\ \A t \in 0..now : recordedBy'[t] = recordedBy[t]
        /\ recordedBy'[now'] \in {recordedBy[now], recordedBy[now] + 1}
    BY <1>1, TickAdds
  <2>2. Covered' = Covered /\ recordedBy'[Covered'] = recordedBy[Covered]
        /\ recordedBy'[lastAdvance'] = recordedBy[lastAdvance]
    BY <1>1, <1>0, <2>1 DEF Tick
  <2>3. currentTime <= QpcToTicks(recordedBy'[now'] + surplus)
    <3>1. recordedBy[now] + surplus \in Nat /\ recordedBy'[now'] + surplus \in Nat
          /\ recordedBy[now] + surplus <= recordedBy'[now'] + surplus /\ currentTime \in Nat
      BY <1>0, <2>1
    <3>2. currentTime <= QpcToTicks(recordedBy[now] + surplus)
      OBVIOUS
    <3>3. QED
      BY <3>1, <3>2, BoundGrows
  <2> HIDE DEF Covered
  <2>4. QED
    BY <1>1, <2>2, <2>3 DEF Tick
<1>2. ASSUME ClockStart PROVE AheadInv'
  <2>1. loop = "off" /\ currentTime' = 0 /\ QpcToTicks(recordedBy[now] + surplus) \in Nat
    BY <1>2, <1>0, ConversionTypes DEF ClockStart
  <2>2. QED
    BY <1>2, <2>1 DEF ClockStart
<1>3. ASSUME LoopStart PROVE AheadInv'
  <2>1. Covered' = now
    BY <1>3 DEF LoopStart
  <2> HIDE DEF Covered
  <2>2. QED
    BY <1>3, <2>1 DEF LoopStart
<1>4. ASSUME SetActive PROVE AheadInv'
  BY <1>4 DEF SetActive
<1>5. ASSUME Pause PROVE AheadInv'
  BY <1>5 DEF Pause, ClockPauses
<1>6. ASSUME PauseEnds PROVE AheadInv'
  BY <1>6 DEF PauseEnds, ClockIsPaused
<1>7. ASSUME SetPaused PROVE AheadInv'
  BY <1>7 DEF SetPaused
<1>8. ASSUME Resume PROVE AheadInv'
  BY <1>8 DEF Resume
<1>9. ASSUME ResumeEnds PROVE AheadInv'
  BY <1>9 DEF ResumeEnds
<1>10. ASSUME SetResumed PROVE AheadInv'
  BY <1>10 DEF SetResumed
<1>11. ASSUME Stop PROVE AheadInv'
  BY <1>11 DEF Stop
<1>12. ASSUME AudioStopped PROVE AheadInv'
  BY <1>12 DEF AudioStopped, ClockPauses
<1>13. ASSUME LastPauseEnds PROVE AheadInv'
  BY <1>13 DEF LastPauseEnds, ClockIsPaused
<1>14. ASSUME ClockReset PROVE AheadInv'
  <2>1. loop = "off" /\ currentTime' = 0 /\ QpcToTicks(recordedBy[now] + surplus) \in Nat
    BY <1>14, <1>0, ConversionTypes DEF ClockReset
  <2>2. QED
    BY <1>14, <2>1 DEF ClockReset
<1>15. ASSUME LoopEnters PROVE AheadInv'
  BY <1>15 DEF LoopEnters
<1>16. ASSUME ReadPaused PROVE AheadInv'
  <2>1. /\ Covered' \in 0..now /\ Covered <= Covered' /\ loop' = "advanced" /\ ~silence'
        /\ UNCHANGED << now, currentTime, recordedBy, surplus >>
    BY <1>16 DEF ReadPaused
  <2> HIDE DEF Covered
  <2>2. /\ recordedBy[Covered] + surplus \in Nat /\ recordedBy[Covered'] + surplus \in Nat
        /\ recordedBy[Covered] + surplus <= recordedBy[Covered'] + surplus
        /\ currentTime \in Nat /\ currentTime <= QpcToTicks(recordedBy[Covered] + surplus)
    <3>1. /\ recordedBy[Covered] \in Nat /\ recordedBy[Covered'] \in Nat
          /\ recordedBy[Covered] <= recordedBy[Covered']
      BY <1>0, <2>1
    <3>2. /\ surplus \in Nat /\ currentTime \in Nat
          /\ currentTime <= QpcToTicks(recordedBy[Covered] + surplus)
      BY <1>16 DEF ReadPaused
    <3>3. QED
      BY <3>1, <3>2
  <2>3. currentTime <= QpcToTicks(recordedBy[Covered'] + surplus)
    BY <2>2, BoundGrows
  <2>4. QED
    BY <2>1, <2>3
<1>17. ASSUME ReadSamples PROVE AheadInv'
  BY <1>17, PacketBound
<1>18. ASSUME ReadNothing PROVE AheadInv'
  BY <1>18 DEF ReadNothing
<1>19. ASSUME FillSilence PROVE AheadInv'
  <2>1. CASE SilentFrames > 0
    <3> DEFINE q == now - lastAdvance
    <3>1. q \in Nat /\ QpcToTicks(q) \in Nat
      <4>1. q \in Nat
        OBVIOUS
      <4> HIDE DEF q
      <4>2. QED
        BY <4>1, ConversionTypes
    <3>2. /\ SilentFrames = (QpcToTicks(q) * SampleRate) \div TicksPerSecond
      BY <2>1 DEF SilentFrames
    <3>3. /\ SilentFrames \in Nat
          /\ TicksFromAudioFrames(SilentFrames) <= QpcToTicks(now - lastAdvance)
      BY <3>1, <3>2, SilenceLastsNoLonger
    <3>4. /\ loop = "silent" /\ loop' = "stamp" /\ frames' = SilentFrames /\ silence' = TRUE
          /\ lastAdvance' = now /\ inHand' = (now - lastAdvance) - Gained(lastAdvance, now)
          /\ UNCHANGED << now, currentTime, recordedBy, filledTo, surplus, deviceEnd >>
      BY <1>19, <2>1 DEF FillSilence
    <3>5. loop' \in InHand
      BY <3>4
    <3>6. QED
      BY <3>3, <3>4, <3>5, SilenceBound
  <2>2. CASE ~(SilentFrames > 0)
    BY <1>19, <2>2 DEF FillSilence
  <2>3. QED
    BY <2>1, <2>2
<1>20. ASSUME Stamp PROVE AheadInv'
  BY <1>20 DEF Stamp
<1>21. ASSUME Write PROVE AheadInv'
  BY <1>21 DEF Write
<1>22. ASSUME AdvanceTests PROVE AheadInv'
  BY <1>22 DEF AdvanceTests
<1>23. ASSUME AdvanceAdds PROVE AheadInv'
  <2>1. /\ loop = "add" /\ loop' = "advanced" /\ surplus' = surplus + inHand
        /\ currentTime' = currentTime + TicksFromAudioFrames(frames)
        /\ UNCHANGED << now, recordedBy, silence, lastAdvance, deviceEnd >>
    BY <1>23 DEF AdvanceAdds
  <2>2. Covered' \in 0..now /\ (silence => Covered' = lastAdvance) /\ (~silence => Covered' = Covered)
    BY <1>23 DEF AdvanceAdds
  <2> HIDE DEF Covered
  <2>3. /\ recordedBy[Covered'] + surplus' \in Nat /\ recorded + surplus' \in Nat
        /\ recordedBy[Covered'] + surplus' <= recorded + surplus'
    BY <1>0, <2>1, <2>2
  <2>4. currentTime' <= QpcToTicks(recordedBy[Covered'] + surplus')
    <3>1. CASE silence
      <4>1. recordedBy[lastAdvance] + surplus + inHand = recordedBy[Covered'] + surplus'
        BY <1>0, <2>1, <2>2, <3>1
      <4>2. currentTime' <= QpcToTicks(recordedBy[lastAdvance] + surplus + inHand)
        BY <2>1, <3>1
      <4>3. QED
        BY <4>1, <4>2
    <3>2. CASE ~silence
      <4>1. recordedBy[Covered] + surplus + inHand = recordedBy[Covered'] + surplus'
        BY <1>0, <2>1, <2>2, <3>2
      <4>2. currentTime' <= QpcToTicks(recordedBy[Covered] + surplus + inHand)
        BY <2>1, <3>2
      <4>3. QED
        BY <4>1, <4>2
    <3>3. QED
      BY <3>1, <3>2
  <2>5. currentTime' \in Nat
    <3>1. frames \in Nat /\ currentTime \in Nat
      OBVIOUS
    <3>2. TicksFromAudioFrames(frames) \in Nat
      BY <3>1, ConversionTypes
    <3>3. QED
      BY <2>1, <3>1, <3>2
  <2>6. currentTime' <= QpcToTicks(recorded + surplus')
    BY <2>3, <2>4, <2>5, BoundGrows
  <2>7. silence' => Covered' <= lastAdvance'
    BY <2>1, <2>2
  <2>8. QED
    BY <2>1, <2>4, <2>6, <2>7
<1>24. ASSUME Advanced PROVE AheadInv'
  <2>1. Covered' = Covered /\ Covered <= now /\ ~silence'
    BY <1>24 DEF Advanced
  <2> HIDE DEF Covered
  <2>2. QED
    BY <1>24, <2>1 DEF Advanced
<1>25. ASSUME LoopThrows PROVE AheadInv'
  BY <1>25 DEF LoopThrows
<1>26. ASSUME FallbackAdvance PROVE AheadInv'
  <2>1. /\ FallbackFrames \in Nat
        /\ TicksFromAudioFrames(FallbackFrames) \in Nat
        /\ TicksFromAudioFrames(FallbackFrames) <= SilenceTicks
    BY TimelineAssumption, SilenceLastsNoLonger, ConversionTypes DEF FallbackFrames
  <2>2. now - lastAdvance \in Nat /\ QpcToTicks(now - lastAdvance) \in Nat
    <3>1. now - lastAdvance \in Nat
      OBVIOUS
    <3>2. QED
      BY <3>1, ConversionTypes
  <2>3. TicksFromAudioFrames(FallbackFrames) <= QpcToTicks(now - lastAdvance)
    BY <1>26, <2>1, <2>2, TimelineAssumption DEF FallbackAdvance
  <2>4. /\ loop = "fallback" /\ loop' = "advance" /\ frames' = FallbackFrames /\ silence' = TRUE
        /\ lastAdvance' = now /\ inHand' = (now - lastAdvance) - Gained(lastAdvance, now)
        /\ UNCHANGED << now, currentTime, recordedBy, filledTo, surplus, deviceEnd >>
    BY <1>26 DEF FallbackAdvance
  <2>5. loop' \in InHand
    BY <2>4
  <2>6. QED
    BY <2>1, <2>3, <2>4, <2>5, SilenceBound
<1>27. ASSUME LoopEnds PROVE AheadInv'
  BY <1>27 DEF LoopEnds
<1>28. ASSUME FrameReads PROVE AheadInv'
  BY <1>28 DEF FrameReads, FramesArrive
<1>29. ASSUME FrameReadsCounter PROVE AheadInv'
  BY <1>29 DEF FrameReadsCounter
<1>30. ASSUME FrameReadsRelative PROVE AheadInv'
  BY <1>30 DEF FrameReadsRelative
<1>31. ASSUME UNCHANGED vars PROVE AheadInv'
  BY <1>31 DEF vars
<1>32. QED
  BY <1>1, <1>2, <1>3, <1>4, <1>5, <1>6, <1>7, <1>8, <1>9, <1>10, <1>11, <1>12,
     <1>13, <1>14, <1>15, <1>16, <1>17, <1>18, <1>19, <1>20, <1>21, <1>22,
     <1>23, <1>24, <1>25, <1>26, <1>27, <1>28, <1>29, <1>30, <1>31
     DEF Next, Control, AudioThread, FrameThread

-----------------------------------------------------------------------------
(* The theorems.                                                            *)

\* The other invariants hold at first.
LEMMA InvariantsInit == Init => VideoInv /\ AheadInv /\ OverlapInv
<1> SUFFICES ASSUME Init PROVE VideoInv /\ AheadInv /\ OverlapInv
  OBVIOUS
<1>1. QpcToTicks(0) \in Nat
  BY ConversionTypes
<1>2. ~isRunning /\ ~isPaused /\ ~fromAudio /\ ~silence
  BY DEF Init
<1>3. recordedBy[now] = 0 /\ now \in 0..MaxTime
  BY TimelineAssumption DEF Init
<1>4. QED
  BY <1>1, <1>2, <1>3 DEF Init, VideoInv, AheadInv, OverlapInv, InHand, recorded, Pausing

\* The five invariants, the first two by themselves and the others relative to them.
THEOREM Invariance == Spec => [](ControlInv /\ HistoryInv /\ VideoInv /\ AheadInv /\ OverlapInv)
<1>1. Init => ControlInv /\ HistoryInv /\ VideoInv /\ AheadInv /\ OverlapInv
  BY ControlInvInit, InvariantsInit
<1>2. ControlInv /\ HistoryInv /\ VideoInv /\ AheadInv /\ OverlapInv /\ [Next]_vars
          => ControlInv' /\ HistoryInv' /\ VideoInv' /\ AheadInv' /\ OverlapInv'
  BY ControlInvStep, HistoryInvStep, VideoInvStep, AheadInvStep, OverlapInvStep
<1>3. QED
  BY <1>1, <1>2, PTL DEF Spec

\* The state keeps its shape; no noted time lies in the future.
THEOREM TypeCorrect == Spec => []TypeOK
<1>1. ControlInv => TypeOK
  BY DEF ControlInv
<1>2. QED
  BY <1>1, Invariance, PTL

\* SimpleMediaClock::GetRelativeTime leaves out exactly the pauses, at any frequency.
THEOREM RelativeTimeIsRecordedCorrect == Spec => []RelativeTimeIsRecorded
<1>1. ControlInv => RelativeTimeIsRecorded
  <2> SUFFICES ASSUME ControlInv, isRunning, ~ClockLocked, session # "draining"
               PROVE  GetRelativeTime(now) = QpcToTicks(recorded)
    BY DEF RelativeTimeIsRecorded
  <2>1. now \in 0..now
    BY DEF ControlInv, TypeOK
  <2>2. QED
    BY <2>1, RelativeTime
<1>2. QED
  BY <1>1, Invariance, PTL

\* However its conversions round and whenever the device hands over its packets, the audio
\* clock overtakes the recording only by the surplus (RunCaptureLoop, AdvanceByAudioSamples).
THEOREM ClockNeverAheadCorrect == Spec => []ClockNeverAhead
<1>1. AheadInv => ClockNeverAhead
  BY DEF AheadInv, ClockNeverAhead
<1>2. QED
  BY <1>1, Invariance, PTL

\* Only a pause makes a sample be written over another (RunCaptureLoop against Pause).
THEOREM OverlapOnlyByPauseCorrect == Spec => []OverlapOnlyByPause
<1>1. OverlapInv => OverlapOnlyByPause
  BY DEF OverlapInv, OverlapOnlyByPause
<1>2. QED
  BY <1>1, Invariance, PTL

\* Nothing advances the clock after Reset.
THEOREM ResetStandsCorrect == Spec => []ResetStands
<1>1. ControlInv => ResetStands
  BY DEF ControlInv, ThreadsInv, Live, ResetStands
<1>2. QED
  BY <1>1, Invariance, PTL

\* Video time goes back only where the audio clock takes over, or a frame slept through a
\* pause (GetFrameTimestamp).
THEOREM VideoTimeForwardCorrect == Spec => VideoTimeForward
<1>1. ControlInv /\ HistoryInv /\ VideoInv /\ [Next]_vars
        => [frameStamp' < frameStamp => \/ fromAudio' /\ ~fromAudio
                                        \/ ~fromAudio' /\ Gained(frameQpc, now) < now - frameQpc]_vars
  <2> SUFFICES ASSUME ControlInv, HistoryInv, VideoInv, [Next]_vars, frameStamp' < frameStamp
               PROVE  \/ fromAudio' /\ ~fromAudio
                      \/ ~fromAudio' /\ Gained(frameQpc, now) < now - frameQpc
    OBVIOUS
  <2>1. frameStamp \in Nat
    BY DEF ControlInv, TypeOK
  <2>2. FrameReads \/ FrameReadsRelative \/ frameStamp' = frameStamp
    <3> USE DEF video
    <3>1. CASE Control
      BY <3>1 DEF Control, ClockStart, LoopStart, SetActive, Pause, PauseEnds, ClockIsPaused,
         SetPaused, Resume, ResumeEnds, SetResumed, Stop, AudioStopped, LastPauseEnds, ClockReset
    <3>2. CASE AudioThread
      BY <3>2 DEF AudioThread, LoopEnters, ReadPaused, ReadSamples, ReadNothing, FillSilence,
         Stamp, Write, AdvanceTests, AdvanceAdds, Advanced, LoopThrows, FallbackAdvance, LoopEnds
    <3>3. CASE Tick \/ FrameReadsCounter \/ UNCHANGED vars
      BY <3>3 DEF Tick, FrameReadsCounter, vars
    <3>4. QED
      BY <3>1, <3>2, <3>3 DEF Next, FrameThread
  <2>3. CASE FrameReads
    <3>1. isRunning
      BY <2>3 DEF FrameReads, FramesArrive, ControlInv, ClockInv
    <3>2. CASE currentTime > 0
      <4>1. frameStamp' = currentTime /\ fromAudio' /\ currentTime \in Nat
        BY <2>3, <3>2 DEF FrameReads, ControlInv, TypeOK
      <4>2. ~fromAudio
        BY <2>1, <3>1, <4>1 DEF VideoInv
      <4>3. QED
        BY <4>1, <4>2
    <3>3. CASE ~(currentTime > 0)
      BY <2>1, <2>3, <3>3 DEF FrameReads
    <3>4. QED
      BY <3>2, <3>3
  <2>4. CASE FrameReadsRelative
    <3>1. /\ isRunning /\ ~ClockLocked /\ session # "draining"
          /\ frameQpc \in 0..now /\ now \in Nat /\ frameQpc \in Nat
      BY <2>4 DEF FrameReadsRelative, ControlInv, TypeOK, ThreadsInv, ClockInv, Live
    <3>2. /\ frameStamp' = GetRelativeTime(frameQpc) /\ ~fromAudio'
          /\ GetRelativeTime(frameQpc) \in Nat
          /\ Gained(frameQpc, now) >= now - frameQpc =>
                QpcToTicks(recordedBy[frameQpc]) <= GetRelativeTime(frameQpc)
      BY <2>4, <3>1, RelativeTime DEF FrameReadsRelative
    <3>3. recordedBy[frameQpc] \in Nat /\ QpcToTicks(recordedBy[frameQpc]) \in Nat
      <4>1. recordedBy[frameQpc] \in Nat
        BY <3>1, TimelineAssumption DEF ControlInv, TypeOK
      <4>2. QED
        BY <4>1, ConversionTypes
    <3>4. frameStamp <= QpcToTicks(recordedBy[frameQpc])
      BY <2>4 DEF FrameReadsRelative, VideoInv
    <3>5. Gained(frameQpc, now) \in Int
      BY <3>1 DEF HistoryInv
    <3>6. CASE Gained(frameQpc, now) >= now - frameQpc
      BY <2>1, <3>2, <3>3, <3>4, <3>6
    <3>7. CASE Gained(frameQpc, now) < now - frameQpc
      BY <3>2, <3>7
    <3>8. QED
      BY <3>1, <3>5, <3>6, <3>7
  <2>5. QED
    BY <2>1, <2>2, <2>3, <2>4
<1>2. QED
  BY <1>1, Invariance, PTL DEF Spec, VideoTimeForward
=============================================================================
