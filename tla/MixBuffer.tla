------------------------------- MODULE MixBuffer -------------------------------
(***************************************************************************)
(* The buffer of microphone frames that CompositeAudioCaptureSource mixes  *)
(* into the system audio: filled by input threads, read by the loopback    *)
(* thread, each call under m_inputBufferMutex.                             *)
(*                                                                         *)
(* Samples are left out.  A frame is its index in the buffer; the position *)
(* of the next read is offset + frac / OutRate, in exact arithmetic where  *)
(* the code uses a double.                                                 *)
(***************************************************************************)
EXTENDS Integers

CONSTANTS OutRate,       \* sample rate of the loopback format
          Rates,         \* sample rates of the inputs
          CompactFrames, \* a read part of 4096 frames is always erased
          MaxPacket      \* bound: frames in one packet of either source

ASSUME BufferAssumption ==
    /\ OutRate \in Nat \ {0}
    /\ Rates \subseteq Nat \ {0}
    /\ CompactFrames \in Nat \ {0}
    /\ MaxPacket \in Nat

VARIABLES len,       \* frames in m_inputSamples
          offset,    \* m_inputReadFrameOffset
          frac,      \* m_inputReadFrameFraction, in 1 / OutRate
          rate,      \* m_inputSampleRate, 0 when the buffer was cleared
          heard,     \* history: leading frames of the buffer that were mixed
          overflowed \* history: frames were dropped since the buffer was cleared

buffer == << len, offset, frac, rate, heard, overflowed >>

Larger(a, b)  == IF a < b THEN b ELSE a
Smaller(a, b) == IF a < b THEN a ELSE b

BufferInit ==
    /\ len = 0 /\ offset = 0 /\ frac = 0 /\ rate = 0
    /\ heard = 0 /\ overflowed = FALSE

\* ClearInputBuffer.
Clear ==
    /\ len' = 0 /\ offset' = 0 /\ frac' = 0 /\ rate' = 0
    /\ heard' = 0 /\ overflowed' = FALSE

\* Mutant: the read part is erased only when all of it was read.
CompactsAtEnd(total, read) == read >= total

\* CompactInputBuffer erases the frames read when they are many, or half of all.
Compacts(total, read) ==
    /\ read # 0
    /\ read >= CompactFrames \/ read * 2 >= total

\* len, offset and heard after CompactInputBuffer.
Compacted(total, read, known) ==
    IF Compacts(total, read)
    THEN LET gone == Smaller(read, total)
         IN  << total - gone, 0, Larger(known - gone, 0) >>
    ELSE << total, read, known >>

\* 500 milliseconds, and one frame at least.
MaxFrames(r) == Larger((r * 500) \div 1000, 1)

\* OnInputSample: a packet of n frames of rate r, in a buffer emptied first if that is
\* another format.  TrimInputBuffer compacts, and then drops the oldest frames, read
\* or not, and begins to read at the first frame kept.
Insert(n, r) ==
    LET fresh == rate # r
        c     == Compacted((IF fresh THEN 0 ELSE len) + n,
                           IF fresh THEN 0 ELSE offset,
                           IF fresh THEN 0 ELSE heard)
        drop  == c[1] - MaxFrames(r)
    IN  /\ rate' = r
        /\ \/ /\ drop <= 0
              /\ len' = c[1] /\ offset' = c[2] /\ heard' = c[3]
              /\ frac' = IF fresh THEN 0 ELSE frac
              /\ overflowed' = (~fresh /\ overflowed)
           \/ /\ drop > 0
              /\ len' = MaxFrames(r) /\ offset' = 0 /\ heard' = Larger(c[3] - drop, 0)
              /\ frac' = 0
              /\ overflowed' = TRUE

\* The input frame under output frame k.
FrameUnder(k) == offset + (frac + k * rate) \div OutRate

\* The loop of TryMixInput ends before output frame k of n: the input is used up, or it
\* has one frame left that the frames after k need to interpolate.
EndsBefore(k, n) ==
    \/ FrameUnder(k) >= len
    \/ FrameUnder(k) + 1 >= len /\ rate # OutRate /\ k + 1 < n

\* Output frames, of n, that input is mixed into.
Mixed(n) ==
    IF rate = 0 \/ len = 0 \/ offset >= len THEN 0
    ELSE CHOOSE m \in 0..n : /\ m = n \/ EndsBefore(m, n)
                             /\ \A k \in 0..m-1 : ~EndsBefore(k, n)

\* Mutant: the reader stays on the last frame read.
MixRepeats(n) ==
    LET m == Mixed(n)
        p == frac + m * rate
        c == Compacted(len, offset + Larger(p \div OutRate - 1, 0),
                       Larger(heard, FrameUnder(m - 1) + 1))
    IN  /\ m > 0
        /\ frac' = p % OutRate
        /\ len' = c[1] /\ offset' = c[2] /\ heard' = c[3]
        /\ UNCHANGED << rate, overflowed >>

\* TryMixInput into a packet of n output frames.
Mix(n) ==
    LET m == Mixed(n)
        p == frac + m * rate
        c == Compacted(len, offset + p \div OutRate, Larger(heard, FrameUnder(m - 1) + 1))
    IN  /\ m > 0
        /\ frac' = p % OutRate
        /\ len' = c[1] /\ offset' = c[2] /\ heard' = c[3]
        /\ UNCHANGED << rate, overflowed >>

Packets == 1..MaxPacket

BufferNext ==
    \/ Clear
    \/ \E n \in Packets, r \in Rates : Insert(n, r)
    \/ \E n \in Packets : Mix(n)

BufferSpec == BufferInit /\ [][BufferNext]_buffer
-----------------------------------------------------------------------------
BufferTypeOK ==
    /\ len \in Nat /\ offset \in Nat /\ heard \in Nat
    /\ frac \in 0..(OutRate - 1)
    /\ rate \in Rates \cup {0}
    /\ overflowed \in BOOLEAN

\* Whatever the two devices' pace, half a second of microphone is held at most, what was
\* read and kept is less than half of it and less than CompactFrames: the buffer, and the
\* delay of the microphone against the system audio, cannot grow.
BufferBounded ==
    /\ len <= (IF rate = 0 THEN 0 ELSE MaxFrames(rate))
    /\ offset # 0 => offset < CompactFrames /\ offset * 2 < len

\* A microphone frame is mixed into the recording once, unless the buffer overflowed:
\* then the drop of the oldest frames may set the reader back over frames already
\* mixed, but by fewer than CompactFrames.
MixedOnce ==
    \/ heard <= offset + (IF frac = 0 THEN 0 ELSE 1)
    \/ overflowed /\ heard <= CompactFrames
=============================================================================
