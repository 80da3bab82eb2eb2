---------------------- MODULE CompositeAudioSourceProofs ----------------------
(***************************************************************************)
(* Proofs about the composite audio source, for any number of input        *)
(* sources, sample rates and packet sizes.                                 *)
(***************************************************************************)
EXTENDS CompositeAudioSource, NaturalsInduction, WellFoundedInduction, TLAPS

-----------------------------------------------------------------------------
(* Arithmetic.                                                              *)

\* A set of natural numbers has a least one.
LEMMA LeastNumber ==
    ASSUME NEW T \in SUBSET Nat, NEW n \in T
    PROVE  \E m \in T : \A k \in 0..(m - 1) : k \notin T
<1> DEFINE R == {ss \in Nat \X Nat : ss[1] < ss[2]}
<1>1. IsWellFoundedOn(R, Nat)
  BY NatLessThanWellFounded DEF OpToRel
<1> HIDE DEF R
<1>2. PICK m \in T : \A y \in T : ~(<< y, m >> \in R)
  BY <1>1, WFMin
<1>3. \A k \in 0..(m - 1) : k \notin T
  <2> SUFFICES ASSUME NEW k \in 0..(m - 1), k \in T PROVE FALSE
    OBVIOUS
  <2>1. << k, m >> \in R
    BY DEF R
  <2>2. QED
    BY <1>2, <2>1
<1>4. QED
  BY <1>3

\* A number is made of its quotient and its remainder.
LEMMA Division ==
    ASSUME NEW x \in Nat
    PROVE  /\ x \div OutRate \in Nat
           /\ x % OutRate \in 0..(OutRate - 1)
           /\ x = OutRate * (x \div OutRate) + (x % OutRate)
BY BufferAssumption

\* Natural numbers are closed under products.
LEMMA Product ==
    ASSUME NEW a \in Nat, NEW b \in Nat
    PROVE  a * b \in Nat
OBVIOUS

\* Products are monotone.
LEMMA Monotone ==
    ASSUME NEW a \in Int, NEW b \in Int, a <= b
    PROVE  OutRate * a <= OutRate * b
BY BufferAssumption

\* A read position that advances leaves the frame it was in.
LEMMA ReadsOn ==
    ASSUME NEW x \in Nat, NEW y \in Nat, x < y
    PROVE  x \div OutRate + 1 <= y \div OutRate + (IF y % OutRate = 0 THEN 0 ELSE 1)
<1> DEFINE a == x \div OutRate
           b == y \div OutRate
           c == y % OutRate
<1>1. a \in Nat /\ b \in Nat /\ c \in 0..(OutRate - 1) /\ OutRate \in Nat \ {0}
  BY Division, BufferAssumption
<1>2. OutRate * a <= x /\ y = OutRate * b + c
  BY Division, BufferAssumption
<1> HIDE DEF a, b, c
<1>3. OutRate * a \in Nat /\ OutRate * b \in Nat
  BY <1>1, Product
<1>4. OutRate * a < OutRate * b + c
  BY <1>1, <1>2, <1>3
<1>5. a <= b
  <2> SUFFICES ASSUME b + 1 <= a PROVE FALSE
    BY <1>1
  <2>1. OutRate * (b + 1) <= OutRate * a
    BY <1>1, Monotone
  <2>2. OutRate * (b + 1) = OutRate * b + OutRate
    BY <1>1
  <2>3. QED
    BY <1>1, <1>3, <1>4, <2>1, <2>2
<1>6. c = 0 => a < b
  <2> SUFFICES ASSUME c = 0, b <= a PROVE FALSE
    BY <1>1
  <2>1. OutRate * b <= OutRate * a
    BY <1>1, Monotone
  <2>2. QED
    BY <1>3, <1>4, <2>1
<1>7. QED
  BY <1>1, <1>5, <1>6 DEF a, b, c

-----------------------------------------------------------------------------
(* The buffer.                                                              *)

\* What CompactInputBuffer leaves: less than it had, a bounded read part, and the frames
\* that were mixed still behind the reader, or one of them under it.
LEMMA CompactedKeeps ==
    ASSUME NEW total \in Nat, NEW read \in Nat, NEW known \in Nat, known <= total
    PROVE  LET c == Compacted(total, read, known)
           IN  /\ c[1] \in Nat /\ c[1] <= total
               /\ c[2] \in Nat /\ (c[2] # 0 => c[2] < CompactFrames /\ c[2] * 2 < c[1])
               /\ c[3] \in Nat /\ c[3] <= c[1] /\ c[3] <= known
               /\ known <= read => c[3] <= c[2]
               /\ known <= read + 1 => c[3] <= c[2] + 1
BY BufferAssumption DEF Compacted, Compacts, Smaller, Larger

\* Mixed(n) is the number of frames that it describes.
LEMMA MixedFrames ==
    ASSUME BufferTypeOK, NEW n \in Nat
    PROVE  /\ Mixed(n) \in 0..n
           /\ Mixed(n) > 0 => rate # 0 /\ \A k \in 0..(Mixed(n) - 1) : ~EndsBefore(k, n)
<1>1. CASE rate = 0 \/ len = 0 \/ offset >= len
  BY <1>1 DEF Mixed
<1>2. CASE ~(rate = 0 \/ len = 0 \/ offset >= len)
  <2> DEFINE Ends(m) == m = n \/ EndsBefore(m, n)
             Good(m) == Ends(m) /\ \A k \in 0..(m - 1) : ~EndsBefore(k, n)
             T == {m \in 0..n : Ends(m)}
  <2> HIDE DEF Ends
  <2>1. T \in SUBSET Nat /\ n \in T
    BY DEF Ends
  <2>2. PICK m \in T : \A k \in 0..(m - 1) : k \notin T
    BY <2>1, LeastNumber
  <2>3. m \in 0..n /\ Ends(m) /\ \A k \in 0..(m - 1) : k \in 0..n /\ ~Ends(k)
    BY <2>1, <2>2
  <2>4. \E q \in 0..n : Good(q)
    BY <2>3 DEF Ends
  <2>5. Mixed(n) = CHOOSE q \in 0..n : Good(q)
    BY <1>2 DEF Mixed, Ends
  <2>6. Mixed(n) \in 0..n /\ Good(Mixed(n))
    BY <2>4, <2>5
  <2>7. QED
    BY <1>2, <2>6
<1>3. QED
  BY <1>1, <1>2

\* The buffer's invariant: what is known to be mixed is in the buffer.
BufferInv == BufferTypeOK /\ BufferBounded /\ MixedOnce /\ heard <= len

\* An emptied buffer satisfies the invariant.
LEMMA ClearKeeps ==
    ASSUME Clear
    PROVE  BufferInv'
<1>1. overflowed' \in BOOLEAN
  BY DEF Clear
<1>2. BufferTypeOK'
  BY <1>1, BufferAssumption DEF Clear, BufferTypeOK
<1>3. BufferBounded' /\ MixedOnce' /\ (heard <= len)'
  BY DEF Clear, BufferBounded, MixedOnce
<1>4. QED
  BY <1>2, <1>3 DEF BufferInv

\* The buffer's limit is at least one frame.
LEMMA MaxFramesPositive ==
    ASSUME NEW r \in Nat
    PROVE  MaxFrames(r) \in Nat \ {0}
BY DEF MaxFrames, Larger

\* Inserting a packet, with its trim, keeps the buffer's invariant.
LEMMA InsertKeeps ==
    ASSUME BufferInv, NEW n \in Nat, NEW r \in Rates, Insert(n, r)
    PROVE  BufferInv'
<1> DEFINE fresh == rate # r
           total == (IF fresh THEN 0 ELSE len) + n
           read  == IF fresh THEN 0 ELSE offset
           known == IF fresh THEN 0 ELSE heard
           c     == Compacted(total, read, known)
           drop  == c[1] - MaxFrames(r)
<1>1. r \in Nat \ {0} /\ MaxFrames(r) \in Nat \ {0}
  BY MaxFramesPositive, BufferAssumption
<1>2. total \in Nat /\ read \in Nat /\ known \in Nat /\ known <= total
  BY DEF BufferInv, BufferTypeOK
<1>3. /\ c[1] \in Nat
      /\ c[2] \in Nat /\ (c[2] # 0 => c[2] < CompactFrames /\ c[2] * 2 < c[1])
      /\ c[3] \in Nat /\ c[3] <= c[1] /\ c[3] <= known
      /\ known <= read => c[3] <= c[2]
      /\ known <= read + 1 => c[3] <= c[2] + 1
  <2> HIDE DEF total, read, known
  <2>1. QED
    BY <1>2, CompactedKeeps
<1>4. /\ rate' = r
      /\ overflowed' \in BOOLEAN
      /\ \/ /\ drop <= 0
            /\ len' = c[1] /\ offset' = c[2] /\ heard' = c[3]
            /\ frac' = IF fresh THEN 0 ELSE frac
            /\ ~fresh /\ overflowed => overflowed'
         \/ /\ drop > 0
            /\ len' = MaxFrames(r) /\ offset' = 0 /\ heard' = Larger(c[3] - drop, 0)
            /\ frac' = 0
            /\ overflowed'
  BY Zenon DEF Insert
<1>5. \/ known <= read + (IF fresh \/ frac = 0 THEN 0 ELSE 1)
      \/ ~fresh /\ overflowed /\ known <= CompactFrames
  <2>1. CASE fresh
    BY <2>1
  <2>2. CASE ~fresh
    BY <2>2 DEF BufferInv, MixedOnce
  <2>3. QED
    BY <2>1, <2>2
<1>6. frac \in 0..(OutRate - 1) /\ overflowed \in BOOLEAN
  BY DEF BufferInv, BufferTypeOK
<1> HIDE DEF total, read, known, c, fresh
<1>7. BufferTypeOK'
  BY <1>1, <1>3, <1>4, <1>6, BufferAssumption DEF BufferTypeOK, Larger
<1>8. BufferBounded'
  BY <1>1, <1>3, <1>4 DEF BufferBounded
<1>9. MixedOnce'
  <2>1. \/ c[3] <= c[2] + (IF fresh \/ frac = 0 THEN 0 ELSE 1)
        \/ ~fresh /\ overflowed /\ c[3] <= CompactFrames
    BY <1>2, <1>3, <1>5, BufferAssumption
  <2>2. CASE drop <= 0
    <3>1. /\ heard' = c[3] /\ offset' = c[2]
          /\ frac' = IF fresh THEN 0 ELSE frac
          /\ ~fresh /\ overflowed => overflowed'
      BY <1>1, <1>3, <1>4, <2>2
    <3>2. CASE fresh
      BY <1>3, <2>1, <3>1, <3>2 DEF MixedOnce
    <3>3. CASE ~fresh
      BY <1>3, <1>6, <2>1, <3>1, <3>3 DEF MixedOnce
    <3>4. QED
      BY <3>2, <3>3
  <2>3. CASE drop > 0
    <3>1. c[3] <= CompactFrames
      BY <1>3, <2>1, BufferAssumption
    <3>2. QED
      BY <1>1, <1>3, <1>4, <2>3, <3>1, BufferAssumption DEF MixedOnce, Larger
  <2>4. QED
    BY <1>1, <1>3, <2>2, <2>3
<1>10. (heard <= len)'
  BY <1>1, <1>3, <1>4 DEF Larger
<1>11. QED
  BY <1>7, <1>8, <1>9, <1>10 DEF BufferInv

\* A mix, with its compaction, keeps the buffer's invariant.
LEMMA MixKeeps ==
    ASSUME BufferInv, NEW n \in Nat, Mix(n)
    PROVE  BufferInv'
<1> DEFINE m     == Mixed(n)
           p     == frac + m * rate
           q     == frac + (m - 1) * rate
           read  == offset + p \div OutRate
           known == Larger(heard, FrameUnder(m - 1) + 1)
           c     == Compacted(len, read, known)
<1>1. /\ m > 0
      /\ frac' = p % OutRate
      /\ len' = c[1] /\ offset' = c[2] /\ heard' = c[3]
      /\ rate' = rate /\ overflowed' = overflowed
  BY DEF Mix
<1>2. /\ len \in Nat /\ offset \in Nat /\ heard \in Nat /\ heard <= len
      /\ frac \in Nat /\ overflowed \in BOOLEAN
      /\ rate \in Rates \cup {0} /\ rate \in Nat
  BY BufferAssumption DEF BufferInv, BufferTypeOK
<1>3. m \in 1..n /\ rate \in Nat \ {0} /\ ~EndsBefore(m - 1, n)
  <2>1. m \in 0..n /\ rate # 0 /\ \A k \in 0..(m - 1) : ~EndsBefore(k, n)
    BY <1>1, MixedFrames DEF BufferInv
  <2> HIDE DEF m
  <2>2. QED
    BY <1>1, <1>2, <2>1
<1>4. FrameUnder(m - 1) = offset + q \div OutRate
  BY DEF FrameUnder
<1>5. FrameUnder(m - 1) < len
  <2>1. ~(FrameUnder(m - 1) >= len)
    BY <1>3 DEF EndsBefore
  <2>2. q \in Nat
    <3> HIDE DEF m
    <3>1. QED
      BY <1>2, <1>3, Product
  <2>3. q \div OutRate \in Nat
    BY <2>2, Division
  <2> HIDE DEF q, m
  <2>4. QED
    BY <1>2, <1>4, <2>1, <2>3
<1> HIDE DEF m
<1>6. q \in Nat /\ p \in Nat /\ q < p
  <2>1. m - 1 \in Nat /\ m \in Nat
    BY <1>3
  <2>2. (m - 1) * rate \in Nat /\ m * rate = (m - 1) * rate + rate
    BY <1>3, <2>1, Product
  <2>3. QED
    BY <1>2, <1>3, <2>2
<1> HIDE DEF p, q
<1>7. /\ q \div OutRate \in Nat /\ p \div OutRate \in Nat /\ p % OutRate \in 0..(OutRate - 1)
      /\ q \div OutRate + 1 <= p \div OutRate + (IF p % OutRate = 0 THEN 0 ELSE 1)
  BY <1>6, Division, ReadsOn
<1>8. known \in Nat /\ known <= len /\ read \in Nat
  BY <1>2, <1>4, <1>5, <1>7 DEF Larger
<1>9. /\ c[1] \in Nat /\ c[1] <= len
      /\ c[2] \in Nat /\ (c[2] # 0 => c[2] < CompactFrames /\ c[2] * 2 < c[1])
      /\ c[3] \in Nat /\ c[3] <= c[1] /\ c[3] <= known
      /\ known <= read => c[3] <= c[2]
      /\ known <= read + 1 => c[3] <= c[2] + 1
  <2> HIDE DEF known, read
  <2>1. QED
    BY <1>2, <1>8, CompactedKeeps
<1>10. \/ known <= read + (IF p % OutRate = 0 THEN 0 ELSE 1)
       \/ overflowed /\ known <= CompactFrames
  <2>1. FrameUnder(m - 1) + 1 <= read + (IF p % OutRate = 0 THEN 0 ELSE 1)
    BY <1>2, <1>4, <1>7
  <2>2. CASE heard <= FrameUnder(m - 1) + 1
    BY <1>2, <1>4, <1>7, <2>1, <2>2 DEF Larger
  <2>3. CASE heard > FrameUnder(m - 1) + 1
    <3>1. known = heard
      BY <1>2, <1>4, <1>7, <2>3 DEF Larger
    <3>2. \/ heard <= offset + 1
          \/ overflowed /\ heard <= CompactFrames
      BY <1>2 DEF BufferInv, MixedOnce
    <3>3. FrameUnder(m - 1) + 1 >= offset + 1
      BY <1>2, <1>4, <1>7
    <3>4. QED
      BY <1>2, <1>4, <1>7, <2>3, <3>1, <3>2, <3>3
  <2>4. QED
    BY <1>2, <1>4, <1>7, <2>2, <2>3
<1> HIDE DEF known, read, c
<1>11. BufferTypeOK'
  BY <1>1, <1>2, <1>7, <1>9 DEF BufferTypeOK
<1>12. BufferBounded'
  <2>1. len <= (IF rate = 0 THEN 0 ELSE MaxFrames(rate)) /\ MaxFrames(rate) \in Nat
    BY <1>2, MaxFramesPositive DEF BufferInv, BufferBounded
  <2>2. QED
    BY <1>1, <1>2, <1>3, <1>9, <2>1 DEF BufferBounded
<1>13. MixedOnce'
  BY <1>1, <1>2, <1>7, <1>8, <1>9, <1>10, BufferAssumption DEF MixedOnce
<1>14. (heard <= len)'
  BY <1>1, <1>9
<1>15. QED
  BY <1>11, <1>12, <1>13, <1>14 DEF BufferInv

-----------------------------------------------------------------------------
(* The sources.                                                             *)

Running(s) == state[s] = "running"

\* The types of the control state.
SourcesTyped ==
    /\ loopback \in States /\ state \in [Sources -> States]
    /\ input \in Sources \cup {NoSource}
    /\ new \in Sources \cup {NoSource} /\ old \in Sources \cup {NoSource}
    /\ silent \subseteq Sources /\ callback \in BOOLEAN /\ running \in BOOLEAN
    /\ pc \in Points
    /\ held \subseteq Sources
    /\ new # NoSource => pc \in {"start", "swap"}
    /\ old # NoSource => pc = "stopOld"

\* The three places where a source may be are three sources, and no other is running.
Placed ==
    /\ input # NoSource => state[input] # "none"
    /\ new # NoSource => new # input
    /\ old # NoSource => old # input
    /\ \A s \in Sources : Running(s) => s \in {input, new, old}

\* How far the sources follow m_isRunning at each point of the calls.
Followed ==
    /\ running => loopback = "running"
    /\ pc \in {"start", "startInput"} => running
    /\ pc \in {"stopInput", "stopLoopback"} => ~running
    /\ loopback = "none" => pc = "idle" /\ input = NoSource
    /\ pc \in {"start", "swap"} => new # NoSource
    /\ pc = "start" => state[new] = "ready"
    /\ pc = "swap" => state[new] = (IF running THEN "running" ELSE "ready")
    /\ loopback = "ready" /\ pc # "stopLoopback" /\ input # NoSource => state[input] = "ready"
    /\ pc = "startInput" /\ input # NoSource => state[input] = "ready"
    /\ input # NoSource /\ pc \notin {"startInput", "stopInput"} => (Running(input) <=> running)

\* Whose frames the buffer holds.
HeldFrom ==
    /\ pc # "clear" => held \subseteq {input, new, old}
    /\ pc = "start" => new \notin held

SourceInv == SourcesTyped /\ Placed /\ Followed /\ HeldFrom

\* The sources' invariant holds at first.
LEMMA SourceInvInit == Init => SourceInv
BY SourceAssumption
   DEF Init, SourceInv, SourcesTyped, Placed, Followed, HeldFrom, Running, States, Points

\* Each step keeps the sources' invariant.
LEMMA SourceInvStep ==
    ASSUME SourceInv, [Next]_vars
    PROVE  SourceInv'
<1> USE SourceAssumption DEF SourceInv, SourcesTyped, Placed, Followed, HeldFrom, Running,
        States, Points, Become, GoTo, sources, call
<1>1. ASSUME InitializeFails PROVE SourceInv'
  BY <1>1 DEF InitializeFails
<1>2. ASSUME InitializeSource PROVE SourceInv'
  BY <1>2 DEF InitializeSource
<1>3. ASSUME SelectDevice PROVE SourceInv'
  BY <1>3 DEF SelectDevice
<1>4. ASSUME SelectNothing PROVE SourceInv'
  BY <1>4 DEF SelectNothing
<1>5. ASSUME CreateFails PROVE SourceInv'
  BY <1>5 DEF CreateFails
<1>6. ASSUME Create PROVE SourceInv'
  BY <1>6 DEF Create
<1>7. ASSUME StartNew PROVE SourceInv'
  BY <1>7 DEF StartNew
<1>8. ASSUME StartNewFails PROVE SourceInv'
  BY <1>8 DEF StartNewFails
<1>9. ASSUME Swap PROVE SourceInv'
  BY <1>9 DEF Swap
<1>10. ASSUME StopOld PROVE SourceInv'
  BY <1>10 DEF StopOld
<1>11. ASSUME ClearInputBuffer PROVE SourceInv'
  BY <1>11 DEF ClearInputBuffer
<1>12. ASSUME StartLoopback PROVE SourceInv'
  BY <1>12 DEF StartLoopback
<1>13. ASSUME StartLoopbackFails PROVE SourceInv'
  BY <1>13 DEF StartLoopbackFails
<1>14. ASSUME StartInput PROVE SourceInv'
  BY <1>14 DEF StartInput
<1>15. ASSUME StartInputFails PROVE SourceInv'
  BY <1>15 DEF StartInputFails
<1>16. ASSUME Stop PROVE SourceInv'
  BY <1>16 DEF Stop
<1>17. ASSUME StopInput PROVE SourceInv'
  BY <1>17 DEF StopInput
<1>18. ASSUME StopLoopback PROVE SourceInv'
  BY <1>18 DEF StopLoopback
<1>19. ASSUME NEW set \in BOOLEAN, SetAudioSampleReadyCallback(set) PROVE SourceInv'
  BY <1>19 DEF SetAudioSampleReadyCallback
<1>20. ASSUME NEW s \in Sources, OnInputSample(s) PROVE SourceInv'
  BY <1>20 DEF OnInputSample
<1>21. ASSUME OnLoopbackSample PROVE SourceInv'
  BY <1>21 DEF OnLoopbackSample
<1>22. ASSUME UNCHANGED vars PROVE SourceInv'
  BY <1>22 DEF vars
<1>23. QED
  BY <1>1, <1>2, <1>3, <1>4, <1>5, <1>6, <1>7, <1>8, <1>9, <1>10, <1>11, <1>12,
     <1>13, <1>14, <1>15, <1>16, <1>17, <1>18, <1>19, <1>20, <1>21, <1>22 DEF Next, ControlStep

-----------------------------------------------------------------------------
(* The theorems.                                                            *)

\* Each step keeps the buffer's invariant.
LEMMA BufferInvStep ==
    ASSUME BufferInv, [Next]_vars
    PROVE  BufferInv'
<1>1. ASSUME UNCHANGED buffer PROVE BufferInv'
  BY <1>1 DEF buffer, BufferInv, BufferTypeOK, BufferBounded, MixedOnce
<1>2. ASSUME NEW n \in Packets, NEW r \in Rates, Insert(n, r) PROVE BufferInv'
  BY <1>2, InsertKeeps, BufferAssumption DEF Packets
<1>3. ASSUME NEW n \in Packets, Mix(n) PROVE BufferInv'
  BY <1>3, MixKeeps, BufferAssumption DEF Packets
<1>4. \/ UNCHANGED buffer
      \/ Clear
      \/ \E n \in Packets, r \in Rates : Insert(n, r)
      \/ \E n \in Packets : Mix(n)
  <2>1. CASE ControlStep
    BY <2>1 DEF ControlStep, InitializeFails, InitializeSource, SelectDevice, SelectNothing,
        CreateFails, Create, StartNew, StartNewFails, Swap, StopOld, ClearInputBuffer,
        StartLoopback, StartLoopbackFails, StartInput, StartInputFails, Stop, StopInput,
        StopLoopback, SetAudioSampleReadyCallback
  <2>2. CASE OnLoopbackSample \/ \E s \in Sources : OnInputSample(s)
    BY <2>2 DEF OnLoopbackSample, OnInputSample
  <2>3. CASE UNCHANGED vars
    BY <2>3 DEF vars
  <2>4. QED
    BY <2>1, <2>2, <2>3 DEF Next
<1>5. QED
  BY <1>1, <1>2, <1>3, <1>4, ClearKeeps

\* The buffer's invariant holds at first.
LEMMA BufferInvInit == Init => BufferInv
<1> SUFFICES ASSUME Init PROVE BufferInv
  OBVIOUS
<1>1. overflowed \in BOOLEAN
  BY DEF Init, BufferInit
<1>2. BufferTypeOK
  BY <1>1, BufferAssumption DEF Init, BufferInit, BufferTypeOK
<1>3. BufferBounded /\ MixedOnce /\ heard <= len
  BY DEF Init, BufferInit, BufferBounded, MixedOnce
<1>4. QED
  BY <1>2, <1>3 DEF BufferInv

\* Both invariants are inductive, each by itself.
THEOREM Invariance == Spec => [](BufferInv /\ SourceInv)
<1>1. Init => BufferInv /\ SourceInv
  BY BufferInvInit, SourceInvInit
<1>2. BufferInv /\ SourceInv /\ [Next]_vars => BufferInv' /\ SourceInv'
  BY BufferInvStep, SourceInvStep
<1>3. QED
  BY <1>1, <1>2, PTL DEF Spec

\* The state keeps its shape, for any packets, rates and number of switches.
THEOREM TypeCorrect == Spec => []TypeOK
<1>1. BufferInv /\ SourceInv => TypeOK
  BY DEF BufferInv, SourceInv, SourcesTyped, TypeOK
<1>2. QED
  BY <1>1, Invariance, PTL

\* Half a second of microphone is held at most, at every sample rate (TrimInputBuffer,
\* CompactInputBuffer).
THEOREM BufferBoundedCorrect == Spec => []BufferBounded
<1>1. BufferInv => BufferBounded
  BY DEF BufferInv
<1>2. QED
  BY <1>1, Invariance, PTL

\* A microphone frame is mixed once, at every pair of sample rates, an overflow of the
\* buffer apart (TryMixInput).
THEOREM MixedOnceCorrect == Spec => []MixedOnce
<1>1. BufferInv => MixedOnce
  BY DEF BufferInv
<1>2. QED
  BY <1>1, Invariance, PTL

\* After any number of switches, failed or not, only the selected microphone is left to
\* be mixed in (SetInputDeviceId, TryCreateInputSource).
THEOREM OnlyCurrentSourceCorrect == Spec => []OnlyCurrentSource
<1>1. SourceInv => OnlyCurrentSource
  BY SourceAssumption DEF SourceInv, SourcesTyped, HeldFrom, OnlyCurrentSource
<1>2. QED
  BY <1>1, Invariance, PTL

\* Between calls the selected microphone captures while the source runs, and no other
\* ever does (Start, Stop, SetInputDeviceId).
THEOREM OnlySelectedCapturesCorrect == Spec => []OnlySelectedCaptures
<1>1. SourceInv => OnlySelectedCaptures
  BY SourceAssumption
     DEF SourceInv, SourcesTyped, Placed, Followed, Running, OnlySelectedCaptures
<1>2. QED
  BY <1>1, Invariance, PTL
=============================================================================
