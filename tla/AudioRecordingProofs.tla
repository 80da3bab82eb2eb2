-------------------------- MODULE AudioRecordingProofs --------------------------
(***************************************************************************)
(* Proofs about audio-only recordings, for any number of sessions, client  *)
(* threads, Starts and packet sizes.                                       *)
(***************************************************************************)
EXTENDS AudioRecording, TLAPS

\* A session is in one call at a time.
CallsApart ==
    /\ \A t \in Threads : on[t] = NoSession <=> at[t] = "idle"
    /\ \A t, u \in Threads : on[t] = on[u] /\ on[t] # NoSession => t = u
    /\ \A s \in Sessions : starts = 0 => ~InCall(s) /\ ~recording[s]

\* Whether a session says that it records, at each point of its calls.
Says ==
    \A t \in Threads :
        /\ at[t] \in {"register", "nativeStart", "starting", "activated", "started", "clear"}
               => ~recording[on[t]]
        /\ at[t] = "nativeStop" => recording[on[t]]
        /\ at[t] \in {"register", "nativeStart", "starting", "activated", "started"}
               => op[t] = "start"
        /\ at[t] = "nativeStop" => op[t] # "start"
        /\ at[t] = "stopping" /\ op[t] = "start" => ~recording[on[t]]

\* The recorder's mutex and session follow the native calls in progress.
NativeFollows ==
    /\ \A t \in Threads : at[t] \in {"starting", "activated", "stopping"} <=> mutex = t
    /\ mutex = NoOne => native \in {"none", "active", "paused"}
    /\ \A t \in Threads : at[t] = "activated" => native = "active"
    /\ \A t \in Threads : at[t] = "starting" => native = "starting"
    /\ \A t \in Threads : at[t] = "stopping" => native = "stopping"
    /\ mutex # NoOne => on[mutex] = startedBy

\* Who has the recording.
Stoppable ==
    /\ \A s \in Sessions : recording[s] /\ ~InCall(s)
           => startedBy = s /\ native \in {"active", "paused"}
    /\ \A t \in Threads : at[t] \in {"started", "nativeStop"}
           => startedBy = on[t] /\ native \in {"active", "paused"}
    /\ native # "none" => startedBy \in Sessions
    /\ native \in {"active", "paused"} =>
           \/ recording[startedBy]
           \/ startedBy \in abandoned
           \/ \E t \in Threads : at[t] \in {"activated", "started"} /\ on[t] = startedBy
    /\ \A t \in Threads : at[t] = "ended"
           => on[t] \in abandoned \/ native = "none" \/ startedBy # on[t]

\* A field holds a delegate of its own session; a session that is not in use has none
\* that is not rooted.
Rooted ==
    /\ \A s \in Sessions : field[s] \in {Null} \cup ({s} \X (1..MaxStarts))
    /\ \A s \in Sessions : ~InCall(s) /\ ~recording[s] => field[s] \in roots \cup {Null}
    /\ native \in {"none", "stopping"} => registered = Null
    /\ CallbackRooted

\* What is in the file, and what its header says of it.
Header ==
    /\ file = "open" <=> native # "none"
    /\ file # "none" /\ ~damaged => counted = bytes
    /\ counted <= bytes
    /\ file = "open" => data = 0 /\ riff = 0
    /\ HeaderDescribesFile /\ HeaderPromisesNoMore

RecorderInv == CallsApart /\ Says /\ NativeFollows /\ Stoppable

-----------------------------------------------------------------------------
\* The steps of Next, one disjunct per action.
LEMMA NextActions ==
    ASSUME [Next]_vars
    PROVE  \/ \E t \in Threads : CallBegins(t) \/ CallStep(t)
           \/ Admit \/ Deliver \/ DeliverEnd
           \/ UNCHANGED vars
BY DEF Next

\* A packet that is let in fits into the file, and so does none.
LEMMA PacketFits ==
    ASSUME NEW b \in 0..MaxBytes
    PROVE  /\ 0 \in 0..(MaxBytes - b)
           /\ \A n \in Packets : b + n <= MaxBytes => n \in 0..(MaxBytes - b)
BY AudioAssumption

\* Each step keeps the types.
LEMMA TypeStep ==
    ASSUME TypeOK, CallsApart, [Next]_vars
    PROVE  TypeOK'
<1> USE AudioAssumption DEF TypeOK, AtPoints, Delegates, managed, recorder, calls, wave, GoTo,
        Return, ExportEnters, Inside, Threads
<1>1. ASSUME NEW t \in Threads, NEW s \in Sessions, Start(t, s) PROVE TypeOK'
  <2>1. starts' \in 1..MaxStarts /\ << s, starts' >> \in Delegates
    BY <1>1 DEF Start, Begin, MayCall
  <2>2. QED
    BY <1>1, <2>1 DEF Start, Begin, MayCall
<1>2. ASSUME NEW t \in Threads, NEW s \in Sessions, Stop(t, s) PROVE TypeOK'
  BY <1>2 DEF Stop, Begin, MayCall
<1>3. ASSUME NEW t \in Threads, NEW s \in Sessions, DisposeIdle(t, s) PROVE TypeOK'
  BY <1>3 DEF DisposeIdle, MayCall
<1>4. ASSUME NEW t \in Threads, NEW s \in Sessions, PauseOrResume(t, s) PROVE TypeOK'
  BY <1>4 DEF PauseOrResume, MayCall, SessionPauses, SessionResumes
<1>5. ASSUME NEW t \in Threads, Register(t) PROVE TypeOK'
  <2>1. on[t] \in Sessions /\ at[t] \in AtPoints
    BY <1>5 DEF Register, CallsApart
  <2>2. field[on[t]] \in Delegates \cup {Null}
    BY <2>1
  <2>3. stored' \in Delegates \cup {Null} /\ registered' \in Delegates \cup {Null}
        /\ native' = native /\ mutex' = mutex /\ startedBy' = startedBy
    BY <1>5, <2>2 DEF Register, SetCallback, SetCallbackFails
  <2>4. at' \in [Threads -> AtPoints] /\ on' = on /\ op' = op
    BY <1>5 DEF Register
  <2>5. QED
    BY <1>5, <2>3, <2>4 DEF Register
<1>6. ASSUME NEW t \in Threads, NativeStartRefused(t) PROVE TypeOK'
  BY <1>6 DEF NativeStartRefused
<1>7. ASSUME NEW t \in Threads, CreateSession(t) PROVE TypeOK'
  <2>1. damaged' \in BOOLEAN
    BY <1>7 DEF CreateSession, SessionInitializes, FileOpens
  <2>2. QED
    BY <1>7, <2>1 DEF CreateSession, SessionInitializes, FileOpens
<1>8. ASSUME NEW t \in Threads, SessionActive(t) PROVE TypeOK'
  BY <1>8 DEF SessionActive
<1>9. ASSUME NEW t \in Threads, NativeStarted(t) PROVE TypeOK'
  BY <1>9 DEF NativeStarted
<1>10. ASSUME NEW t \in Threads, NativeStartFails(t) PROVE TypeOK'
  BY <1>10 DEF NativeStartFails
<1>11. ASSUME NEW t \in Threads, Started(t) PROVE TypeOK'
  <2>1. recording' \in [Sessions -> BOOLEAN]
    BY <1>11 DEF Started
  <2>2. QED
    BY <1>11, <2>1 DEF Started
<1>12. ASSUME NEW t \in Threads, NativeStopRefused(t) PROVE TypeOK'
  <2>1. on[t] \in Sessions
    BY <1>12 DEF NativeStopRefused, CallsApart
  <2>2. QED
    BY <1>12, <2>1 DEF NativeStopRefused
<1>13. ASSUME NEW t \in Threads, NativeStop(t) PROVE TypeOK'
  BY <1>13 DEF NativeStop
<1>14. ASSUME NEW t \in Threads, NativeStopped(t) PROVE TypeOK'
  <2> DEFINE clamped == IF counted < Wrap THEN counted ELSE Wrap - 1
             total == (HeaderSize + clamped) % Wrap
  <2>1. clamped \in 0..(Wrap - 1) /\ total \in 0..(Wrap - 1)
    OBVIOUS
  <2>2. data' \in {data, clamped} /\ riff' \in {riff, total} /\ damaged' \in BOOLEAN
    BY <1>14 DEF NativeStopped, Finalized, Patched
  <2> HIDE DEF clamped, total
  <2>3. data' \in 0..(Wrap - 1) /\ riff' \in 0..(Wrap - 1)
    BY <2>1, <2>2
  <2>4. QED
    BY <1>14, <2>2, <2>3 DEF NativeStopped, Finalized
<1>15. ASSUME NEW t \in Threads, Ended(t) PROVE TypeOK'
  <2>1. recording' \in [Sessions -> BOOLEAN]
    BY <1>15 DEF Ended
  <2>2. QED
    BY <1>15, <2>1 DEF Ended
<1>16. ASSUME NEW t \in Threads, ClearCallback(t) PROVE TypeOK'
  <2>1. on[t] \in Sessions
    BY <1>16 DEF ClearCallback, CallsApart
  <2>2. stored' \in Delegates \cup {Null} /\ registered' \in Delegates \cup {Null}
        /\ native' = native /\ mutex' = mutex /\ startedBy' = startedBy
    BY <1>16 DEF ClearCallback, SetCallback, SetCallbackFails
  <2>3. field' \in [Sessions -> Delegates \cup {Null}]
    BY <1>16, <2>1 DEF ClearCallback
  <2>4. roots' \subseteq Delegates
    BY <1>16, <2>1 DEF ClearCallback
  <2>5. disposed' \in [Sessions -> BOOLEAN]
    BY <1>16, <2>1 DEF ClearCallback
  <2>6. at' \in [Threads -> AtPoints] /\ on' \in [Threads -> Sessions \cup {NoSession}]
        /\ op' \in [Threads -> {"none", "start", "stop", "dispose"}]
    BY <1>16 DEF ClearCallback
  <2>7. QED
    BY <1>16, <2>2, <2>3, <2>4, <2>5, <2>6 DEF ClearCallback
<1>17. ASSUME Admit PROVE TypeOK'
  <2>1. bytes' = bytes /\ packet' \in {n \in Packets : bytes + n <= MaxBytes}
    BY <1>17 DEF Admit
  <2>2. packet' \in 0..(MaxBytes - bytes)
    BY <2>1, PacketFits
  <2>3. QED
    BY <1>17, <2>1, <2>2 DEF Admit
<1>18. ASSUME Deliver PROVE TypeOK'
  <2> DEFINE n == packet
  <2>1. n \in Nat \ {0} /\ bytes + n <= MaxBytes /\ WriteAudioSample(n)
    BY <1>18 DEF Deliver
  <2> HIDE DEF n
  <2>2. damaged' \in BOOLEAN /\ bytes' \in 0..MaxBytes /\ counted' \in Nat
    <3>1. CASE bytes' = bytes + n /\ counted' = counted + n /\ UNCHANGED damaged
      BY <2>1, <3>1
    <3>2. CASE ~(bytes' = bytes + n /\ counted' = counted + n /\ UNCHANGED damaged)
      <4>1. PICK k \in 0..(n - 1) :
              bytes' = bytes + k /\ UNCHANGED counted /\ damaged' = (damaged \/ k > 0)
        BY <2>1, <3>2 DEF WriteAudioSample
      <4>2. damaged' \in BOOLEAN
        BY <4>1
      <4>3. bytes' \in 0..MaxBytes /\ counted' \in Nat
        BY <2>1, <4>1
      <4>4. QED
        BY <4>2, <4>3
    <3>3. QED
      BY <3>1, <3>2
  <2>3. packet' = 0 /\ delivering' \in Delegates \cup {Null}
    BY <1>18 DEF Deliver
  <2>4. packet' \in 0..(MaxBytes - bytes')
    <3>1. bytes' \in 0..MaxBytes
      BY <2>2
    <3>2. 0 \in 0..(MaxBytes - bytes')
      BY <3>1, PacketFits, Zenon
    <3>3. QED
      BY <2>3, <3>2, Zenon
  <2>5. UNCHANGED << managed, recorder, abandoned, calls, file, riff, data >>
    BY <1>18, <2>1 DEF Deliver, WriteAudioSample
  <2>6. QED
    BY <2>2, <2>3, <2>4, <2>5
<1>19. ASSUME DeliverEnd PROVE TypeOK'
  BY <1>19 DEF DeliverEnd
<1>20. ASSUME UNCHANGED vars PROVE TypeOK'
  BY <1>20 DEF vars
<1>21. QED
  BY <1>1, <1>2, <1>3, <1>4, <1>5, <1>6, <1>7, <1>8, <1>9, <1>10, <1>11,
     <1>12, <1>13, <1>14, <1>15, <1>16, <1>17, <1>18, <1>19, <1>20, NextActions
     DEF CallBegins, CallStep

\* Each step keeps the agreement of sessions and recorder.
LEMMA RecorderStep ==
    ASSUME TypeOK, RecorderInv, [Next]_vars
    PROVE  RecorderInv'
<1> USE AudioAssumption DEF TypeOK, RecorderInv, CallsApart, Says, NativeFollows, Stoppable,
        managed, recorder, calls, GoTo, Return, ExportEnters, Inside, InCall, Threads
<1>1. ASSUME NEW t \in Threads, NEW s \in Sessions, Start(t, s) PROVE RecorderInv'
  <2>1. CallsApart'
    BY <1>1 DEF Start, Begin, MayCall
  <2>2. Says'
    BY <1>1 DEF Start, Begin, MayCall
  <2>3. NativeFollows'
    BY <1>1 DEF Start, Begin, MayCall
  <2>4. Stoppable'
    BY <1>1 DEF Start, Begin, MayCall
  <2>5. QED
    BY <2>1, <2>2, <2>3, <2>4
<1>2. ASSUME NEW t \in Threads, NEW s \in Sessions, Stop(t, s) PROVE RecorderInv'
  <2>1. CallsApart'
    BY <1>2 DEF Stop, Begin, MayCall
  <2>2. Says'
    BY <1>2 DEF Stop, Begin, MayCall
  <2>3. NativeFollows'
    BY <1>2 DEF Stop, Begin, MayCall
  <2>4. Stoppable'
    BY <1>2 DEF Stop, Begin, MayCall
  <2>5. QED
    BY <2>1, <2>2, <2>3, <2>4
<1>3. ASSUME NEW t \in Threads, NEW s \in Sessions, DisposeIdle(t, s) PROVE RecorderInv'
  <2>1. CallsApart'
    BY <1>3 DEF DisposeIdle, MayCall
  <2>2. Says'
    BY <1>3 DEF DisposeIdle, MayCall
  <2>3. NativeFollows'
    BY <1>3 DEF DisposeIdle, MayCall
  <2>4. Stoppable'
    BY <1>3 DEF DisposeIdle, MayCall
  <2>5. QED
    BY <2>1, <2>2, <2>3, <2>4
<1>4. ASSUME NEW t \in Threads, NEW s \in Sessions, PauseOrResume(t, s) PROVE RecorderInv'
  <2>1. CallsApart'
    BY <1>4 DEF PauseOrResume, MayCall, SessionPauses, SessionResumes
  <2>2. Says'
    BY <1>4 DEF PauseOrResume, MayCall, SessionPauses, SessionResumes
  <2>3. NativeFollows'
    BY <1>4 DEF PauseOrResume, MayCall, SessionPauses, SessionResumes
  <2>4. Stoppable'
    BY <1>4 DEF PauseOrResume, MayCall, SessionPauses, SessionResumes
  <2>5. QED
    BY <2>1, <2>2, <2>3, <2>4
<1>5. ASSUME NEW t \in Threads, Register(t) PROVE RecorderInv'
  <2>1. CallsApart'
    BY <1>5 DEF Register, SetCallback, SetCallbackFails
  <2>2. Says'
    BY <1>5 DEF Register, SetCallback, SetCallbackFails
  <2>3. NativeFollows'
    BY <1>5 DEF Register, SetCallback, SetCallbackFails
  <2>4. Stoppable'
    BY <1>5 DEF Register, SetCallback, SetCallbackFails
  <2>5. QED
    BY <2>1, <2>2, <2>3, <2>4
<1>6. ASSUME NEW t \in Threads, NativeStartRefused(t) PROVE RecorderInv'
  <2>1. CallsApart'
    BY <1>6 DEF NativeStartRefused
  <2>2. Says'
    BY <1>6 DEF NativeStartRefused
  <2>3. NativeFollows'
    BY <1>6 DEF NativeStartRefused
  <2>4. Stoppable'
    BY <1>6 DEF NativeStartRefused
  <2>5. QED
    BY <2>1, <2>2, <2>3, <2>4
<1>7. ASSUME NEW t \in Threads, CreateSession(t) PROVE RecorderInv'
  <2>1. CallsApart'
    BY <1>7 DEF CreateSession, SessionInitializes, FileOpens
  <2>2. Says'
    BY <1>7 DEF CreateSession, SessionInitializes, FileOpens
  <2>3. NativeFollows'
    BY <1>7 DEF CreateSession, SessionInitializes, FileOpens
  <2>4. Stoppable'
    BY <1>7 DEF CreateSession, SessionInitializes, FileOpens
  <2>5. QED
    BY <2>1, <2>2, <2>3, <2>4
<1>8. ASSUME NEW t \in Threads, SessionActive(t) PROVE RecorderInv'
  <2>1. CallsApart'
    BY <1>8 DEF SessionActive
  <2>2. Says'
    BY <1>8 DEF SessionActive
  <2>3. NativeFollows'
    BY <1>8 DEF SessionActive
  <2>4. Stoppable'
    BY <1>8 DEF SessionActive
  <2>5. QED
    BY <2>1, <2>2, <2>3, <2>4
<1>9. ASSUME NEW t \in Threads, NativeStarted(t) PROVE RecorderInv'
  <2>1. CallsApart'
    BY <1>9 DEF NativeStarted
  <2>2. Says'
    BY <1>9 DEF NativeStarted
  <2>3. NativeFollows'
    BY <1>9 DEF NativeStarted
  <2>4. Stoppable'
    BY <1>9 DEF NativeStarted
  <2>5. QED
    BY <2>1, <2>2, <2>3, <2>4
<1>10. ASSUME NEW t \in Threads, NativeStartFails(t) PROVE RecorderInv'
  <2>1. CallsApart'
    BY <1>10 DEF NativeStartFails
  <2>2. Says'
    BY <1>10 DEF NativeStartFails
  <2>3. NativeFollows'
    BY <1>10 DEF NativeStartFails
  <2>4. Stoppable'
    BY <1>10 DEF NativeStartFails
  <2>5. QED
    BY <2>1, <2>2, <2>3, <2>4
<1>11. ASSUME NEW t \in Threads, Started(t) PROVE RecorderInv'
  <2>1. CallsApart'
    BY <1>11 DEF Started
  <2>2. Says'
    BY <1>11 DEF Started
  <2>3. NativeFollows'
    BY <1>11 DEF Started
  <2>4. Stoppable'
    BY <1>11 DEF Started
  <2>5. QED
    BY <2>1, <2>2, <2>3, <2>4
<1>12. ASSUME NEW t \in Threads, NativeStopRefused(t) PROVE RecorderInv'
  <2>1. CallsApart'
    BY <1>12 DEF NativeStopRefused
  <2>2. Says'
    BY <1>12 DEF NativeStopRefused
  <2>3. NativeFollows'
    BY <1>12 DEF NativeStopRefused
  <2>4. Stoppable'
    BY <1>12 DEF NativeStopRefused
  <2>5. QED
    BY <2>1, <2>2, <2>3, <2>4
<1>13. ASSUME NEW t \in Threads, NativeStop(t) PROVE RecorderInv'
  <2>1. CallsApart'
    BY <1>13 DEF NativeStop
  <2>2. Says'
    BY <1>13 DEF NativeStop
  <2>3. NativeFollows'
    BY <1>13 DEF NativeStop
  <2>4. Stoppable'
    BY <1>13 DEF NativeStop
  <2>5. QED
    BY <2>1, <2>2, <2>3, <2>4
<1>14. ASSUME NEW t \in Threads, NativeStopped(t) PROVE RecorderInv'
  <2>1. CallsApart'
    BY <1>14 DEF NativeStopped, Finalized
  <2>2. Says'
    BY <1>14 DEF NativeStopped, Finalized
  <2>3. NativeFollows'
    BY <1>14 DEF NativeStopped, Finalized
  <2>4. Stoppable'
    BY <1>14 DEF NativeStopped, Finalized
  <2>5. QED
    BY <2>1, <2>2, <2>3, <2>4
<1>15. ASSUME NEW t \in Threads, Ended(t) PROVE RecorderInv'
  <2>1. CallsApart'
    BY <1>15 DEF Ended
  <2>2. Says'
    BY <1>15 DEF Ended
  <2>3. NativeFollows'
    BY <1>15 DEF Ended
  <2>4. Stoppable'
    BY <1>15 DEF Ended
  <2>5. QED
    BY <2>1, <2>2, <2>3, <2>4
<1>16. ASSUME NEW t \in Threads, ClearCallback(t) PROVE RecorderInv'
  <2>1. CallsApart'
    BY <1>16 DEF ClearCallback, SetCallback, SetCallbackFails
  <2>2. Says'
    BY <1>16 DEF ClearCallback, SetCallback, SetCallbackFails
  <2>3. NativeFollows'
    BY <1>16 DEF ClearCallback, SetCallback, SetCallbackFails
  <2>4. Stoppable'
    BY <1>16 DEF ClearCallback, SetCallback, SetCallbackFails
  <2>5. QED
    BY <2>1, <2>2, <2>3, <2>4
<1>17. ASSUME Admit PROVE RecorderInv'
  <2>1. CallsApart'
    BY <1>17 DEF Admit
  <2>2. Says'
    BY <1>17 DEF Admit
  <2>3. NativeFollows'
    BY <1>17 DEF Admit
  <2>4. Stoppable'
    BY <1>17 DEF Admit
  <2>5. QED
    BY <2>1, <2>2, <2>3, <2>4
<1>18. ASSUME Deliver PROVE RecorderInv'
  <2>1. CallsApart'
    BY <1>18 DEF Deliver, WriteAudioSample
  <2>2. Says'
    BY <1>18 DEF Deliver, WriteAudioSample
  <2>3. NativeFollows'
    BY <1>18 DEF Deliver, WriteAudioSample
  <2>4. Stoppable'
    BY <1>18 DEF Deliver, WriteAudioSample
  <2>5. QED
    BY <2>1, <2>2, <2>3, <2>4
<1>19. ASSUME DeliverEnd PROVE RecorderInv'
  <2>1. CallsApart'
    BY <1>19 DEF DeliverEnd
  <2>2. Says'
    BY <1>19 DEF DeliverEnd
  <2>3. NativeFollows'
    BY <1>19 DEF DeliverEnd
  <2>4. Stoppable'
    BY <1>19 DEF DeliverEnd
  <2>5. QED
    BY <2>1, <2>2, <2>3, <2>4
<1>20. ASSUME UNCHANGED vars PROVE RecorderInv'
  BY <1>20 DEF vars
<1>21. QED
  BY <1>1, <1>2, <1>3, <1>4, <1>5, <1>6, <1>7, <1>8, <1>9, <1>10, <1>11,
     <1>12, <1>13, <1>14, <1>15, <1>16, <1>17, <1>18, <1>19, <1>20, NextActions
     DEF CallBegins, CallStep

\* Each step keeps delegates rooted.
LEMMA RootedStep ==
    ASSUME TypeOK, RecorderInv, Rooted, [Next]_vars
    PROVE  Rooted'
<1> USE AudioAssumption DEF TypeOK, Delegates, RecorderInv, CallsApart, Says, NativeFollows,
        Stoppable, Rooted, CallbackRooted,
        managed, recorder, calls, GoTo, Return, ExportEnters, Inside, InCall, Threads
<1>1. ASSUME NEW t \in Threads, NEW s \in Sessions, Start(t, s) PROVE Rooted'
  BY <1>1 DEF Start, Begin, MayCall
<1>2. ASSUME NEW t \in Threads, NEW s \in Sessions, Stop(t, s) PROVE Rooted'
  BY <1>2 DEF Stop, Begin, MayCall
<1>3. ASSUME NEW t \in Threads, NEW s \in Sessions, DisposeIdle(t, s) PROVE Rooted'
  BY <1>3 DEF DisposeIdle, MayCall
<1>4. ASSUME NEW t \in Threads, NEW s \in Sessions, PauseOrResume(t, s) PROVE Rooted'
  BY <1>4 DEF PauseOrResume, MayCall, SessionPauses, SessionResumes
<1>5. ASSUME NEW t \in Threads, Register(t) PROVE Rooted'
  BY <1>5 DEF Register, SetCallback, SetCallbackFails
<1>6. ASSUME NEW t \in Threads, NativeStartRefused(t) PROVE Rooted'
  BY <1>6 DEF NativeStartRefused
<1>7. ASSUME NEW t \in Threads, CreateSession(t) PROVE Rooted'
  BY <1>7 DEF CreateSession, SessionInitializes, FileOpens
<1>8. ASSUME NEW t \in Threads, SessionActive(t) PROVE Rooted'
  BY <1>8 DEF SessionActive
<1>9. ASSUME NEW t \in Threads, NativeStarted(t) PROVE Rooted'
  BY <1>9 DEF NativeStarted
<1>10. ASSUME NEW t \in Threads, NativeStartFails(t) PROVE Rooted'
  BY <1>10 DEF NativeStartFails
<1>11. ASSUME NEW t \in Threads, Started(t) PROVE Rooted'
  BY <1>11 DEF Started
<1>12. ASSUME NEW t \in Threads, NativeStopRefused(t) PROVE Rooted'
  BY <1>12 DEF NativeStopRefused
<1>13. ASSUME NEW t \in Threads, NativeStop(t) PROVE Rooted'
  BY <1>13 DEF NativeStop
<1>14. ASSUME NEW t \in Threads, NativeStopped(t) PROVE Rooted'
  BY <1>14 DEF NativeStopped, Finalized
<1>15. ASSUME NEW t \in Threads, Ended(t) PROVE Rooted'
  BY <1>15 DEF Ended
<1>16. ASSUME NEW t \in Threads, ClearCallback(t) PROVE Rooted'
  BY <1>16 DEF ClearCallback, SetCallback, SetCallbackFails
<1>17. ASSUME Admit PROVE Rooted'
  BY <1>17 DEF Admit
<1>18. ASSUME Deliver PROVE Rooted'
  BY <1>18 DEF Deliver, WriteAudioSample
<1>19. ASSUME DeliverEnd PROVE Rooted'
  BY <1>19 DEF DeliverEnd
<1>20. ASSUME UNCHANGED vars PROVE Rooted'
  BY <1>20 DEF vars
<1>21. QED
  BY <1>1, <1>2, <1>3, <1>4, <1>5, <1>6, <1>7, <1>8, <1>9, <1>10, <1>11,
     <1>12, <1>13, <1>14, <1>15, <1>16, <1>17, <1>18, <1>19, <1>20, NextActions
     DEF CallBegins, CallStep

\* A remainder is no more than what was divided.
LEMMA RemainderBounded ==
    ASSUME NEW x \in Nat, NEW w \in Nat \ {0}
    PROVE  x % w \in Nat /\ x % w <= x
<1>1. CASE x < w
  BY <1>1
<1>2. CASE x >= w
  <2>1. x % w \in 0..(w - 1)
    OBVIOUS
  <2>2. QED
    BY <1>2, <2>1
<1>3. QED
  BY <1>1, <1>2

\* Each step keeps what is known of the file.
LEMMA HeaderStep ==
    ASSUME TypeOK, RecorderInv, Header, [Next]_vars
    PROVE  Header'
<1> USE AudioAssumption DEF TypeOK, RecorderInv, NativeFollows, Stoppable, Header,
        HeaderDescribesFile, HeaderPromisesNoMore, managed, recorder, calls, wave, GoTo,
        Return, ExportEnters, Inside, Threads
<1>1. ASSUME NEW t \in Threads, NEW s \in Sessions, Start(t, s) PROVE Header'
  BY <1>1 DEF Start, Begin, MayCall
<1>2. ASSUME NEW t \in Threads, NEW s \in Sessions, Stop(t, s) PROVE Header'
  BY <1>2 DEF Stop, Begin, MayCall
<1>3. ASSUME NEW t \in Threads, NEW s \in Sessions, DisposeIdle(t, s) PROVE Header'
  BY <1>3 DEF DisposeIdle, MayCall
<1>4. ASSUME NEW t \in Threads, NEW s \in Sessions, PauseOrResume(t, s) PROVE Header'
  BY <1>4 DEF PauseOrResume, MayCall, SessionPauses, SessionResumes
<1>5. ASSUME NEW t \in Threads, Register(t) PROVE Header'
  BY <1>5 DEF Register, SetCallback, SetCallbackFails
<1>6. ASSUME NEW t \in Threads, NativeStartRefused(t) PROVE Header'
  BY <1>6 DEF NativeStartRefused
<1>7. ASSUME NEW t \in Threads, CreateSession(t) PROVE Header'
  BY <1>7 DEF CreateSession, SessionInitializes, FileOpens
<1>8. ASSUME NEW t \in Threads, SessionActive(t) PROVE Header'
  BY <1>8 DEF SessionActive
<1>9. ASSUME NEW t \in Threads, NativeStarted(t) PROVE Header'
  BY <1>9 DEF NativeStarted
<1>10. ASSUME NEW t \in Threads, NativeStartFails(t) PROVE Header'
  BY <1>10 DEF NativeStartFails
<1>11. ASSUME NEW t \in Threads, Started(t) PROVE Header'
  BY <1>11 DEF Started
<1>12. ASSUME NEW t \in Threads, NativeStopRefused(t) PROVE Header'
  BY <1>12 DEF NativeStopRefused
<1>13. ASSUME NEW t \in Threads, NativeStop(t) PROVE Header'
  BY <1>13 DEF NativeStop
<1>14. ASSUME NEW t \in Threads, NativeStopped(t) PROVE Header'
  <2>1. native # "none" /\ native' = "none" /\ file = "open" /\ file' = "closed"
        /\ bytes' = bytes /\ counted' = counted
    BY <1>14 DEF NativeStopped, Finalized
  <2>2. ~damaged' => /\ ~damaged
                     /\ data' = (IF counted < Wrap THEN counted ELSE Wrap - 1)
                     /\ riff' = (HeaderSize + data') % Wrap
    BY <1>14 DEF NativeStopped, Finalized
  <2>3. ~damaged' => counted = bytes
    BY <2>1, <2>2
  <2>4. ~damaged' => data' = (IF bytes < Wrap THEN bytes ELSE Wrap - 1)
    BY <2>2, <2>3
  <2>5. ~damaged' /\ HeaderSize + bytes < Wrap => riff' = HeaderSize + bytes
    <3>1. ~damaged' /\ HeaderSize + bytes < Wrap => data' = bytes
      BY <2>4
    <3>2. QED
      BY <2>2, <3>1
  <2>6. data' <= bytes /\ riff' <= HeaderSize + bytes
    <3> DEFINE clamped == IF counted < Wrap THEN counted ELSE Wrap - 1
               total == HeaderSize + clamped
    <3>1. clamped \in Nat /\ total \in Nat /\ clamped <= bytes
      BY <2>1
    <3>2. data = 0 /\ riff = 0
      BY <2>1
    <3>3. data' \in {data, clamped} /\ riff' \in {riff, total % Wrap}
      BY <1>14 DEF NativeStopped, Finalized, Patched
    <3>4. total <= HeaderSize + bytes
      BY <3>1
    <3> HIDE DEF clamped, total
    <3>5. total % Wrap <= total
      BY <3>1, RemainderBounded
    <3>6. QED
      BY <3>1, <3>2, <3>3, <3>4, <3>5
  <2>7. QED
    BY <2>1, <2>3, <2>4, <2>5, <2>6
<1>15. ASSUME NEW t \in Threads, Ended(t) PROVE Header'
  BY <1>15 DEF Ended
<1>16. ASSUME NEW t \in Threads, ClearCallback(t) PROVE Header'
  BY <1>16 DEF ClearCallback, SetCallback, SetCallbackFails
<1>17. ASSUME Admit PROVE Header'
  BY <1>17 DEF Admit
<1>18. ASSUME Deliver PROVE Header'
  <2> DEFINE n == packet
  <2>1. n \in Nat \ {0} /\ WriteAudioSample(n)
    BY <1>18 DEF Deliver
  <2> HIDE DEF n
  <2>2. native' = native /\ file = "open" /\ file' = "open" /\ data' = data /\ riff' = riff
    BY <1>18, <2>1 DEF Deliver, WriteAudioSample
  <2>3. counted' <= bytes' /\ (~damaged' => counted' = bytes')
    <3>1. CASE bytes' = bytes + n /\ counted' = counted + n /\ UNCHANGED damaged
      BY <2>1, <2>2, <3>1
    <3>2. CASE ~(bytes' = bytes + n /\ counted' = counted + n /\ UNCHANGED damaged)
      <4>1. PICK k \in 0..(n - 1) :
              bytes' = bytes + k /\ UNCHANGED counted /\ damaged' = (damaged \/ k > 0)
        BY <2>1, <3>2 DEF WriteAudioSample
      <4>2. CASE k = 0
        BY <2>2, <4>1, <4>2
      <4>3. CASE k > 0
        <5>1. damaged'
          BY <4>1, <4>3
        <5>2. counted' <= bytes'
          BY <4>1, <4>3
        <5>3. QED
          BY <5>1, <5>2
      <4>4. QED
        BY <4>1, <4>2, <4>3
    <3>3. QED
      BY <3>1, <3>2
  <2>4. QED
    BY <2>2, <2>3
<1>19. ASSUME DeliverEnd PROVE Header'
  BY <1>19 DEF DeliverEnd
<1>20. ASSUME UNCHANGED vars PROVE Header'
  BY <1>20 DEF vars
<1>21. QED
  BY <1>1, <1>2, <1>3, <1>4, <1>5, <1>6, <1>7, <1>8, <1>9, <1>10, <1>11,
     <1>12, <1>13, <1>14, <1>15, <1>16, <1>17, <1>18, <1>19, <1>20, NextActions
     DEF CallBegins, CallStep

-----------------------------------------------------------------------------
AudioInv == TypeOK /\ RecorderInv /\ Rooted /\ Header

\* The invariant holds at first.
LEMMA AudioInit ==
    ASSUME Init
    PROVE  AudioInv
<1> USE AudioAssumption DEF Init
<1>1. TypeOK
  <2>1. /\ recording \in [Sessions -> BOOLEAN] /\ disposed \in [Sessions -> BOOLEAN]
        /\ field \in [Sessions -> Delegates \cup {Null}]
    OBVIOUS
  <2>2. /\ at \in [Threads -> AtPoints] /\ on \in [Threads -> Sessions \cup {NoSession}]
        /\ op \in [Threads -> {"none", "start", "stop", "dispose"}]
    BY DEF AtPoints
  <2>3. /\ starts \in 0..MaxStarts /\ bytes \in 0..MaxBytes /\ counted \in Nat
        /\ packet \in 0..(MaxBytes - bytes) /\ riff \in 0..(Wrap - 1) /\ data \in 0..(Wrap - 1)
    OBVIOUS
  <2>4. damaged \in BOOLEAN
    OBVIOUS
  <2> HIDE AudioAssumption
  <2>5. QED
    BY <2>1, <2>2, <2>3, <2>4, Zenon DEF TypeOK
<1>2. RecorderInv
  BY DEF RecorderInv, CallsApart, Says, NativeFollows, Stoppable, InCall, Threads
<1>3. Rooted
  BY DEF Rooted, CallbackRooted, InCall
<1>4. Header
  BY DEF Header, HeaderDescribesFile, HeaderPromisesNoMore
<1>5. QED
  BY <1>1, <1>2, <1>3, <1>4 DEF AudioInv

\* The inductive invariant of the recorder, its sessions and the file.
THEOREM Invariance == Spec => []AudioInv
<1>1. Init => AudioInv
  BY AudioInit
<1>2. AudioInv /\ [Next]_vars => AudioInv'
  BY TypeStep, RecorderStep, RootedStep, HeaderStep DEF AudioInv, RecorderInv
<1>3. QED
  BY <1>1, <1>2, PTL DEF Spec

\* Every variable keeps its type.
THEOREM TypeCorrect == Spec => []TypeOK
<1>1. AudioInv => TypeOK
  BY DEF AudioInv
<1>2. QED
  BY <1>1, Invariance, PTL

\* A session that says it records has the recorder, and a recording has a session that can
\* stop it, unless that session was stopped inside a callback.
THEOREM RecordingStoppableCorrect == Spec => []RecordingStoppable
<1>1. AudioInv => RecordingStoppable
  <2> SUFFICES ASSUME AudioInv PROVE RecordingStoppable
    OBVIOUS
  <2> USE DEF AudioInv, TypeOK, RecorderInv, Stoppable, InCall
  <2>1. CASE native \in {"starting", "stopping"}
    <3>1. mutex \in Threads /\ on[mutex] = startedBy
      BY <2>1 DEF NativeFollows
    <3>2. QED
      BY <2>1, <3>1 DEF RecordingStoppable
  <2>2. CASE native \in {"none", "active", "paused"}
    BY <2>2 DEF RecordingStoppable
  <2>3. QED
    BY <2>1, <2>2
<1>2. QED
  BY <1>1, Invariance, PTL

\* Every delegate that native code may still call is held by managed code.
THEOREM CallbackRootedCorrect == Spec => []CallbackRooted
<1>1. AudioInv => CallbackRooted
  BY DEF AudioInv, Rooted
<1>2. QED
  BY <1>1, Invariance, PTL

\* The header of a finalized file describes its data, up to what 32 bits can say.
THEOREM HeaderDescribesFileCorrect == Spec => []HeaderDescribesFile
<1>1. AudioInv => HeaderDescribesFile
  BY DEF AudioInv, Header
<1>2. QED
  BY <1>1, Invariance, PTL

\* Whatever failed or was cut short, the header of a finalized file promises no more than
\* the file holds.
THEOREM HeaderPromisesNoMoreCorrect == Spec => []HeaderPromisesNoMore
<1>1. AudioInv => HeaderPromisesNoMore
  BY DEF AudioInv, Header
<1>2. QED
  BY <1>1, Invariance, PTL
-----------------------------------------------------------------------------
\* A packet is let in, written and handled only in a session that is live; its handler is
\* in no call that waits, because the exports turn it away.
HandlerInv ==
    /\ at[Capture] # "idle" => delivering # Null
    /\ at[Capture] \notin {"starting", "activated", "started", "stopping"}
    /\ packet # 0 => delivering = Null
    /\ packet # 0 \/ delivering # Null => native \in {"active", "paused"} \/ StopsLive

\* Each step keeps what is known of the handler.
LEMMA HandlerStep ==
    ASSUME AudioInv, HandlerInv, [Next]_vars
    PROVE  HandlerInv'
<1> USE AudioAssumption DEF AudioInv, TypeOK, RecorderInv, CallsApart, Says, NativeFollows,
        HandlerInv, StopsLive, managed, recorder, calls, GoTo, Return, ExportEnters, Inside,
        Threads
<1>1. ASSUME NEW t \in Threads, NEW s \in Sessions, Start(t, s) PROVE HandlerInv'
  BY <1>1 DEF Start, Begin, MayCall
<1>2. ASSUME NEW t \in Threads, NEW s \in Sessions, Stop(t, s) PROVE HandlerInv'
  BY <1>2 DEF Stop, Begin, MayCall
<1>3. ASSUME NEW t \in Threads, NEW s \in Sessions, DisposeIdle(t, s) PROVE HandlerInv'
  BY <1>3 DEF DisposeIdle, MayCall
<1>4. ASSUME NEW t \in Threads, NEW s \in Sessions, PauseOrResume(t, s) PROVE HandlerInv'
  BY <1>4 DEF PauseOrResume, MayCall, SessionPauses, SessionResumes
<1>5. ASSUME NEW t \in Threads, Register(t) PROVE HandlerInv'
  BY <1>5 DEF Register, SetCallback, SetCallbackFails
<1>6. ASSUME NEW t \in Threads, NativeStartRefused(t) PROVE HandlerInv'
  BY <1>6 DEF NativeStartRefused
<1>7. ASSUME NEW t \in Threads, CreateSession(t) PROVE HandlerInv'
  BY <1>7 DEF CreateSession, SessionInitializes, FileOpens
<1>8. ASSUME NEW t \in Threads, SessionActive(t) PROVE HandlerInv'
  BY <1>8 DEF SessionActive
<1>9. ASSUME NEW t \in Threads, NativeStarted(t) PROVE HandlerInv'
  BY <1>9 DEF NativeStarted
<1>10. ASSUME NEW t \in Threads, NativeStartFails(t) PROVE HandlerInv'
  BY <1>10 DEF NativeStartFails
<1>11. ASSUME NEW t \in Threads, Started(t) PROVE HandlerInv'
  BY <1>11 DEF Started
<1>12. ASSUME NEW t \in Threads, NativeStopRefused(t) PROVE HandlerInv'
  BY <1>12 DEF NativeStopRefused
<1>13. ASSUME NEW t \in Threads, NativeStop(t) PROVE HandlerInv'
  BY <1>13 DEF NativeStop
<1>14. ASSUME NEW t \in Threads, NativeStopped(t) PROVE HandlerInv'
  BY <1>14 DEF NativeStopped, Finalized
<1>15. ASSUME NEW t \in Threads, Ended(t) PROVE HandlerInv'
  BY <1>15 DEF Ended
<1>16. ASSUME NEW t \in Threads, ClearCallback(t) PROVE HandlerInv'
  BY <1>16 DEF ClearCallback, SetCallback, SetCallbackFails
<1>17. ASSUME Admit PROVE HandlerInv'
  BY <1>17 DEF Admit
<1>18. ASSUME Deliver PROVE HandlerInv'
  BY <1>18 DEF Deliver, WriteAudioSample
<1>19. ASSUME DeliverEnd PROVE HandlerInv'
  BY <1>19 DEF DeliverEnd
<1>20. ASSUME UNCHANGED vars PROVE HandlerInv'
  BY <1>20 DEF vars
<1>21. QED
  BY <1>1, <1>2, <1>3, <1>4, <1>5, <1>6, <1>7, <1>8, <1>9, <1>10, <1>11,
     <1>12, <1>13, <1>14, <1>15, <1>16, <1>17, <1>18, <1>19, <1>20, NextActions
     DEF CallBegins, CallStep

\* The handler's calls, and the session it runs in.
THEOREM HandlerInvariance == Spec => [](AudioInv /\ HandlerInv)
<1>1. Init => HandlerInv
  BY AudioAssumption DEF Init, HandlerInv, Threads
<1>2. AudioInv /\ HandlerInv /\ [Next]_vars => HandlerInv'
  BY HandlerStep
<1>3. QED
  BY <1>1, <1>2, Invariance, PTL DEF Spec

\* Whoever has the recorder's mutex waits for the handler at most, and the capture thread,
\* whatever its handler calls, waits for nobody.
THEOREM NoCyclicWaitCorrect == Spec => []NoCyclicWait
<1>1. AudioInv /\ HandlerInv => NoCyclicWait
  BY AudioAssumption
     DEF AudioInv, TypeOK, RecorderInv, NativeFollows, HandlerInv, NoCyclicWait,
         WaitsForMutex, WaitsForHandler, Inside, Threads
<1>2. QED
  BY <1>1, HandlerInvariance, PTL
-----------------------------------------------------------------------------
\* A step of the recorder is a step of the contract, or changes nothing that it sees.
LEMMA ContractStep ==
    ASSUME AudioInv, HandlerInv, [Next]_vars
    PROVE  [Contract!Next]_(Contract!contractVars)
<1> DEFINE busy == IF packet = 0 /\ delivering = Null THEN {} ELSE {Capture}
<1> USE AudioAssumption DEF AudioInv, TypeOK, RecorderInv, CallsApart, Says, NativeFollows,
        Header, HandlerInv, StopsLive, RecordingPhase, managed, recorder, calls, wave, GoTo,
        Return, ExportEnters, Inside, Threads, Contract!contractVars, Contract!Next
<1>1. ASSUME NEW t \in Threads, NEW s \in Sessions, Start(t, s)
      PROVE  [Contract!Next]_(Contract!contractVars)
  BY <1>1 DEF Start, Begin, MayCall
<1>2. ASSUME NEW t \in Threads, NEW s \in Sessions, Stop(t, s)
      PROVE  [Contract!Next]_(Contract!contractVars)
  BY <1>2 DEF Stop, Begin, MayCall
<1>3. ASSUME NEW t \in Threads, NEW s \in Sessions, DisposeIdle(t, s)
      PROVE  [Contract!Next]_(Contract!contractVars)
  BY <1>3 DEF DisposeIdle, MayCall
<1>4. ASSUME NEW t \in Threads, NEW s \in Sessions, PauseOrResume(t, s)
      PROVE  [Contract!Next]_(Contract!contractVars)
  BY <1>4 DEF PauseOrResume, MayCall, SessionPauses, SessionResumes
<1>5. ASSUME NEW t \in Threads, Register(t)
      PROVE  [Contract!Next]_(Contract!contractVars)
  BY <1>5 DEF Register, SetCallback, SetCallbackFails
<1>6. ASSUME NEW t \in Threads, NativeStartRefused(t)
      PROVE  [Contract!Next]_(Contract!contractVars)
  BY <1>6 DEF NativeStartRefused
<1>7. ASSUME NEW t \in Threads, CreateSession(t)
      PROVE  [Contract!Next]_(Contract!contractVars)
  <2>1. RecordingPhase' = "before" /\ (file = "open")' /\ delivering' = delivering /\ busy = {}
    BY <1>7 DEF CreateSession, SessionInitializes, FileOpens
  <2>2. CASE file = "closed"
    BY <1>7, <2>1, <2>2 DEF CreateSession, SessionInitializes, Contract!Renew
  <2>3. CASE file # "closed"
    BY <1>7, <2>1, <2>3 DEF CreateSession, SessionInitializes, Contract!Prepare
  <2>4. QED
    BY <2>2, <2>3
<1>8. ASSUME NEW t \in Threads, SessionActive(t)
      PROVE  [Contract!Next]_(Contract!contractVars)
  <2>1. RecordingPhase = "before" /\ RecordingPhase' = "live" /\ file = "open"
    BY <1>8 DEF SessionActive
  <2>2. QED
    BY <1>8, <2>1 DEF SessionActive, Contract!GoLive
<1>9. ASSUME NEW t \in Threads, NativeStarted(t)
      PROVE  [Contract!Next]_(Contract!contractVars)
  BY <1>9 DEF NativeStarted
<1>10. ASSUME NEW t \in Threads, NativeStartFails(t)
      PROVE  [Contract!Next]_(Contract!contractVars)
  BY <1>10 DEF NativeStartFails
<1>11. ASSUME NEW t \in Threads, Started(t)
      PROVE  [Contract!Next]_(Contract!contractVars)
  BY <1>11 DEF Started
<1>12. ASSUME NEW t \in Threads, NativeStopRefused(t)
      PROVE  [Contract!Next]_(Contract!contractVars)
  BY <1>12 DEF NativeStopRefused
<1>13. ASSUME NEW t \in Threads, NativeStop(t)
      PROVE  [Contract!Next]_(Contract!contractVars)
  BY <1>13 DEF NativeStop
<1>14. ASSUME NEW t \in Threads, NativeStopped(t)
      PROVE  [Contract!Next]_(Contract!contractVars)
  <2>1. RecordingPhase # "over" /\ RecordingPhase' = "over" /\ busy = {} /\ busy' = {}
    BY <1>14 DEF NativeStopped, Finalized
  <2>2. file' = "closed"
    BY <1>14 DEF NativeStopped, Finalized
  <2>3. QED
    BY <2>1, <2>2 DEF Contract!GoOver
<1>15. ASSUME NEW t \in Threads, Ended(t)
      PROVE  [Contract!Next]_(Contract!contractVars)
  BY <1>15 DEF Ended
<1>16. ASSUME NEW t \in Threads, ClearCallback(t)
      PROVE  [Contract!Next]_(Contract!contractVars)
  BY <1>16 DEF ClearCallback, SetCallback, SetCallbackFails
<1>17. ASSUME Admit
      PROVE  [Contract!Next]_(Contract!contractVars)
  <2>1. RecordingPhase = "live" /\ RecordingPhase' = "live" /\ file = "open" /\ file' = "open"
    BY <1>17 DEF Admit
  <2>2. busy = {} /\ busy' = {Capture}
    BY <1>17 DEF Admit
  <2>3. QED
    BY <2>1, <2>2 DEF Contract!Deliver
<1>18. ASSUME Deliver
      PROVE  [Contract!Next]_(Contract!contractVars)
  <2>1. RecordingPhase' = RecordingPhase /\ file' = file
    BY <1>18 DEF Deliver, WriteAudioSample
  <2>2. busy = {Capture} /\ busy' \in {{}, {Capture}}
    BY <1>18 DEF Deliver
  <2>3. CASE busy' = {}
    BY <2>1, <2>2, <2>3 DEF Contract!Delivered
  <2>4. CASE busy' = {Capture}
    BY <2>1, <2>2, <2>4
  <2>5. QED
    BY <2>2, <2>3, <2>4
<1>19. ASSUME DeliverEnd
      PROVE  [Contract!Next]_(Contract!contractVars)
  <2>1. RecordingPhase' = RecordingPhase /\ file' = file
    BY <1>19 DEF DeliverEnd
  <2>2. busy = {Capture} /\ busy' = {}
    BY <1>19 DEF DeliverEnd, HandlerInv
  <2>3. QED
    BY <2>1, <2>2 DEF Contract!Delivered
<1>20. ASSUME UNCHANGED vars
      PROVE  [Contract!Next]_(Contract!contractVars)
  BY <1>20 DEF vars, calls
<1>21. QED
  BY <1>1, <1>2, <1>3, <1>4, <1>5, <1>6, <1>7, <1>8, <1>9, <1>10, <1>11,
     <1>12, <1>13, <1>14, <1>15, <1>16, <1>17, <1>18, <1>19, <1>20, NextActions
     DEF CallBegins, CallStep

\* The recorder keeps the contract of a capture session, one recording after the other,
\* whichever managed sessions start and stop it and whatever fails.
THEOREM ImplementsContractCorrect == Spec => ImplementsContract
<1>1. Init => Contract!Init
  BY AudioAssumption DEF Init, Contract!Init, RecordingPhase, StopsLive
<1>2. AudioInv /\ HandlerInv /\ [Next]_vars => [Contract!Next]_(Contract!contractVars)
  BY ContractStep
<1>3. QED
  BY <1>1, <1>2, HandlerInvariance, PTL DEF Spec, ImplementsContract, Contract!Spec
=============================================================================
