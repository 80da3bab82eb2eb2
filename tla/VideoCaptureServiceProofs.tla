----------------------- MODULE VideoCaptureServiceProofs -----------------------
(***************************************************************************)
(* Proofs about the managed sessions and their one native recorder, for    *)
(* any number of sessions, client threads and Starts.                      *)
(***************************************************************************)
EXTENDS VideoCaptureService, TLAPS

Registering == {"registerVideo", "registerAudio", "nativeStart"}
Clearing    == {"clearAudio", "clearVideo", "release"}
OwnPoints   == Registering \cup {"starting", "nativeStop", "stopping"} \cup Clearing

\* A session is in one call at a time, and a Start has been counted.
CallsApart ==
    /\ \A t \in Threads : on[t] = NoSession <=> at[t] = "idle"
    /\ \A t, u \in Threads : on[t] = on[u] /\ on[t] # NoSession => t = u
    /\ \A t \in Threads : at[t] = "acquire" => starts > 0

\* Whoever is past AcquireProcessOwnership owns the recorder, and nobody else records.
Ownership ==
    /\ \A t \in Threads : at[t] \in OwnPoints => on[t] = owner
    /\ \A t \in Threads : at[t] = "acquire" => ~recording[on[t]]
    /\ \A s \in Sessions : recording[s] => owner = s
    /\ owner # NoSession => recording[owner] \/ \E t \in Threads : at[t] \in OwnPoints

\* The recorder's session follows the owner's call.
NativeFollows ==
    /\ \A t \in Threads : at[t] \in Registering \cup Clearing => native = "none" /\ ~recording[owner]
    /\ \A t \in Threads : at[t] = "nativeStop" => native \in Active /\ recording[owner]
    /\ \A t \in Threads : at[t] = "starting" <=> native = "starting" /\ mutex = t
    /\ \A t \in Threads : at[t] = "stopping" <=> native = "stopping" /\ mutex = t
    /\ native \in {"starting", "stopping"} <=> mutex # NoOne
    /\ native # "none" => owner # NoSession /\ recording[owner]
    /\ \A s \in Sessions : recording[s] => native # "none"

\* A field holds a delegate of its own session and kind.
DelegatesOwn ==
    \A s \in Sessions, k \in Kinds : field[s][k] \in {Null} \cup ({k} \X {s} \X (1..MaxStarts))

\* The callbacks on their way from the fields into the native session.
CallbacksFollow ==
    /\ \A t \in Threads : at[t] \in Registering => \A k \in Kinds : field[owner][k] # Null
    /\ \A t \in Threads : at[t] \in {"registerAudio", "nativeStart"}
                              => stored["video"] = field[owner]["video"]
    /\ \A t \in Threads : at[t] = "nativeStart" => stored["audio"] = field[owner]["audio"]
    /\ native # "none" => \A k \in Kinds : /\ registered[k] = field[owner][k]
                                           /\ registered[k] # Null
                                           /\ delivering[k] \in {Null, registered[k]}
    /\ native = "none" => registered = NoCallbacks /\ delivering = NoCallbacks

\* What the recorder keeps is rooted, or it is the owner's; when the owner gives the
\* recorder up, it is rooted or gone.
StoredRooted ==
    /\ \A k \in Kinds : stored[k] # Null
           => stored[k] \in roots \/ (owner # NoSession /\ stored[k] = field[owner][k])
    /\ \A t \in Threads : at[t] = "clearVideo" /\ stored["audio"] # Null
                              => stored["audio"] \in roots
    /\ \A t \in Threads : at[t] = "release"
                              => \A k \in Kinds : stored[k] # Null => stored[k] \in roots

ServiceInv == /\ CallsApart
              /\ Ownership
              /\ NativeFollows
              /\ DelegatesOwn
              /\ CallbacksFollow
              /\ StoredRooted

-----------------------------------------------------------------------------
\* The steps of Next, one disjunct per action.
LEMMA NextActions ==
    ASSUME [Next]_vars
    PROVE  \/ \E t \in Threads : CallBegins(t) \/ CallStep(t)
           \/ \E k \in Kinds : Deliver(k) \/ DeliverEnd(k)
           \/ UNCHANGED vars
BY DEF Next

\* The shape of the state and a session's single call are preserved by every step.
THEOREM TypeCorrect == Spec => [](TypeOK /\ CallsApart)
<1> DEFINE Inv == TypeOK /\ CallsApart
<1>1. Init => Inv
  BY ServiceAssumption DEF Init, TypeOK, CallsApart, NoCallbacks, AtPoints, Delegates
<1>2. Inv /\ [Next]_vars => Inv'
  <2> SUFFICES ASSUME Inv, [Next]_vars PROVE Inv'
    OBVIOUS
  <2> USE ServiceAssumption DEF TypeOK, CallsApart, AtPoints, Delegates, NoCallbacks, Active, Kinds,
          GoTo, Return, managed, recorder, calls
  <2>1. ASSUME NEW t \in Threads, CallBegins(t) PROVE Inv'
    <3> PICK s \in Sessions :
               Start(t, s) \/ Stop(t, s) \/ Dispose(t, s) \/ DisposeIdle(t, s)
                   \/ PauseOrResume(t, s)
      BY <2>1 DEF CallBegins
    <3> USE DEF Begin, MayCall, InCall
    <3>1. CASE Start(t, s)
      BY <3>1 DEF Start
    <3>2. CASE Stop(t, s)
      BY <3>2 DEF Stop
    <3>3. CASE Dispose(t, s)
      BY <3>3 DEF Dispose
    <3>4. CASE DisposeIdle(t, s)
      BY <3>4 DEF DisposeIdle
    <3>5. CASE PauseOrResume(t, s)
      BY <3>5 DEF PauseOrResume
    <3>6. QED
      BY <3>1, <3>2, <3>3, <3>4, <3>5
  <2>2. ASSUME NEW t \in Threads, CallStep(t) PROVE Inv'
    <3>1. CASE Acquire(t)
      <4>1. on[t] \in Sessions /\ starts \in 1..MaxStarts
        BY <3>1 DEF Acquire
      <4>2. NewDelegates(on[t]) \in [Kinds -> Delegates \cup {Null}]
        BY <4>1 DEF NewDelegates
      <4>3. TypeOK'
        BY <3>1, <4>1, <4>2 DEF Acquire
      <4>4. CallsApart'
        BY <3>1 DEF Acquire
      <4>5. QED
        BY <4>3, <4>4
    <3>2. CASE RegisterVideo(t)
      BY <3>2 DEF RegisterVideo, RegisterCallback, SetCallback, SetCallbackFails
    <3>3. CASE RegisterAudio(t)
      BY <3>3 DEF RegisterAudio, RegisterCallback, SetCallback, SetCallbackFails
    <3>4. CASE NativeStart(t)
      <4>1. TypeOK'
        BY <3>4 DEF NativeStart
      <4>2. CallsApart'
        BY <3>4 DEF NativeStart
      <4>3. QED
        BY <4>1, <4>2
    <3>5. CASE NativeStarted(t)
      BY <3>5 DEF NativeStarted
    <3>6. CASE NativeStartFails(t)
      BY <3>6 DEF NativeStartFails
    <3>7. CASE NativeStop(t)
      BY <3>7 DEF NativeStop
    <3>8. CASE NativeStopped(t)
      BY <3>8 DEF NativeStopped
    <3>9. CASE ClearAudio(t)
      BY <3>9 DEF ClearAudio, ClearCallback, SetCallback, SetCallbackFails
    <3>10. CASE ClearVideo(t)
      BY <3>10 DEF ClearVideo, ClearCallback, SetCallback, SetCallbackFails
    <3>11. CASE Release(t)
      BY <3>11 DEF Release
    <3>12. QED
      BY <2>2, <3>1, <3>2, <3>3, <3>4, <3>5, <3>6, <3>7, <3>8, <3>9, <3>10, <3>11 DEF CallStep
  <2>3. ASSUME NEW k \in Kinds, Deliver(k) \/ DeliverEnd(k) PROVE Inv'
    BY <2>3 DEF Deliver, DeliverEnd
  <2>4. CASE UNCHANGED vars
    BY <2>4 DEF vars
  <2>5. QED
    BY <2>1, <2>2, <2>3, <2>4, NextActions
<1>3. QED
  BY <1>1, <1>2, PTL DEF Spec

\* Every step preserves the invariant.
LEMMA ServiceInvStep ==
    ASSUME TypeOK, ServiceInv, [Next]_vars
    PROVE  (Ownership /\ NativeFollows /\ DelegatesOwn /\ CallbacksFollow /\ StoredRooted)'
<1> DEFINE Goal == Ownership /\ NativeFollows /\ DelegatesOwn /\ CallbacksFollow /\ StoredRooted
<1> USE ServiceAssumption DEF TypeOK, ServiceInv, Delegates, Kinds, NoCallbacks, Active, GoTo,
        Return, Registering, Clearing, OwnPoints, managed, recorder, calls
<1>1. ASSUME NEW t \in Threads, CallBegins(t) PROVE Goal'
  <2> USE <1>1 DEF CallBegins, Start, Stop, Dispose, DisposeIdle, PauseOrResume, Begin, MayCall,
          InCall
  <2>1. Ownership'
    BY DEF Ownership
  <2>2. NativeFollows'
    BY DEF Ownership, NativeFollows
  <2>3. DelegatesOwn'
    BY DEF DelegatesOwn
  <2>4. CallbacksFollow'
    BY DEF CallbacksFollow
  <2>5. StoredRooted'
    BY DEF StoredRooted
  <2>6. QED
    BY <2>1, <2>2, <2>3, <2>4, <2>5
<1>2. ASSUME NEW t \in Threads, Acquire(t) PROVE Goal'
  <2> USE <1>2 DEF Acquire, NewDelegates
  <2>1. Ownership'
    BY DEF CallsApart, Ownership
  <2>2. NativeFollows'
    BY DEF Ownership, NativeFollows
  <2>3. DelegatesOwn'
    BY DEF CallsApart, DelegatesOwn
  <2>4. CallbacksFollow'
    BY DEF CallsApart, Ownership, NativeFollows, CallbacksFollow
  <2>5. StoredRooted'
    BY DEF CallsApart, Ownership, StoredRooted
  <2>6. QED
    BY <2>1, <2>2, <2>3, <2>4, <2>5
<1>3. ASSUME NEW t \in Threads, RegisterVideo(t) PROVE Goal'
  <2> USE <1>3 DEF RegisterVideo, RegisterCallback, SetCallback, SetCallbackFails
  <2>1. Ownership'
    BY DEF Ownership
  <2>2. NativeFollows'
    BY DEF NativeFollows
  <2>3. DelegatesOwn'
    BY DEF DelegatesOwn
  <2>4. CallbacksFollow'
    BY DEF Ownership, NativeFollows, CallbacksFollow
  <2>5. StoredRooted'
    BY DEF CallsApart, Ownership, StoredRooted
  <2>6. QED
    BY <2>1, <2>2, <2>3, <2>4, <2>5
<1>4. ASSUME NEW t \in Threads, RegisterAudio(t) PROVE Goal'
  <2> USE <1>4 DEF RegisterAudio, RegisterCallback, SetCallback, SetCallbackFails
  <2>1. Ownership'
    BY DEF Ownership
  <2>2. NativeFollows'
    BY DEF NativeFollows
  <2>3. DelegatesOwn'
    BY DEF DelegatesOwn
  <2>4. CallbacksFollow'
    BY DEF Ownership, NativeFollows, CallbacksFollow
  <2>5. StoredRooted'
    BY DEF CallsApart, Ownership, StoredRooted
  <2>6. QED
    BY <2>1, <2>2, <2>3, <2>4, <2>5
<1>5. ASSUME NEW t \in Threads, NativeStart(t) PROVE Goal'
  <2> USE <1>5 DEF NativeStart
  <2>1. Ownership'
    BY DEF CallsApart, Ownership
  <2>2. NativeFollows'
    BY DEF CallsApart, Ownership, NativeFollows
  <2>3. DelegatesOwn'
    BY DEF DelegatesOwn
  <2>4. CallbacksFollow'
    BY DEF CallbacksFollow
  <2>5. StoredRooted'
    BY DEF StoredRooted
  <2>6. QED
    BY <2>1, <2>2, <2>3, <2>4, <2>5
<1>6. ASSUME NEW t \in Threads, NativeStarted(t) PROVE Goal'
  <2> USE <1>6 DEF NativeStarted
  <2>1. Ownership'
    BY DEF Ownership, NativeFollows
  <2>2. NativeFollows'
    BY DEF NativeFollows
  <2>3. DelegatesOwn'
    BY DEF DelegatesOwn
  <2>4. CallbacksFollow'
    BY DEF NativeFollows, CallbacksFollow
  <2>5. StoredRooted'
    BY DEF StoredRooted
  <2>6. QED
    BY <2>1, <2>2, <2>3, <2>4, <2>5
<1>7. ASSUME NEW t \in Threads, NativeStartFails(t) PROVE Goal'
  <2> USE <1>7 DEF NativeStartFails
  <2>1. Ownership'
    BY DEF Ownership
  <2>2. NativeFollows'
    BY DEF NativeFollows
  <2>3. DelegatesOwn'
    BY DEF DelegatesOwn
  <2>4. CallbacksFollow'
    BY DEF NativeFollows, CallbacksFollow
  <2>5. StoredRooted'
    BY DEF StoredRooted
  <2>6. QED
    BY <2>1, <2>2, <2>3, <2>4, <2>5
<1>8. ASSUME NEW t \in Threads, NativeStop(t) PROVE Goal'
  <2> USE <1>8 DEF NativeStop
  <2>1. Ownership'
    BY DEF Ownership
  <2>2. NativeFollows'
    BY DEF CallsApart, Ownership, NativeFollows
  <2>3. DelegatesOwn'
    BY DEF DelegatesOwn
  <2>4. CallbacksFollow'
    BY DEF NativeFollows, CallbacksFollow
  <2>5. StoredRooted'
    BY DEF StoredRooted
  <2>6. QED
    BY <2>1, <2>2, <2>3, <2>4, <2>5
<1>9. ASSUME NEW t \in Threads, NativeStopped(t) PROVE Goal'
  <2> USE <1>9 DEF NativeStopped
  <2>1. Ownership'
    BY DEF Ownership
  <2>2. NativeFollows'
    BY DEF Ownership, NativeFollows
  <2>3. DelegatesOwn'
    BY DEF DelegatesOwn
  <2>4. CallbacksFollow'
    BY DEF CallbacksFollow
  <2>5. StoredRooted'
    BY DEF StoredRooted
  <2>6. QED
    BY <2>1, <2>2, <2>3, <2>4, <2>5
<1>10. ASSUME NEW t \in Threads, ClearAudio(t) PROVE Goal'
  <2> USE <1>10 DEF ClearAudio, ClearCallback, SetCallback, SetCallbackFails
  <2>1. Ownership'
    BY DEF Ownership
  <2>2. NativeFollows'
    BY DEF NativeFollows
  <2>3. DelegatesOwn'
    BY DEF DelegatesOwn
  <2>4. CallbacksFollow'
    BY DEF CallsApart, Ownership, NativeFollows, CallbacksFollow
  <2>5. StoredRooted'
    BY DEF Ownership, StoredRooted
  <2>6. QED
    BY <2>1, <2>2, <2>3, <2>4, <2>5
<1>11. ASSUME NEW t \in Threads, ClearVideo(t) PROVE Goal'
  <2> USE <1>11 DEF ClearVideo, ClearCallback, SetCallback, SetCallbackFails
  <2>1. Ownership'
    BY DEF Ownership
  <2>2. NativeFollows'
    BY DEF NativeFollows
  <2>3. DelegatesOwn'
    BY DEF DelegatesOwn
  <2>4. CallbacksFollow'
    BY DEF CallsApart, Ownership, NativeFollows, CallbacksFollow
  <2>5. StoredRooted'
    BY DEF Ownership, StoredRooted
  <2>6. QED
    BY <2>1, <2>2, <2>3, <2>4, <2>5
<1>12. ASSUME NEW t \in Threads, Release(t) PROVE Goal'
  <2> USE <1>12 DEF Release
  <2>1. Ownership'
    BY DEF CallsApart, Ownership, NativeFollows
  <2>2. NativeFollows'
    BY DEF CallsApart, Ownership, NativeFollows
  <2>3. DelegatesOwn'
    BY DEF DelegatesOwn
  <2>4. CallbacksFollow'
    BY DEF CallsApart, Ownership, NativeFollows, CallbacksFollow
  <2>5. StoredRooted'
    BY DEF StoredRooted
  <2>6. QED
    BY <2>1, <2>2, <2>3, <2>4, <2>5
<1>13. ASSUME NEW d \in Kinds, Deliver(d) \/ DeliverEnd(d) PROVE Goal'
  <2> USE <1>13 DEF Deliver, DeliverEnd
  <2>1. Ownership'
    BY DEF Ownership
  <2>2. NativeFollows'
    BY DEF NativeFollows
  <2>3. DelegatesOwn'
    BY DEF DelegatesOwn
  <2>4. CallbacksFollow'
    BY DEF CallbacksFollow
  <2>5. StoredRooted'
    BY DEF StoredRooted
  <2>6. QED
    BY <2>1, <2>2, <2>3, <2>4, <2>5
<1>14. ASSUME UNCHANGED vars PROVE Goal'
  <2> USE <1>14 DEF vars
  <2>1. Ownership'
    BY DEF Ownership
  <2>2. NativeFollows'
    BY DEF NativeFollows
  <2>3. DelegatesOwn'
    BY DEF DelegatesOwn
  <2>4. CallbacksFollow'
    BY DEF CallbacksFollow
  <2>5. StoredRooted'
    BY DEF StoredRooted
  <2>6. QED
    BY <2>1, <2>2, <2>3, <2>4, <2>5
<1>15. QED
  BY <1>1, <1>2, <1>3, <1>4, <1>5, <1>6, <1>7, <1>8, <1>9, <1>10, <1>11, <1>12, <1>13, <1>14,
     NextActions DEF CallStep

\* The invariant holds in every reachable state.
THEOREM ServiceInvariant == Spec => [](TypeOK /\ ServiceInv)
<1>1. Init => TypeOK /\ ServiceInv
  <2> SUFFICES ASSUME Init PROVE TypeOK /\ ServiceInv
    OBVIOUS
  <2> USE ServiceAssumption DEF Init, NoCallbacks, Kinds
  <2>1. TypeOK
    BY DEF TypeOK, AtPoints
  <2>2. CallsApart /\ Ownership
    BY DEF CallsApart, Ownership, OwnPoints, Registering, Clearing
  <2>3. NativeFollows
    BY DEF NativeFollows, Registering, Clearing, Threads
  <2>4. DelegatesOwn
    BY DEF DelegatesOwn
  <2>5. CallbacksFollow
    BY DEF CallbacksFollow, Registering
  <2>6. StoredRooted
    BY DEF StoredRooted
  <2>7. QED
    BY <2>1, <2>2, <2>3, <2>4, <2>5, <2>6 DEF ServiceInv
<1>2. TypeOK /\ ServiceInv /\ [Next]_vars /\ CallsApart' => ServiceInv'
  BY ServiceInvStep DEF ServiceInv
<1>3. QED
  BY <1>1, <1>2, TypeCorrect, PTL DEF Spec

\* A recording belongs to an owner that says so, and one that no call is busy with can
\* be stopped: Start, Stop and their failures leave nothing half done.
THEOREM RecordingTruthfulCorrect == Spec => []RecordingTruthful
<1>1. TypeOK /\ ServiceInv => RecordingTruthful
  BY ServiceAssumption DEF TypeOK, ServiceInv, Ownership, NativeFollows, OwnPoints,
     Active, RecordingTruthful, InCall
<1>2. QED
  BY <1>1, ServiceInvariant, PTL

\* A recording that runs calls the delegates of the session that owns it.
THEOREM CallbacksOfOwnerCorrect == Spec => []CallbacksOfOwner
<1>1. TypeOK /\ ServiceInv => CallbacksOfOwner
  BY DEF ServiceInv, CallbacksFollow, CallbacksOfOwner, Active
<1>2. QED
  BY <1>1, ServiceInvariant, PTL

\* Whatever unregistrations fail, native code keeps no delegate that managed code dropped.
THEOREM CallbackTargetRootedCorrect == Spec => []CallbackTargetRooted
<1>1. TypeOK /\ ServiceInv => CallbackTargetRooted
  <2> SUFFICES ASSUME TypeOK, ServiceInv, NEW k \in Kinds,
                      NEW d \in {stored[k], registered[k], delivering[k]} \ {Null}
               PROVE  d \in roots \/ d = field[Target(d)][k]
    BY DEF CallbackTargetRooted
  <2>1. d \in roots \/ (owner \in Sessions /\ d = field[owner][k])
    <3>1. CASE native = "none"
      BY <3>1 DEF TypeOK, ServiceInv, CallbacksFollow, StoredRooted, NoCallbacks
    <3>2. CASE native # "none"
      BY <3>2 DEF TypeOK, ServiceInv, NativeFollows, CallbacksFollow, StoredRooted
    <3>3. QED
      BY <3>1, <3>2
  <2>2. ASSUME owner \in Sessions, d = field[owner][k] PROVE Target(d) = owner
    BY <2>2 DEF ServiceInv, DelegatesOwn, Target
  <2>3. QED
    BY <2>1, <2>2
<1>2. QED
  BY <1>1, ServiceInvariant, PTL

\* A handler that runs belongs to the recording, and that says it records.
THEOREM ObserversSeeRecordingCorrect == Spec => []ObserversSeeRecording
<1>1. TypeOK /\ ServiceInv => ObserversSeeRecording
  <2> SUFFICES ASSUME TypeOK, ServiceInv, NEW k \in Kinds, delivering[k] # Null
               PROVE  recording[Target(delivering[k])]
    BY DEF ObserversSeeRecording
  <2>1. native # "none"
    BY DEF ServiceInv, CallbacksFollow, NoCallbacks
  <2>2. owner \in Sessions /\ recording[owner] /\ delivering[k] = field[owner][k]
    BY <2>1 DEF TypeOK, ServiceInv, NativeFollows, CallbacksFollow
  <2>3. Target(delivering[k]) = owner
    BY <2>2 DEF ServiceInv, DelegatesOwn, Target
  <2>4. QED
    BY <2>2, <2>3
<1>2. QED
  BY <1>1, ServiceInvariant, PTL
-----------------------------------------------------------------------------
(***************************************************************************)
(* The sessions share the recorder as RecorderOwnership says.  Whoever     *)
(* runs in a callback runs for the owner (ServesOwner), so the deliveries  *)
(* in progress are told apart only by whether there are any.               *)
(***************************************************************************)
Serving == {Target(delivering[k]) : k \in {j \in Kinds : delivering[j] # Null}}

\* A delegate that the recorder calls, or could call, is the owner's.
LEMMA ServesOwner ==
    ASSUME TypeOK, ServiceInv, native # "none"
    PROVE  /\ owner \in Sessions
           /\ \A k \in Kinds : Target(registered[k]) = owner
           /\ \A k \in Kinds : delivering[k] # Null => Target(delivering[k]) = owner
<1>1. owner \in Sessions
  BY DEF TypeOK, ServiceInv, NativeFollows
<1>2. \A k \in Kinds : Target(registered[k]) = owner
  BY <1>1 DEF ServiceInv, CallbacksFollow, DelegatesOwn, Target
<1>3. QED
  BY <1>1, <1>2 DEF ServiceInv, CallbacksFollow

\* A step that leaves owner, recorder and deliveries alone.
LEMMA OwnershipUnchanged ==
    ASSUME UNCHANGED << owner, delivering >>, (native' = "none") = (native = "none")
    PROVE  UNCHANGED Recorder!ownershipVars
BY DEF Recorder!ownershipVars

\* The process's recorder is handed from session to session as RecorderOwnership says.
THEOREM ImplementsOwnershipCorrect == Spec => ImplementsOwnership
<1>1. Init => Recorder!Init
  BY DEF Init, NoCallbacks, Recorder!Init
<1>2. TypeOK /\ ServiceInv /\ [Next]_vars => [Recorder!Next]_(Recorder!ownershipVars)
  <2> SUFFICES ASSUME TypeOK, ServiceInv, [Next]_vars
               PROVE  Recorder!Next \/ UNCHANGED Recorder!ownershipVars
    OBVIOUS
  <2> USE ServiceAssumption, OwnershipUnchanged
      DEF managed, recorder, calls, Active, Registering, Clearing, OwnPoints
  <2>1. ASSUME NEW t \in Threads, CallBegins(t) PROVE UNCHANGED Recorder!ownershipVars
    BY <2>1 DEF CallBegins, Start, Stop, Dispose, DisposeIdle, PauseOrResume, Begin, MayCall
  <2>2. ASSUME NEW t \in Threads, Acquire(t)
        PROVE  Recorder!Next \/ UNCHANGED Recorder!ownershipVars
    <3>1. UNCHANGED << native, delivering >> /\ on[t] \in Sessions
      BY <2>2 DEF Acquire, TypeOK, ServiceInv, CallsApart
    <3>2. CASE owner = NoSession /\ owner' = on[t]
      BY <3>1, <3>2 DEF Recorder!Next, Recorder!Acquire
    <3>3. CASE owner' = owner
      BY <3>1, <3>3
    <3>4. QED
      BY <2>2, <3>2, <3>3 DEF Acquire
  <2>3. ASSUME NEW t \in Threads, RegisterVideo(t) \/ RegisterAudio(t)
        PROVE  UNCHANGED Recorder!ownershipVars
    BY <2>3 DEF RegisterVideo, RegisterAudio, RegisterCallback, SetCallback, SetCallbackFails
  <2>4. ASSUME NEW t \in Threads, NativeStart(t)
        PROVE  Recorder!Next \/ UNCHANGED Recorder!ownershipVars
    <3>1. UNCHANGED << owner, delivering >> /\ owner # NoSession
      BY <2>4 DEF NativeStart, TypeOK, ServiceInv, CallsApart, Ownership
    <3>2. CASE native = "none" /\ native' = "starting"
      BY <3>1, <3>2 DEF Recorder!Next, Recorder!GoLive
    <3>3. CASE native' = native
      BY <3>1, <3>3
    <3>4. QED
      BY <2>4, <3>2, <3>3 DEF NativeStart
  <2>5. ASSUME NEW t \in Threads, NativeStarted(t) \/ NativeStartFails(t) \/ NativeStop(t)
        PROVE  UNCHANGED Recorder!ownershipVars
    <3>1. UNCHANGED << owner, delivering >> /\ native # "none" /\ native' # "none"
      BY <2>5 DEF NativeStarted, NativeStartFails, NativeStop, ServiceInv, NativeFollows
    <3>2. QED
      BY <3>1
  <2>6. ASSUME NEW t \in Threads, NativeStopped(t) PROVE Recorder!Next
    <3>1. /\ UNCHANGED << owner, delivering >> /\ delivering = NoCallbacks
          /\ native # "none" /\ native' = "none"
      BY <2>6 DEF NativeStopped, ServiceInv, NativeFollows
    <3>2. QED
      BY <3>1 DEF Recorder!Next, Recorder!EndLive, NoCallbacks
  <2>7. ASSUME NEW t \in Threads, ClearAudio(t) \/ ClearVideo(t)
        PROVE  UNCHANGED Recorder!ownershipVars
    BY <2>7 DEF ClearAudio, ClearVideo, ClearCallback, SetCallback, SetCallbackFails
  <2>8. ASSUME NEW t \in Threads, Release(t) PROVE Recorder!Next
    <3>1. UNCHANGED << native, delivering >> /\ native = "none" /\ owner' = NoSession
      BY <2>8 DEF Release, ServiceInv, Ownership, NativeFollows
    <3>2. QED
      BY <3>1 DEF Recorder!Next, Recorder!Release
  <2>9. ASSUME NEW k \in Kinds, Deliver(k) PROVE Recorder!Next
    <3>1. /\ UNCHANGED << owner, native >> /\ native # "none" /\ registered[k] # Null
          /\ delivering' = [delivering EXCEPT ![k] = registered[k]]
          /\ delivering \in [Kinds -> Delegates \cup {Null}]
      BY <2>9 DEF Deliver, TypeOK
    <3>2. /\ Target(registered[k]) = owner
          /\ \A j \in Kinds : delivering[j] # Null => Target(delivering[j]) = owner
      BY <3>1, ServesOwner
    <3>3. Serving' = Serving \cup {owner}
      BY <3>1, <3>2 DEF Serving
    <3>4. QED
      BY <3>1, <3>3 DEF Serving, Recorder!Next, Recorder!Serve
  <2>10. ASSUME NEW k \in Kinds, DeliverEnd(k)
         PROVE  Recorder!Next \/ UNCHANGED Recorder!ownershipVars
    <3>1. /\ UNCHANGED << owner, native >> /\ delivering[k] # Null
          /\ delivering' = [delivering EXCEPT ![k] = Null]
          /\ delivering \in [Kinds -> Delegates \cup {Null}]
      BY <2>10 DEF DeliverEnd, TypeOK
    <3>2. native # "none"
      BY <3>1 DEF ServiceInv, CallbacksFollow, NoCallbacks
    <3>3. /\ owner \in Sessions
          /\ \A j \in Kinds : delivering[j] # Null => Target(delivering[j]) = owner
      BY <3>2, ServesOwner
    <3>4. Serving' = Serving \/ Serving' = Serving \ {owner}
      BY <3>1, <3>3 DEF Serving
    <3>5. CASE Serving' = Serving
      BY <3>1, <3>5 DEF Serving, Recorder!ownershipVars
    <3>6. CASE Serving' = Serving \ {owner}
      BY <3>1, <3>3, <3>6 DEF Serving, Recorder!Next, Recorder!Served
    <3>7. QED
      BY <3>4, <3>5, <3>6
  <2>11. CASE UNCHANGED vars
    BY <2>11 DEF vars
  <2>12. QED
    BY <2>1, <2>2, <2>3, <2>4, <2>5, <2>6, <2>7, <2>8, <2>9, <2>10, <2>11, NextActions
       DEF CallStep
<1>3. QED
  BY <1>1, <1>2, ServiceInvariant, PTL DEF Spec, ImplementsOwnership, Recorder!Spec
-----------------------------------------------------------------------------
\* Nobody waits in a circle: whoever has the recorder's mutex is in a native start, which
\* waits for nobody, or in a native stop, which waits for handlers; and a thread that runs
\* a handler is in no call, whatever the handler asks for.
NoCyclicWait ==
    /\ mutex # NoOne => mutex \in Clients /\ at[mutex] \in {"starting", "stopping"}
    /\ \A k \in Kinds : at[k] = "idle"

\* The capture threads are never inside a call on a session.
HandlersStayOut == \A k \in Kinds : at[k] = "idle"

\* ThrowIfInsideNativeCallback keeps the handlers out.
LEMMA HandlersStayOutStep ==
    ASSUME TypeOK, HandlersStayOut, [Next]_vars
    PROVE  HandlersStayOut'
<1> USE ServiceAssumption DEF TypeOK, HandlersStayOut, Threads, calls, GoTo, Return
<1>1. ASSUME NEW t \in Threads, CallBegins(t) PROVE HandlersStayOut'
  BY <1>1 DEF CallBegins, Start, Stop, Dispose, DisposeIdle, PauseOrResume, Begin, MayCall,
     RunsClientCode, InsideNativeCallback
<1>2. ASSUME NEW t \in Threads, CallStep(t) PROVE HandlersStayOut'
  <2>1. at[t] # "idle" /\ \A u \in Threads : u # t => at'[u] = at[u]
    BY <1>2 DEF CallStep, Acquire, RegisterVideo, RegisterAudio, RegisterCallback, NativeStart,
       NativeStarted, NativeStartFails, NativeStop, NativeStopped, ClearAudio, ClearVideo,
       ClearCallback, Release
  <2>2. QED
    BY <2>1
<1>3. ASSUME NEW k \in Kinds, Deliver(k) \/ DeliverEnd(k) PROVE HandlersStayOut'
  BY <1>3 DEF Deliver, DeliverEnd
<1>4. ASSUME UNCHANGED vars PROVE HandlersStayOut'
  BY <1>4 DEF vars
<1>5. QED
  BY <1>1, <1>2, <1>3, <1>4, NextActions

\* No call and no handler waits for itself, through the recorder's mutex or the join of a
\* capture thread: the safety half of CallsReturn, for any number of clients.
THEOREM NoCyclicWaitCorrect == Spec => []NoCyclicWait
<1>1. Init => HandlersStayOut
  BY DEF Init, HandlersStayOut, Threads
<1>2. TypeOK /\ HandlersStayOut /\ [Next]_vars => HandlersStayOut'
  BY HandlersStayOutStep
<1>3. TypeOK /\ ServiceInv /\ HandlersStayOut => NoCyclicWait
  BY ServiceAssumption
     DEF TypeOK, ServiceInv, NativeFollows, HandlersStayOut, NoCyclicWait, Threads
<1>4. QED
  BY <1>1, <1>2, <1>3, ServiceInvariant, PTL DEF Spec
=============================================================================
