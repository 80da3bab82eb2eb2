-------------------------- MODULE VideoCaptureService --------------------------
(***************************************************************************)
(* Managed recording sessions over the one native recorder of the process  *)
(* (VideoCaptureService.cs; ScreenRecorder.cpp, ScreenRecorderImpl.cpp).   *)
(*                                                                         *)
(* Every managed session calls the same exports.  An export takes          *)
(* g_recorderMutex, so a native call is one step, except a Start and a     *)
(* Stop: the capture threads call into the client while these run.         *)
(*                                                                         *)
(* A session object is used by one thread at a time, different sessions by *)
(* different threads.  A capture thread runs client code while it is in a  *)
(* callback, and that code may try to call any session.                    *)
(***************************************************************************)
EXTENDS Naturals

CONSTANTS Sessions,  \* VideoCaptureSession objects
          Clients,   \* the client's threads
          MaxStarts, \* bound: number of Starts that acquire the recorder
          NoSession, \* no session owns the recorder
          NoOne,     \* nobody holds g_recorderMutex
          Null       \* no callback

Kinds   == {"video", "audio"}   \* callbacks, and the capture threads that call them
Threads == Clients \cup Kinds

ASSUME ServiceAssumption ==
    /\ Clients \cap Kinds = {}
    /\ NoSession \notin Sessions
    /\ NoOne \notin Threads
    /\ MaxStarts \in Nat
    /\ Null \notin Kinds \X Sessions \X (1..MaxStarts)

VARIABLES
    owner,      \* s_activeSession
    recording,  \* IsRecording
    disposed,   \* _disposed
    field,      \* _videoFrameCallback and _audioSampleCallback
    roots,      \* FailedCallbackUnregistrationRoots
    starts,     \* delegates made so far, two in each Start
    native,     \* the recorder's session: none, starting, active, paused or stopping
    stored,     \* m_videoFrameCallback and m_audioSampleCallback of the recorder
    registered, \* the callbacks that the native session calls
    delivering, \* the delegate a capture thread is inside
    mutex,      \* holder of g_recorderMutex
    at,         \* where each thread is
    on,         \* the session it is calling
    op          \* the call it is making

managed  == << owner, recording, disposed, field, roots, starts >>
recorder == << native, stored, registered, mutex >>
calls    == << at, on, op >>
vars     == << managed, recorder, delivering, calls >>

Delegates == Kinds \X Sessions \X (1..MaxStarts)
Target(d) == d[2]

\* CaptureSessionStateMachine::IsActive.
Active == {"active", "paused"}

NoCallbacks == [k \in Kinds |-> Null]

Init ==
    /\ owner = NoSession
    /\ recording = [s \in Sessions |-> FALSE]
    /\ disposed = [s \in Sessions |-> FALSE]
    /\ field = [s \in Sessions |-> NoCallbacks]
    /\ roots = {}
    /\ starts = 0
    /\ native = "none"
    /\ stored = NoCallbacks
    /\ registered = NoCallbacks
    /\ delivering = NoCallbacks
    /\ mutex = NoOne
    /\ at = [t \in Threads |-> "idle"]
    /\ on = [t \in Threads |-> NoSession]
    /\ op = [t \in Threads |-> "none"]

\* A call goes on at p, or it is over.
GoTo(t, p) == at' = [at EXCEPT ![t] = p] /\ UNCHANGED << on, op >>

Return(t) ==
    /\ at' = [at EXCEPT ![t] = "idle"]
    /\ on' = [on EXCEPT ![t] = NoSession]
    /\ op' = [op EXCEPT ![t] = "none"]
-----------------------------------------------------------------------------
(* Calls begin.                                                             *)

\* Mutant: a thread-local depth that nobody counts.
NeverInsideCallback(t) == FALSE

\* s_nativeCallbackDepth and g_recorderCallbackDepth of the thread are not 0.
InsideNativeCallback(t) == t \in {k \in Kinds : delivering[k] # Null}

RunsClientCode(t) == t \in Clients \cup {k \in Kinds : delivering[k] # Null}

InCall(s) == \E t \in Threads : on[t] = s

\* ThrowIfDisposed and ThrowIfInsideNativeCallback come before everything else.
MayCall(t, s) ==
    /\ at[t] = "idle" /\ ~InCall(s)
    /\ RunsClientCode(t) /\ ~InsideNativeCallback(t)
    /\ ~disposed[s]

Begin(t, s, o, p) ==
    /\ MayCall(t, s)
    /\ at' = [at EXCEPT ![t] = p]
    /\ on' = [on EXCEPT ![t] = s]
    /\ op' = [op EXCEPT ![t] = o]
    /\ UNCHANGED << owner, recording, disposed, field, roots, recorder, delivering >>

Start(t, s) ==
    /\ ~recording[s]
    /\ starts < MaxStarts
    /\ starts' = starts + 1
    /\ Begin(t, s, "start", "acquire")

\* Stop and Cancel; of a session that does not record they do nothing.
Stop(t, s) ==
    /\ recording[s]
    /\ Begin(t, s, "stop", "nativeStop")
    /\ UNCHANGED starts

\* Dispose cancels a recording first.
Dispose(t, s) ==
    /\ recording[s]
    /\ Begin(t, s, "dispose", "nativeStop")
    /\ UNCHANGED starts

DisposeIdle(t, s) ==
    /\ MayCall(t, s)
    /\ ~recording[s]
    /\ disposed' = [disposed EXCEPT ![s] = TRUE]
    /\ UNCHANGED << owner, recording, field, roots, starts, recorder, delivering, calls >>

\* Pause and Resume ask the recorder, not IsRecording or the owner: any session's call pauses
\* or resumes the recording there is.  (IsPaused, which no other call reads, is left out.)
PauseOrResume(t, s) ==
    /\ MayCall(t, s)
    /\ mutex = NoOne
    /\ \/ native = "active" /\ native' = "paused"
       \/ native = "paused" /\ native' = "active"
    /\ UNCHANGED << managed, stored, registered, mutex, delivering, calls >>
-----------------------------------------------------------------------------
(* Start.                                                                   *)

\* Delegates for this Start, one of each kind.
NewDelegates(s) == [k \in Kinds |-> << k, s, starts >>]

\* Mutant: the owner of the recorder is replaced.
AcquireAnyway(t) ==
    LET s == on[t]
    IN  /\ at[t] = "acquire"
        /\ owner' = s
        /\ field' = [field EXCEPT ![s] = NewDelegates(s)]
        /\ GoTo(t, "registerVideo")
        /\ UNCHANGED << recording, disposed, roots, starts, recorder, delivering >>

\* AcquireProcessOwnership, and new delegates in the fields; or it throws, before
\* the try block, and Start is over.
Acquire(t) ==
    LET s == on[t]
    IN  /\ at[t] = "acquire"
        /\ \/ /\ owner \in {NoSession, s}
              /\ owner' = s
              /\ field' = [field EXCEPT ![s] = NewDelegates(s)]
              /\ GoTo(t, "registerVideo")
           \/ /\ owner \notin {NoSession, s}
              /\ Return(t)
              /\ UNCHANGED << owner, field >>
        /\ UNCHANGED << recording, disposed, roots, starts, recorder, delivering >>

\* RegisterVideoFrameCallback and RegisterAudioSampleCallback: a live session takes
\* the callback first, and the recorder keeps it for the sessions to come.
SetCallback(k, d) ==
    /\ mutex = NoOne
    /\ stored' = [stored EXCEPT ![k] = d]
    /\ registered' = IF native \in Active THEN [registered EXCEPT ![k] = d] ELSE registered
    /\ UNCHANGED << native, mutex >>

\* The call fails: the live session may have dropped the callback it had.
SetCallbackFails(k) ==
    /\ mutex = NoOne
    /\ registered' \in {registered} \cup
           {r \in {[registered EXCEPT ![k] = Null]} : native \in Active}
    /\ UNCHANGED << native, stored, mutex >>

\* EnsureSuccess throws into the catch block when a registration fails.
RegisterCallback(t, k, here, next) ==
    LET s == on[t]
    IN  /\ at[t] = here
        /\ \/ SetCallback(k, field[s][k]) /\ GoTo(t, next)
           \/ SetCallbackFails(k) /\ GoTo(t, "clearAudio")
        /\ UNCHANGED << managed, delivering >>

RegisterVideo(t) == RegisterCallback(t, "video", "registerVideo", "registerAudio")
RegisterAudio(t) == RegisterCallback(t, "audio", "registerAudio", "nativeStart")

\* Mutant: IsRecording is set when the native call has returned.
NativeStartUnpublished(t) ==
    /\ at[t] = "nativeStart"
    /\ mutex = NoOne
    /\ native = "none"
    /\ native' = "starting"
    /\ registered' = stored
    /\ mutex' = t
    /\ GoTo(t, "starting")
    /\ UNCHANGED << managed, stored, delivering >>

\* IsRecording = true, then StartScreenRecording: a session with the stored callbacks
\* is created and starts; or none is created: the recorder has one, or the options, the
\* factory or a callback refuse.
NativeStart(t) ==
    LET s == on[t]
    IN  /\ at[t] = "nativeStart"
        /\ mutex = NoOne
        /\ \/ /\ native = "none"
              /\ native' = "starting"
              /\ registered' = stored
              /\ mutex' = t
              /\ recording' = [recording EXCEPT ![s] = TRUE]
              /\ GoTo(t, "starting")
           \/ /\ recording' = [recording EXCEPT ![s] = FALSE]
              /\ GoTo(t, "clearAudio")
              /\ UNCHANGED << native, registered, mutex >>
        /\ UNCHANGED << owner, disposed, field, roots, starts, stored, delivering >>

NativeStarted(t) ==
    /\ at[t] = "starting"
    /\ native' = "active"
    /\ mutex' = NoOne
    /\ Return(t)
    /\ UNCHANGED << managed, stored, registered, delivering >>

\* Mutant: the session of a failed start is kept.
NativeStartFailsKept(t) ==
    /\ at[t] = "starting"
    /\ native' = "active"
    /\ mutex' = NoOne
    /\ recording' = [recording EXCEPT ![on[t]] = FALSE]
    /\ GoTo(t, "clearAudio")
    /\ UNCHANGED << owner, disposed, field, roots, starts, stored, registered,
                    delivering >>

\* The session does not start: the rollback stops it.
NativeStartFails(t) ==
    /\ at[t] = "starting"
    /\ native' = "stopping"
    /\ GoTo(t, "stopping")
    /\ UNCHANGED << managed, stored, registered, mutex, delivering >>
-----------------------------------------------------------------------------
(* Stop, Cancel, Dispose and the catch block of Start.                      *)

\* StopScreenRecording moves the session, if there is one, out of the recorder and
\* stops it.
NativeStop(t) ==
    /\ at[t] = "nativeStop"
    /\ mutex = NoOne
    /\ native' = "stopping"
    /\ mutex' = t
    /\ GoTo(t, "stopping")
    /\ UNCHANGED << managed, stored, registered, delivering >>

\* Mutant: the session is destroyed under the capture threads' callbacks.
NativeStoppedNoWait(t) ==
    /\ at[t] = "stopping"
    /\ native' = "none"
    /\ registered' = NoCallbacks
    /\ mutex' = NoOne
    /\ recording' = [recording EXCEPT ![on[t]] = FALSE]
    /\ GoTo(t, "clearAudio")
    /\ UNCHANGED << owner, disposed, field, roots, starts, stored, delivering >>

\* The session is gone when its threads are out of their callbacks; whatever the
\* call returned, IsRecording = false in the finally block.
NativeStopped(t) ==
    /\ at[t] = "stopping"
    /\ delivering = NoCallbacks
    /\ native' = "none"
    /\ registered' = NoCallbacks
    /\ mutex' = NoOne
    /\ recording' = [recording EXCEPT ![on[t]] = FALSE]
    /\ GoTo(t, "clearAudio")
    /\ UNCHANGED << owner, disposed, field, roots, starts, stored, delivering >>

\* Mutant: a delegate that could not be unregistered is forgotten.
ClearCallbackForgets(t, k, here, next) ==
    LET s == on[t]
    IN  /\ at[t] = here
        /\ \/ SetCallback(k, Null)
           \/ SetCallbackFails(k)
        /\ field' = [field EXCEPT ![s][k] = Null]
        /\ GoTo(t, next)
        /\ UNCHANGED << owner, recording, disposed, roots, starts, delivering >>

\* ClearCallbacks: a delegate that could not be unregistered is rooted for ever.
ClearCallback(t, k, here, next) ==
    LET s == on[t]
    IN  /\ at[t] = here
        /\ \/ /\ SetCallback(k, Null)
              /\ field' = [field EXCEPT ![s][k] = Null]
              /\ UNCHANGED roots
           \/ /\ SetCallbackFails(k)
              /\ roots' = roots \cup ({field[s][k]} \ {Null})
              /\ UNCHANGED field
        /\ GoTo(t, next)
        /\ UNCHANGED << owner, recording, disposed, starts, delivering >>

ClearAudio(t) == ClearCallback(t, "audio", "clearAudio", "clearVideo")
ClearVideo(t) == ClearCallback(t, "video", "clearVideo", "release")

\* ReleaseProcessOwnership; Dispose then sets _disposed.
Release(t) ==
    LET s == on[t]
    IN  /\ at[t] = "release"
        /\ owner' = IF owner = s THEN NoSession ELSE owner
        /\ disposed' = [disposed EXCEPT ![s] = @ \/ op[t] = "dispose"]
        /\ Return(t)
        /\ UNCHANGED << recording, field, roots, starts, recorder, delivering >>
-----------------------------------------------------------------------------
(* The capture threads.                                                     *)

\* A delivery begins when it passes the session's check of its shutdown flag: in a pause
\* too, video frames still arrive and an audio packet may be in hand.
Deliver(k) ==
    /\ native \in Active \cup {"starting"}
    /\ delivering[k] = Null
    /\ registered[k] # Null
    /\ delivering' = [delivering EXCEPT ![k] = registered[k]]
    /\ UNCHANGED << managed, recorder, calls >>

DeliverEnd(k) ==
    /\ delivering[k] # Null
    /\ at[k] = "idle"
    /\ delivering' = [delivering EXCEPT ![k] = Null]
    /\ UNCHANGED << managed, recorder, calls >>

CallBegins(t) ==
    \E s \in Sessions :
        Start(t, s) \/ Stop(t, s) \/ Dispose(t, s) \/ DisposeIdle(t, s) \/ PauseOrResume(t, s)

CallStep(t) ==
    \/ Acquire(t) \/ RegisterVideo(t) \/ RegisterAudio(t)
    \/ NativeStart(t) \/ NativeStarted(t) \/ NativeStartFails(t)
    \/ NativeStop(t) \/ NativeStopped(t)
    \/ ClearAudio(t) \/ ClearVideo(t) \/ Release(t)

Next == \/ \E t \in Threads : CallBegins(t) \/ CallStep(t)
        \/ \E k \in Kinds : Deliver(k) \/ DeliverEnd(k)

Spec == Init /\ [][Next]_vars

\* A thread inside a call or a callback goes on; the mutex is given to a waiter.
FairSpec == /\ Spec
            /\ \A t \in Threads : WF_vars(CallStep(t))
            /\ \A k \in Kinds : WF_vars(DeliverEnd(k))
-----------------------------------------------------------------------------
AtPoints == {"idle", "acquire", "registerVideo", "registerAudio", "nativeStart",
             "starting", "nativeStop", "stopping", "clearAudio", "clearVideo", "release"}

\* The shape of the state.
TypeOK ==
    /\ owner \in Sessions \cup {NoSession}
    /\ recording \in [Sessions -> BOOLEAN]
    /\ disposed \in [Sessions -> BOOLEAN]
    /\ field \in [Sessions -> [Kinds -> Delegates \cup {Null}]]
    /\ roots \subseteq Delegates
    /\ starts \in 0..MaxStarts
    /\ native \in {"none", "starting", "active", "paused", "stopping"}
    /\ stored \in [Kinds -> Delegates \cup {Null}]
    /\ registered \in [Kinds -> Delegates \cup {Null}]
    /\ delivering \in [Kinds -> Delegates \cup {Null}]
    /\ mutex \in Threads \cup {NoOne}
    /\ at \in [Threads -> AtPoints]
    /\ on \in [Threads -> Sessions \cup {NoSession}]
    /\ op \in [Threads -> {"none", "start", "stop", "dispose"}]

\* The native recorder never runs for nobody, and a session that says it is
\* recording, outside its own calls, has the recorder: no failure in the middle of a
\* Start or a Stop leaves a recording that nobody can stop.
RecordingTruthful ==
    /\ native # "none" => owner # NoSession /\ recording[owner]
    /\ \A s \in Sessions : recording[s] /\ ~InCall(s) => owner = s /\ native \in Active

\* While a recording runs, the native callbacks are those of the session that owns
\* it, whatever other sessions try meanwhile and whatever registrations failed before.
CallbacksOfOwner ==
    native \in Active \cup {"starting"} =>
        \A k \in Kinds : registered[k] = field[owner][k] /\ registered[k] # Null

\* Every delegate native code may still call is held by managed code: "A small
\* intentional leak is safer than allowing GC to invalidate that pointer" (363-364).
CallbackTargetRooted ==
    \A k \in Kinds : \A d \in {stored[k], registered[k], delivering[k]} \ {Null} :
        d \in roots \/ d = field[Target(d)][k]

\* A handler never runs for a session whose IsRecording is false: "Publish the
\* starting state first so callback observers see a coherent session" (98-99).
ObserversSeeRecording ==
    \A k \in Kinds : delivering[k] # Null => recording[Target(delivering[k])]

\* What the sessions, together, do with the recorder.
Recorder == INSTANCE RecorderOwnership WITH
    live <- native # "none",
    serving <- {Target(delivering[k]) : k \in {j \in Kinds : delivering[j] # Null}}

\* Whatever sessions, threads and failures do, the recorder passes from a session to the
\* next between recordings only, and no handler of the one outlives its recording.
ImplementsOwnership == Recorder!Spec

\* Every call returns, although a Stop waits, with the recorder's mutex, for capture
\* threads that run client code.
CallsReturn == \A t \in Threads : (at[t] # "idle") ~> (at[t] = "idle")
=============================================================================
