---------------------------- MODULE AudioRecording ----------------------------
(***************************************************************************)
(* Audio-only recordings to a WAV file: managed sessions                   *)
(* (AudioCaptureService.cs) over the one native recorder of the process    *)
(* (AudioRecorder.cpp, AudioRecorderImpl.cpp), its capture session and the *)
(* file it writes.                                                         *)
(*                                                                         *)
(* Unlike VideoCaptureService, no managed session owns the recorder, and a *)
(* handler that runs in a callback is turned away by the exports only,     *)
(* when the managed call has begun.                                        *)
(*                                                                         *)
(* A session object is used by one thread at a time.  Sizes are in units   *)
(* of a sample; a 32-bit size counts modulo Wrap.                          *)
(***************************************************************************)
EXTENDS Integers

CONSTANTS Sessions,   \* AudioCaptureSession objects
          Clients,    \* the client's threads
          Capture,    \* the capture thread of the native session
          MaxStarts,  \* bound: Starts
          MaxBytes,   \* bound: size of a file's data
          Packets,    \* sizes of the packets
          Wrap,       \* 2^32
          HeaderSize, \* m_riffSizeWithoutData
          NoSession, NoOne, Null

Threads == Clients \cup {Capture}

ASSUME AudioAssumption ==
    /\ Capture \notin Clients
    /\ MaxStarts \in Nat /\ MaxBytes \in Nat /\ Packets \subseteq Nat \ {0}
    /\ HeaderSize \in Nat /\ Wrap \in Nat \ {0} /\ HeaderSize < Wrap
    /\ NoSession \notin Sessions /\ NoOne \notin Threads
    /\ Null \notin Sessions \X (1..MaxStarts)

VARIABLES
    recording,  \* IsRecording
    disposed,   \* _disposed
    field,      \* _audioSampleCallback
    roots,      \* FailedCallbackUnregistrationRoots
    starts,     \* delegates made so far, one in each Start
    native,     \* the recorder's session: none, starting, active, paused or stopping
    stored,     \* m_audioSampleCallback of the recorder
    registered, \* the callback in the session's registry
    mutex,      \* holder of g_audioRecorderMutex
    startedBy,  \* history: the session whose Start made the native session
    abandoned,  \* history: sessions stopped inside a callback
    packet,     \* size of the packet that the capture thread's callback was let in with, or 0
    delivering, \* the delegate the capture thread is inside
    at, on, op, \* where each thread is, the session and the call
    file,       \* m_file: none, open, or closed with its header patched
    bytes,      \* history: data in the file
    counted,    \* m_dataBytesWritten
    riff, data, \* sizes in the header
    damaged     \* history: a write was cut short, or the header not patched

managed  == << recording, disposed, field, roots, starts >>
recorder == << native, stored, registered, mutex, startedBy >>
calls    == << at, on, op >>
wave     == << file, bytes, counted, riff, data, damaged >>
vars     == << managed, recorder, abandoned, packet, delivering, calls, wave >>

Delegates == Sessions \X (1..MaxStarts)

Init ==
    /\ recording = [s \in Sessions |-> FALSE]
    /\ disposed = [s \in Sessions |-> FALSE]
    /\ field = [s \in Sessions |-> Null]
    /\ roots = {} /\ starts = 0
    /\ native = "none" /\ stored = Null /\ registered = Null
    /\ mutex = NoOne /\ startedBy = NoSession /\ abandoned = {}
    /\ packet = 0 /\ delivering = Null
    /\ at = [t \in Threads |-> "idle"]
    /\ on = [t \in Threads |-> NoSession]
    /\ op = [t \in Threads |-> "none"]
    /\ file = "none" /\ bytes = 0 /\ counted = 0 /\ riff = 0 /\ data = 0
    /\ damaged = FALSE

GoTo(t, p) == at' = [at EXCEPT ![t] = p] /\ UNCHANGED << on, op >>

Return(t) ==
    /\ at' = [at EXCEPT ![t] = "idle"]
    /\ on' = [on EXCEPT ![t] = NoSession]
    /\ op' = [op EXCEPT ![t] = "none"]

\* Mutant: a callback depth that nobody counts.
NeverInside(t) == FALSE

\* RecorderCallbackScope::IsActive.
Inside(t) == t = Capture /\ delivering # Null

\* GuardRecorderCall, and the exports' mutex.
ExportEnters(t) == ~Inside(t) /\ mutex = NoOne

InCall(s) == \E t \in Threads : on[t] = s
-----------------------------------------------------------------------------
(* Managed calls begin.                                                     *)

MayCall(t, s) ==
    /\ at[t] = "idle" /\ ~InCall(s) /\ ~disposed[s]
    /\ t = Capture => delivering # Null

Begin(t, s, o, p) ==
    /\ MayCall(t, s)
    /\ at' = [at EXCEPT ![t] = p]
    /\ on' = [on EXCEPT ![t] = s]
    /\ op' = [op EXCEPT ![t] = o]

Start(t, s) ==
    /\ ~recording[s] /\ starts < MaxStarts
    /\ Begin(t, s, "start", "register")
    /\ starts' = starts + 1
    /\ field' = [field EXCEPT ![s] = << s, starts' >>]
    /\ UNCHANGED << recording, disposed, roots, recorder, abandoned, packet, delivering,
                    wave >>

\* Stop, Cancel, and Dispose, of a session that records.
Stop(t, s) ==
    /\ recording[s]
    /\ \E o \in {"stop", "dispose"} : Begin(t, s, o, "nativeStop")
    /\ UNCHANGED << managed, recorder, abandoned, packet, delivering, wave >>

DisposeIdle(t, s) ==
    /\ MayCall(t, s) /\ ~recording[s]
    /\ disposed' = [disposed EXCEPT ![s] = TRUE]
    /\ UNCHANGED << recording, field, roots, starts, recorder, abandoned, packet, delivering,
                    calls, wave >>

SessionPauses  == native = "active" /\ native' = "paused"
SessionResumes == native = "paused" /\ native' = "active"

\* Pause and Resume ask the recorder, not IsRecording: any session's call pauses or
\* resumes the recording there is.  (IsPaused, which no other call reads, is left out.)
PauseOrResume(t, s) ==
    /\ MayCall(t, s) /\ ExportEnters(t)
    /\ SessionPauses \/ SessionResumes
    /\ UNCHANGED << managed, stored, registered, mutex, startedBy, abandoned, packet,
                    delivering, calls, wave >>
-----------------------------------------------------------------------------
(* Start.                                                                   *)

\* RegisterAudioRecordingSampleCallback: a live session takes the callback first.
SetCallback(t, d) ==
    /\ ExportEnters(t)
    /\ stored' = d
    /\ registered' = IF native \in {"active", "paused"} THEN d ELSE registered
    /\ UNCHANGED << native, mutex, startedBy >>

\* The export refuses inside a callback; or it fails, and the session may have lost the
\* callback it had.
SetCallbackFails(t) ==
    \/ Inside(t) /\ UNCHANGED recorder
    \/ /\ ExportEnters(t)
       /\ registered' \in {registered} \cup
              {r \in {Null} : native \in {"active", "paused"}}
       /\ UNCHANGED << native, stored, mutex, startedBy >>

Register(t) ==
    /\ at[t] = "register"
    /\ \/ SetCallback(t, field[on[t]]) /\ GoTo(t, "nativeStart")
       \/ SetCallbackFails(t) /\ GoTo(t, "clear")
    /\ UNCHANGED << managed, abandoned, packet, delivering, wave >>

\* StartAudioRecording is refused: inside a callback, by the session there is, or by the
\* options and the factory.
NativeStartRefused(t) ==
    /\ at[t] = "nativeStart"
    /\ Inside(t) \/ mutex = NoOne
    /\ GoTo(t, "clear")
    /\ UNCHANGED << managed, recorder, abandoned, packet, delivering, wave >>

\* WindowsWaveSinkWriter::Initialize writes a header whose sizes are still to come.
FileOpens ==
    /\ file' = "open" /\ bytes' = 0 /\ counted' = 0 /\ riff' = 0 /\ data' = 0
    /\ damaged' = FALSE

SessionInitializes == native = "none" /\ native' = "starting" /\ FileOpens

\* A session is created and initialized, and gets the recorder's callback.
CreateSession(t) ==
    /\ at[t] = "nativeStart" /\ ExportEnters(t)
    /\ SessionInitializes
    /\ mutex' = t
    /\ registered' = stored /\ startedBy' = on[t]
    /\ GoTo(t, "starting")
    /\ UNCHANGED << managed, stored, abandoned, packet, delivering >>

\* The sources run; from here packets are let in, although the export has not returned.
SessionActive(t) ==
    /\ at[t] = "starting"
    /\ native' = "active"
    /\ GoTo(t, "activated")
    /\ UNCHANGED << managed, stored, registered, mutex, startedBy, abandoned, packet,
                    delivering, wave >>

NativeStarted(t) ==
    /\ at[t] = "activated"
    /\ mutex' = NoOne
    /\ GoTo(t, "started")
    /\ UNCHANGED << managed, native, stored, registered, startedBy, abandoned, packet,
                    delivering, wave >>

\* Mutant: the session of a failed start stays in the recorder.
StartFailsKept(t) ==
    /\ at[t] = "starting"
    /\ native' = "active" /\ mutex' = NoOne
    /\ GoTo(t, "clear")
    /\ UNCHANGED << managed, stored, registered, startedBy, abandoned, packet, delivering,
                    wave >>

\* The callback is refused, or the source does not start: the session's destructor stops it.
NativeStartFails(t) ==
    /\ at[t] = "starting"
    /\ native' = "stopping" /\ registered' = Null
    /\ GoTo(t, "stopping")
    /\ UNCHANGED << managed, stored, mutex, startedBy, abandoned, packet, delivering, wave >>

\* IsRecording = true, once the export has returned.
Started(t) ==
    /\ at[t] = "started"
    /\ recording' = [recording EXCEPT ![on[t]] = TRUE]
    /\ Return(t)
    /\ UNCHANGED << disposed, field, roots, starts, recorder, abandoned, packet, delivering,
                    wave >>
-----------------------------------------------------------------------------
(* Stop.                                                                    *)

\* The export turns a handler away, that stops the session it is called for or another.
NativeStopRefused(t) ==
    /\ at[t] = "nativeStop" /\ Inside(t)
    /\ abandoned' = abandoned \cup {on[t]}
    /\ GoTo(t, "ended")
    /\ UNCHANGED << managed, recorder, packet, delivering, wave >>

\* StopAudioRecording takes the session out of the recorder, and the callback out of it.
NativeStop(t) ==
    /\ at[t] = "nativeStop" /\ ExportEnters(t)
    /\ native \in {"active", "paused"}
    /\ native' = "stopping" /\ mutex' = t /\ registered' = Null
    /\ GoTo(t, "stopping")
    /\ UNCHANGED << managed, stored, startedBy, abandoned, packet, delivering, wave >>

\* What PatchUInt32 leaves in the header: it may fail.
Patched(size, value) == {size, value}

\* Mutant: the count is cast to 32 bits as it is.
FinalizedTruncated ==
    LET truncated == counted % Wrap
        total     == (HeaderSize + truncated) % Wrap
    IN  /\ file' = "closed"
        /\ data' \in Patched(data, truncated) /\ riff' \in Patched(riff, total)
        /\ damaged' = (damaged \/ data' # truncated \/ riff' # total)
        /\ UNCHANGED << bytes, counted >>

\* FinalizeUnlocked: the size of the data is clamped, the size with the header wraps
\* around.  The errors of the patches are ignored.
Finalized ==
    LET clamped == IF counted < Wrap THEN counted ELSE Wrap - 1
        total   == (HeaderSize + clamped) % Wrap
    IN  /\ file' = "closed"
        /\ data' \in Patched(data, clamped) /\ riff' \in Patched(riff, total)
        /\ damaged' = (damaged \/ data' # clamped \/ riff' # total)
        /\ UNCHANGED << bytes, counted >>

\* Mutant: the file is finalized under the capture thread's callback.
NativeStoppedNoWait(t) ==
    /\ at[t] = "stopping"
    /\ Finalized
    /\ native' = "none" /\ mutex' = NoOne
    /\ GoTo(t, IF op[t] = "start" THEN "clear" ELSE "ended")
    /\ UNCHANGED << managed, stored, registered, startedBy, abandoned, packet, delivering >>

\* The capture thread has left its callback and is joined; then the file is finalized.
NativeStopped(t) ==
    /\ at[t] = "stopping" /\ packet = 0 /\ delivering = Null
    /\ Finalized
    /\ native' = "none" /\ mutex' = NoOne
    /\ GoTo(t, IF op[t] = "start" THEN "clear" ELSE "ended")
    /\ UNCHANGED << managed, stored, registered, startedBy, abandoned, packet, delivering >>

\* The finally block: whatever the export returned, the session does not record.
Ended(t) ==
    /\ at[t] = "ended"
    /\ recording' = [recording EXCEPT ![on[t]] = FALSE]
    /\ GoTo(t, "clear")
    /\ UNCHANGED << disposed, field, roots, starts, recorder, abandoned, packet, delivering,
                    wave >>

\* Mutant: a delegate that could not be unregistered is forgotten.
ClearForgets(t) ==
    /\ at[t] = "clear"
    /\ (SetCallback(t, Null)) \/ SetCallbackFails(t)
    /\ field' = [field EXCEPT ![on[t]] = Null]
    /\ disposed' = [disposed EXCEPT ![on[t]] = @ \/ op[t] = "dispose"]
    /\ Return(t)
    /\ UNCHANGED << recording, roots, starts, abandoned, packet, delivering, wave >>

\* ClearCallback roots a delegate that it could not unregister; Dispose ends with it.
ClearCallback(t) ==
    LET s == on[t]
    IN  /\ at[t] = "clear"
        /\ \/ /\ SetCallback(t, Null)
              /\ field' = [field EXCEPT ![s] = Null]
              /\ UNCHANGED roots
           \/ /\ SetCallbackFails(t)
              /\ roots' = roots \cup ({field[s]} \ {Null})
              /\ UNCHANGED field
        /\ disposed' = [disposed EXCEPT ![s] = @ \/ op[t] = "dispose"]
        /\ Return(t)
        /\ UNCHANGED << recording, starts, abandoned, packet, delivering, wave >>
-----------------------------------------------------------------------------
(* The capture thread.                                                      *)

\* Mutant: bytes are counted before it is known that they were written.
WriteCountsFirst(n) ==
    /\ file = "open"
    /\ counted' = counted + n
    /\ \E k \in 0..n : bytes' = bytes + k /\ damaged' = (damaged \/ k \in 1..(n - 1))
    /\ UNCHANGED << file, riff, data >>

\* WriteAudioSample: all of it is written and counted, or k of it and nothing counted.
WriteAudioSample(n) ==
    /\ file = "open"
    /\ \/ bytes' = bytes + n /\ counted' = counted + n /\ UNCHANGED damaged
       \/ \E k \in 0..(n - 1) : /\ bytes' = bytes + k /\ UNCHANGED counted
                                /\ damaged' = (damaged \/ k > 0)
    /\ UNCHANGED << file, riff, data >>

\* The callback tests that the session is active, and lets a packet in.
Admit ==
    /\ native = "active" /\ packet = 0 /\ delivering = Null
    /\ packet' \in {n \in Packets : bytes + n <= MaxBytes}
    /\ UNCHANGED << managed, recorder, abandoned, delivering, calls, wave >>

\* It is written, and goes to the callback that the registry has then, whatever has become
\* of the session.
Deliver ==
    /\ packet # 0
    /\ WriteAudioSample(packet)
    /\ packet' = 0 /\ delivering' = registered
    /\ UNCHANGED << managed, recorder, abandoned, calls >>

DeliverEnd ==
    /\ delivering # Null /\ at[Capture] = "idle"
    /\ delivering' = Null
    /\ UNCHANGED << managed, recorder, abandoned, packet, calls, wave >>

CallBegins(t) ==
    \E s \in Sessions :
        Start(t, s) \/ Stop(t, s) \/ DisposeIdle(t, s) \/ PauseOrResume(t, s)

CallStep(t) ==
    \/ Register(t) \/ NativeStartRefused(t) \/ CreateSession(t)
    \/ SessionActive(t) \/ NativeStarted(t) \/ NativeStartFails(t) \/ Started(t)
    \/ NativeStopRefused(t) \/ NativeStop(t) \/ NativeStopped(t) \/ Ended(t)
    \/ ClearCallback(t)

Next == \/ \E t \in Threads : CallBegins(t) \/ CallStep(t)
        \/ Admit \/ Deliver \/ DeliverEnd

Spec == Init /\ [][Next]_vars

\* A thread inside a call goes on, as the capture thread does, and a handler returns.
FairSpec == /\ Spec
            /\ \A t \in Threads : WF_vars(CallStep(t))
            /\ WF_vars(Deliver) /\ WF_vars(DeliverEnd)
-----------------------------------------------------------------------------
AtPoints == {"idle", "register", "nativeStart", "starting", "activated", "started",
             "nativeStop", "stopping", "ended", "clear"}

\* The variables' types.
TypeOK ==
    /\ recording \in [Sessions -> BOOLEAN] /\ disposed \in [Sessions -> BOOLEAN]
    /\ field \in [Sessions -> Delegates \cup {Null}] /\ roots \subseteq Delegates
    /\ starts \in 0..MaxStarts
    /\ native \in {"none", "starting", "active", "paused", "stopping"}
    /\ stored \in Delegates \cup {Null} /\ registered \in Delegates \cup {Null}
    /\ packet \in 0..(MaxBytes - bytes) /\ delivering \in Delegates \cup {Null}
    /\ mutex \in Threads \cup {NoOne}
    /\ startedBy \in Sessions \cup {NoSession} /\ abandoned \subseteq Sessions
    /\ at \in [Threads -> AtPoints] /\ on \in [Threads -> Sessions \cup {NoSession}]
    /\ op \in [Threads -> {"none", "start", "stop", "dispose"}]
    /\ file \in {"none", "open", "closed"} /\ damaged \in BOOLEAN
    /\ bytes \in 0..MaxBytes /\ counted \in Nat
    /\ riff \in 0..(Wrap - 1) /\ data \in 0..(Wrap - 1)

\* A session that says it records, outside its own calls, has the recorder, although no
\* session owns it; and a native recording has a session that can stop it, unless that
\* session was stopped inside a callback: IsRecording is false then, and nothing but the
\* process's end will stop the recording.
RecordingStoppable ==
    /\ \A s \in Sessions :
          recording[s] /\ ~InCall(s) => startedBy = s /\ native \in {"active", "paused"}
    /\ native # "none" =>
          recording[startedBy] \/ InCall(startedBy) \/ startedBy \in abandoned

\* Every delegate that the recorder or its session keeps is held by managed code: "Keep it
\* rooted when unregistering fails rather than risking a stale callback"
\* (AudioCaptureService.cs:173-174).
CallbackRooted ==
    \A d \in {stored, registered} \ {Null} : d \in roots \/ d = field[d[1]]

\* The header of a finalized file describes its data: nothing is written after it was
\* patched and nothing that failed is counted, as long as no write was cut short and no
\* patch failed.  Data of 4 GiB and more is described as the most that 32 bits can say; the
\* size with the header is right as long as it fits.
HeaderDescribesFile ==
    file = "closed" /\ ~damaged
        => /\ data = IF bytes < Wrap THEN bytes ELSE Wrap - 1
           /\ HeaderSize + bytes < Wrap => riff = HeaderSize + bytes

\* Whatever fails or is cut short, the header promises no more than the file holds: a
\* reader that trusts it does not read past the end.
HeaderPromisesNoMore ==
    file = "closed" => data <= bytes /\ riff <= HeaderSize + bytes

\* What a thread inside a call may wait for: the exports' mutex, or the handler that the
\* capture thread runs.
WaitsForMutex(t) ==
    at[t] \in {"register", "nativeStart", "nativeStop", "clear"} /\ ~Inside(t) /\ mutex # NoOne
WaitsForHandler(t) == at[t] = "stopping" /\ delivering # Null

\* Nobody waits in a circle: whoever has the mutex waits for the handler at most, and the
\* capture thread, whose client code may call any session, waits for nobody.
NoCyclicWait ==
    /\ mutex # NoOne => ~WaitsForMutex(mutex)
    /\ ~WaitsForMutex(Capture) /\ ~WaitsForHandler(Capture)

\* A session that stops, unless it never started, is live until its thread is joined.
StopsLive == native = "stopping" /\ op[mutex] # "start"

\* The recording in the contract's terms.
RecordingPhase ==
    IF native \in {"active", "paused"} \/ StopsLive THEN "live"
    ELSE IF native = "none" /\ file = "closed" THEN "over" ELSE "before"

\* What the client and the file see of the recorder.
Contract == INSTANCE RecordingContract WITH
    Streams <- {Capture},
    Reusable <- TRUE,
    phase <- RecordingPhase,
    fileOpen <- file = "open",
    busy <- IF packet = 0 /\ delivering = Null THEN {} ELSE {Capture}

\* Whichever sessions start and stop it, and whatever fails, the recorder makes one recording
\* after the other: a packet is let in, written and handled only while its recording is live
\* and its file open, and no file is finalized, and no other begun, under a packet.
ImplementsContract == Contract!Spec

\* Every call returns, although Stop holds the recorder's mutex while it waits for a
\* capture thread that runs client code, which may call any session.
CallsReturn == \A t \in Threads : (at[t] # "idle") ~> (at[t] = "idle")
=============================================================================
