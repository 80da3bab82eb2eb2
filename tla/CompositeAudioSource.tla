------------------------- MODULE CompositeAudioSource -------------------------
(***************************************************************************)
(* CompositeAudioCaptureSource: system audio with a microphone mixed in,   *)
(* the microphone switched while the recording runs.                       *)
(*                                                                         *)
(* The recorders' mutexes let one control call in at a time.  The capture  *)
(* threads of the loopback source and of every running input source        *)
(* deliver packets between any two of its steps.  A source is as           *)
(* AudioCaptureHandler promises: it does not start again after a stop, and *)
(* delivers nothing once its Stop returned.                                *)
(***************************************************************************)
EXTENDS MixBuffer

CONSTANTS Sources, \* bound: input source objects that are ever created
          NoSource

ASSUME SourceAssumption == NoSource \notin Sources

VARIABLES loopback, \* state of m_loopbackSource
          input,    \* m_inputSource
          state,    \* state of each input source
          silent,   \* input sources whose callback was cleared
          callback, \* m_callback is set
          running,  \* m_isRunning
          pc,       \* where the control call is
          new,      \* the source that TryCreateInputSource is preparing
          old,      \* the source that was moved out of m_inputSource
          held      \* history: sources with frames in the buffer

sources == << loopback, input, state, silent, callback, running >>
call    == << pc, new, old >>
vars    == << buffer, sources, call, held >>

States == {"none", "ready", "running", "stopped"}

Points == {"idle", "create", "start", "swap", "stopOld", "clear",
           "startInput", "stopInput", "stopLoopback"}

Init ==
    /\ BufferInit
    /\ loopback = "none" /\ input = NoSource /\ running = FALSE
    /\ state = [s \in Sources |-> "none"]
    /\ silent = {} /\ callback = FALSE
    /\ pc = "idle" /\ new = NoSource /\ old = NoSource
    /\ held = {}

Become(s, st) == state' = [state EXCEPT ![s] = st]
GoTo(p)       == pc' = p
-----------------------------------------------------------------------------
(* Initialize, and SetInputDeviceId.                                        *)

\* The loopback source is created; its failure ends the call.
InitializeFails ==
    /\ pc = "idle" /\ loopback = "none"
    /\ loopback' = "stopped"
    /\ UNCHANGED << buffer, held, input, state, silent, callback, running, call >>

InitializeSource ==
    /\ pc = "idle" /\ loopback = "none"
    /\ loopback' = "ready"
    /\ pc' \in {"idle", "create"}
    /\ UNCHANGED << buffer, held, input, state, silent, callback, running, new, old >>

\* SetInputDeviceId of a device.
SelectDevice ==
    /\ pc = "idle" /\ loopback # "none"
    /\ GoTo("create")
    /\ UNCHANGED << buffer, held, sources, new, old >>

\* SetInputDeviceId of no device: the input is moved out, stopped, and its frames go.
SelectNothing ==
    /\ pc = "idle" /\ loopback # "none"
    /\ old' = input /\ input' = NoSource
    /\ GoTo("stopOld")
    /\ UNCHANGED << buffer, held, loopback, state, silent, callback, running, new >>

\* TryCreateInputSource fails before the source can run: the old one stays.
CreateFails ==
    /\ pc = "create"
    /\ GoTo("idle")
    /\ UNCHANGED << buffer, held, sources, new, old >>

\* Its callback, clock and volume are set before its Initialize succeeds.
Create ==
    /\ pc = "create"
    /\ \E s \in Sources : state[s] = "none" /\ new' = s /\ Become(s, "ready")
    /\ GoTo(IF running THEN "start" ELSE "swap")
    /\ UNCHANGED << buffer, held, loopback, input, silent, callback, running, old >>

StartNew ==
    /\ pc = "start"
    /\ Become(new, "running") /\ GoTo("swap")
    /\ UNCHANGED << buffer, held, loopback, input, silent, callback, running, new, old >>

\* The source that failed to start is destroyed, and the switch ends.
StartNewFails ==
    /\ pc = "start"
    /\ Become(new, "stopped") /\ GoTo("idle") /\ new' = NoSource
    /\ UNCHANGED << buffer, held, loopback, input, silent, callback, running, old >>

Swap ==
    /\ pc = "swap"
    /\ old' = input /\ input' = new /\ new' = NoSource
    /\ GoTo("stopOld")
    /\ UNCHANGED << buffer, held, loopback, state, silent, callback, running >>

\* Mutant: the buffer keeps the frames of the source that was stopped.
StopOldOnly ==
    /\ pc = "stopOld"
    /\ IF old = NoSource THEN UNCHANGED state ELSE Become(old, "stopped")
    /\ old' = NoSource /\ GoTo("idle")
    /\ UNCHANGED << buffer, held, loopback, input, silent, callback, running, new >>

\* Mutant: the source moved out is not stopped.
DropOld ==
    /\ pc = "stopOld"
    /\ old' = NoSource /\ GoTo("clear")
    /\ UNCHANGED << buffer, held, sources, new >>

\* The source moved out is stopped, and destroyed when the call returns.
StopOld ==
    /\ pc = "stopOld"
    /\ IF old = NoSource THEN UNCHANGED state ELSE Become(old, "stopped")
    /\ old' = NoSource /\ GoTo("clear")
    /\ UNCHANGED << buffer, held, loopback, input, silent, callback, running, new >>

\* ClearInputBuffer, the last step of every call that has it.
ClearInputBuffer ==
    /\ pc = "clear"
    /\ Clear /\ held' = {}
    /\ GoTo("idle")
    /\ UNCHANGED << sources, new, old >>
-----------------------------------------------------------------------------
(* Start, Stop and SetAudioSampleReadyCallback.                             *)

\* Start of a source that is running, was stopped or never initialized is refused.
StartLoopback ==
    /\ pc = "idle" /\ ~running /\ loopback = "ready"
    /\ loopback' = "running" /\ running' = TRUE
    /\ GoTo("startInput")
    /\ UNCHANGED << buffer, held, input, state, silent, callback, new, old >>

StartLoopbackFails ==
    /\ pc = "idle" /\ ~running /\ loopback = "ready"
    /\ loopback' = "stopped"
    /\ UNCHANGED << buffer, held, input, state, silent, callback, running, call >>

StartInput ==
    /\ pc = "startInput"
    /\ IF input # NoSource /\ state[input] = "ready"
       THEN Become(input, "running") ELSE UNCHANGED state
    /\ GoTo("idle")
    /\ UNCHANGED << buffer, held, loopback, input, silent, callback, running, new, old >>

\* A source that does not start is moved out, and the recording goes on without it.
StartInputFails ==
    /\ pc = "startInput" /\ input # NoSource
    /\ old' = input /\ input' = NoSource
    /\ GoTo("stopOld")
    /\ UNCHANGED << buffer, held, loopback, state, silent, callback, running, new >>

Stop ==
    /\ pc = "idle" /\ loopback # "none"
    /\ running' = FALSE
    /\ GoTo("stopInput")
    /\ UNCHANGED << buffer, held, loopback, input, state, silent, callback, new, old >>

StopInput ==
    /\ pc = "stopInput"
    /\ IF input = NoSource THEN UNCHANGED state ELSE Become(input, "stopped")
    /\ GoTo("stopLoopback")
    /\ UNCHANGED << buffer, held, loopback, input, silent, callback, running, new, old >>

StopLoopback ==
    /\ pc = "stopLoopback"
    /\ loopback' = "stopped"
    /\ GoTo("clear")
    /\ UNCHANGED << buffer, held, input, state, silent, callback, running, new, old >>

SetAudioSampleReadyCallback(set) ==
    /\ pc = "idle" /\ loopback # "none"
    /\ callback' = set
    /\ silent' = IF input = NoSource THEN silent
                 ELSE IF set THEN silent \ {input} ELSE silent \cup {input}
    /\ UNCHANGED << buffer, held, loopback, input, state, running, call >>
-----------------------------------------------------------------------------
(* The capture threads.                                                     *)

OnInputSample(s) ==
    /\ state[s] = "running" /\ s \notin silent
    /\ \E n \in Packets, r \in Rates :
          /\ Insert(n, r)
          /\ held' = (IF rate = r THEN held ELSE {}) \cup {s}
    /\ UNCHANGED << sources, call >>

\* The mixed packet goes to the callback; the buffer changes only when frames were mixed.
OnLoopbackSample ==
    /\ loopback = "running" /\ callback
    /\ \E n \in Packets : Mix(n)
    /\ held' = IF len' = 0 THEN {} ELSE held
    /\ UNCHANGED << sources, call >>

ControlStep ==
    \/ InitializeFails \/ InitializeSource
    \/ SelectDevice \/ SelectNothing \/ CreateFails \/ Create
    \/ StartNew \/ StartNewFails \/ Swap \/ StopOld \/ ClearInputBuffer
    \/ StartLoopback \/ StartLoopbackFails \/ StartInput \/ StartInputFails
    \/ Stop \/ StopInput \/ StopLoopback
    \/ \E set \in BOOLEAN : SetAudioSampleReadyCallback(set)

Next == ControlStep \/ OnLoopbackSample \/ \E s \in Sources : OnInputSample(s)

Spec == Init /\ [][Next]_vars
-----------------------------------------------------------------------------
\* The variables' types; a source is in preparation, or moved out, only inside the call
\* that does it (SetInputDeviceId, Start).
TypeOK ==
    /\ BufferTypeOK
    /\ loopback \in States /\ state \in [Sources -> States]
    /\ input \in Sources \cup {NoSource}
    /\ new \in Sources \cup {NoSource} /\ old \in Sources \cup {NoSource}
    /\ silent \subseteq Sources /\ callback \in BOOLEAN /\ running \in BOOLEAN
    /\ pc \in Points
    /\ held \subseteq Sources
    /\ new # NoSource => pc \in {"start", "swap"}
    /\ old # NoSource => pc = "stopOld"

\* When SetInputDeviceId or Stop has returned, no frame of another microphone is left to
\* be mixed in: a microphone that was switched off is not heard from then on.
OnlyCurrentSource == pc = "idle" => held \subseteq {input}

\* Between calls of a running recording the selected microphone captures, and no other
\* does; when it is not running, none does.  However the starts and initializations inside
\* a switch failed, no source goes on capturing that nothing will stop, and none is left
\* attached and silent.
OnlySelectedCaptures ==
    pc = "idle" =>
        {s \in Sources : state[s] = "running"} = IF running THEN {input} \ {NoSource} ELSE {}
=============================================================================
