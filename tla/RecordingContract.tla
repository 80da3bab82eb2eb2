-------------------------- MODULE RecordingContract ---------------------------
(***************************************************************************)
(* What a capture session promises, whatever its sources and its sink do:  *)
(*                                                                         *)
(*   - samples are delivered (written to the file and forwarded to the     *)
(*     client) only while it is live, and only while the file is open;     *)
(*   - it is live at most once, and once over nothing brings it back;      *)
(*   - the file is never shut under a delivery in progress, and never      *)
(*     reopened, so overwritten, after the session went live.              *)
(*                                                                         *)
(* A recorder makes one session after the other: the next one begins only  *)
(* when the last is over, its file shut and nothing delivered any more.    *)
(*                                                                         *)
(* CaptureSession is shown to implement this module as one session, and    *)
(* AudioRecording as a recorder.                                           *)
(***************************************************************************)
CONSTANTS Streams,
          Reusable \* a recorder, not one session

VARIABLES phase,    \* before, live, over
          fileOpen, \* the output file accepts samples
          busy      \* streams with a delivery in progress

contractVars == << phase, fileOpen, busy >>

TypeOK ==
    /\ phase \in {"before", "live", "over"}
    /\ fileOpen \in BOOLEAN
    /\ busy \subseteq Streams

Init == phase = "before" /\ fileOpen = FALSE /\ busy = {}

Prepare ==
    /\ phase = "before"
    /\ fileOpen' \in BOOLEAN
    /\ UNCHANGED << phase, busy >>

GoLive ==
    /\ phase = "before"
    /\ fileOpen
    /\ phase' = "live"
    /\ UNCHANGED << fileOpen, busy >>

Deliver(s) ==
    /\ phase = "live"
    /\ fileOpen
    /\ s \notin busy
    /\ busy' = busy \cup {s}
    /\ UNCHANGED << phase, fileOpen >>

Delivered(s) ==
    /\ s \in busy
    /\ busy' = busy \ {s}
    /\ UNCHANGED << phase, fileOpen >>

\* A session that never went live may be given up too; its file is shut now or later.
GoOver ==
    /\ phase # "over"
    /\ busy = {}
    /\ phase' = "over"
    /\ fileOpen' \in {fileOpen, FALSE}
    /\ UNCHANGED busy

Shut ==
    /\ phase = "over"
    /\ fileOpen' = FALSE
    /\ UNCHANGED << phase, busy >>

\* The next session, with a file of its own.
Renew ==
    /\ Reusable
    /\ phase = "over"
    /\ ~fileOpen
    /\ busy = {}
    /\ phase' = "before"
    /\ fileOpen' \in BOOLEAN
    /\ UNCHANGED busy

Next ==
    \/ Prepare \/ GoLive \/ GoOver \/ Shut \/ Renew
    \/ \E s \in Streams : Deliver(s) \/ Delivered(s)

Spec == Init /\ [][Next]_contractVars
=============================================================================
