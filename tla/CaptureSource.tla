----------------------------- MODULE CaptureSource ------------------------------
(***************************************************************************)
(* What a capture source promises to the one that uses it:                 *)
(*                                                                         *)
(*   - it admits a delivery only between its start and the moment it is    *)
(*     asked to stop, one at a time.  The test that admits a delivery and  *)
(*     the call that begins it are two steps of the source's thread, so a  *)
(*     source asked to stop may still begin the one it has admitted, and   *)
(*     no other;                                                           *)
(*   - it is stopped only when no delivery is admitted or in progress, and *)
(*     then nothing starts it again, unless it is prepared anew.           *)
(*                                                                         *)
(* FrameArrivedHandler and AudioCaptureHandler are shown to implement this *)
(* module, and CaptureSession, in which a source is only its state, to     *)
(* use its two sources in this way: it assumes of them what they promise.  *)
(***************************************************************************)
CONSTANT Reusable \* a stopped source can be prepared for another start

VARIABLES phase,   \* new, running, stopping or stopped
          delivery \* none, admitted by the test of the running flag, or begun

sourceVars == << phase, delivery >>

TypeOK == /\ phase \in {"new", "running", "stopping", "stopped"}
          /\ delivery \in {"none", "admitted", "begun"}

Init == phase = "new" /\ delivery = "none"

Start ==
    /\ phase = "new"
    /\ phase' = "running"
    /\ UNCHANGED delivery

Admit ==
    /\ phase = "running"
    /\ delivery = "none"
    /\ delivery' = "admitted"
    /\ UNCHANGED phase

\* The source may have been asked to stop since it admitted the delivery.
Deliver ==
    /\ delivery = "admitted"
    /\ delivery' = "begun"
    /\ UNCHANGED phase

\* A delivery returns, or is given up before it begins; a source may end with one that failed.
Delivered ==
    /\ delivery # "none"
    /\ delivery' = "none"
    /\ phase' = phase \/ (phase = "running" /\ phase' = "stopping")

\* The source is told to stop, or gives up by itself.
AskStop ==
    /\ phase \in {"new", "running"}
    /\ phase' = "stopping"
    /\ UNCHANGED delivery

Stopped ==
    /\ phase # "stopped"
    /\ delivery = "none"
    /\ phase' = "stopped"
    /\ UNCHANGED delivery

Renew ==
    /\ Reusable
    /\ phase = "stopped"
    /\ phase' = "new"
    /\ UNCHANGED delivery

Next == Start \/ Admit \/ Deliver \/ Delivered \/ AskStop \/ Stopped \/ Renew

Spec == Init /\ [][Next]_sourceVars
=============================================================================
