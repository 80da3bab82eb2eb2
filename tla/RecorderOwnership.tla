--------------------------- MODULE RecorderOwnership ----------------------------
(***************************************************************************)
(* What the managed sessions promise of the process's one recorder:        *)
(*                                                                         *)
(*   - one session has the recorder at a time, from before its recording   *)
(*     goes live until after it has ended, and nobody takes it away;       *)
(*   - client code runs in a callback only for the session whose recording *)
(*     is live, and the recording ends only when no client code runs;      *)
(*   - so the next session's recording never meets the previous one's      *)
(*     callbacks.                                                          *)
(*                                                                         *)
(* VideoCaptureService is shown to implement this module.                  *)
(***************************************************************************)
CONSTANTS Sessions, NoSession

VARIABLES owner,  \* the session that has the recorder
          live,   \* a native session exists
          serving \* sessions whose handlers run in a callback

ownershipVars == << owner, live, serving >>

TypeOK ==
    /\ owner \in Sessions \cup {NoSession}
    /\ live \in BOOLEAN
    /\ serving \subseteq Sessions

Init == owner = NoSession /\ live = FALSE /\ serving = {}

Acquire(s) ==
    /\ owner = NoSession
    /\ owner' = s
    /\ UNCHANGED << live, serving >>

GoLive ==
    /\ owner # NoSession
    /\ ~live
    /\ live' = TRUE
    /\ UNCHANGED << owner, serving >>

Serve ==
    /\ live
    /\ serving' = serving \cup {owner}
    /\ UNCHANGED << owner, live >>

Served(s) ==
    /\ serving' = serving \ {s}
    /\ UNCHANGED << owner, live >>

EndLive ==
    /\ live
    /\ serving = {}
    /\ live' = FALSE
    /\ UNCHANGED << owner, serving >>

\* The session may record again without giving the recorder up.
Release ==
    /\ ~live
    /\ owner' = NoSession
    /\ UNCHANGED << live, serving >>

Next ==
    \/ \E s \in Sessions : Acquire(s) \/ Served(s)
    \/ GoLive \/ Serve \/ EndLive \/ Release

Spec == Init /\ [][Next]_ownershipVars
=============================================================================
