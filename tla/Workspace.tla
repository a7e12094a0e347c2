------------------------------ MODULE Workspace ------------------------------
(***************************************************************************)
(* What a workspace's metered operations share: its credits, an open       *)
(* pause, and its run slots.                                               *)
(***************************************************************************)
EXTENDS RunSlots, Integers

VARIABLES
  balance,  \* the workspace's credits
  paused    \* an open pause

(* debitCredits refuses: a pause is open, or the credits are not there.    *)
DebitRefused(cost) == cost > 0 /\ (paused \/ balance < cost)
=============================================================================
