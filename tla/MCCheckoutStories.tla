--------------------------- MODULE MCCheckoutStories ---------------------------
(***************************************************************************)
(* Four histories of one workspace's subscription: two presses of the plan *)
(* button whose calls get lost, a restored database, the cutover from the  *)
(* old binary, and a sold subscription whose events come late and again.   *)
(* The story is chosen at the start and kept; the first three are steps of *)
(* TierCheckoutRollout, the last one of SubscriptionMirror.                *)
(***************************************************************************)
EXTENDS TierCheckoutRollout

CONSTANTS c1, c2

NoInvoice == <<"checkout", "snapshot">>
NoSession == <<"snapshot", "invoice">>

VARIABLES story, clock, prov, events, handled, mirror, pause, minted

mirrorVars == <<clock, prov, events, handled, mirror, pause, minted>>

Pressed == INSTANCE TierCheckoutRollout WITH
  Callers <- {c1, c2}, OldCalls <- {}, Mishaps <- {"lost"}, MaxAttempts <- 2, MaxTicks <- 3
SetBack == INSTANCE TierCheckoutRollout WITH
  Callers <- {c1}, OldCalls <- {}, Mishaps <- {"restore"}, Announced <- NoSession,
  MaxAttempts <- 2, MaxTicks <- 1, SafeRetry <- 1, Window <- 0, Quiescence <- 1
Cutover == INSTANCE TierCheckoutRollout WITH
  Callers <- {c1}, Mishaps <- {}, MaxAttempts <- 1, MaxTicks <- 1,
  SafeRetry <- 1, Window <- 0, Quiescence <- 1
Settling == INSTANCE SubscriptionMirror WITH
  MaxSubs <- 1, MaxEvents <- 7, MaxTime <- 4, Skew <- 1, Lag <- 1, GraceLength <- 2,
  Changes <- {"buy", "fail", "recover", "owner", "cancel"}, Drifted <- {FALSE},
  sent <- events, receipts <- handled

StoriesInit ==
  /\ Settling!Init
  /\ \/ story = "pressed" /\ Pressed!ActiveInit
     \/ story = "set back" /\ SetBack!ActiveInit
     \/ story = "cutover" /\ Cutover!CutoverInit
     \/ story = "settling" /\ SetBack!ActiveInit

StoriesNext ==
  /\ UNCHANGED story
  /\ \/ story = "pressed" /\ Pressed!CutoverNext /\ UNCHANGED mirrorVars
     \/ story = "set back" /\ SetBack!CutoverNext /\ UNCHANGED mirrorVars
     \/ story = "cutover" /\ Cutover!CutoverNext /\ UNCHANGED mirrorVars
     \/ story = "settling" /\ Settling!Next /\ UNCHANGED <<checkoutVars, cutoverVars>>

(* Stripe redelivers an event until it is answered with success.           *)
StoriesSpec ==
  /\ StoriesInit /\ [][StoriesNext]_<<checkoutVars, cutoverVars, mirrorVars, story>>
  /\ \A i \in 1..7 : WF_mirrorVars(story = "settling" /\ i \in Settling!Pending /\ Settling!Handle(i))

-----------------------------------------------------------------------------
(* With deliveries repeated until answered, the row comes to agree with    *)
(* Stripe and stays so.                                                    *)
EventuallyAgrees == Settling!EventuallyAgrees
=============================================================================
