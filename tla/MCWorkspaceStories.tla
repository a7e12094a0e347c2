-------------------------- MODULE MCWorkspaceStories --------------------------
(***************************************************************************)
(* Histories of what a workspace holds.  Three of its subscription, each   *)
(* with the changes Stripe makes in it: failed payments, pauses, a second  *)
(* subscription.  Three of its brain documents: two owners edit them, one  *)
(* is interviewed and activates two kinds, and feedback is promoted.  The  *)
(* story is chosen at the start and kept; the variables of the other       *)
(* module rest.                                                            *)
(***************************************************************************)
EXTENDS MCSubscriptionMirror, BrainDocuments

CONSTANTS m1, m2

VARIABLE story

Dunned == INSTANCE SubscriptionMirror WITH
  Changes <- Dunning, MaxEvents <- 8, MaxTime <- 4, Lag <- 0, Drifted <- {FALSE}
OnPause == INSTANCE SubscriptionMirror WITH
  Changes <- Pausing, MaxEvents <- 6, MaxTime <- 5, Lag <- 1, Drifted <- BOOLEAN
Rebought == INSTANCE SubscriptionMirror WITH
  Changes <- Rebuying, MaxEvents <- 7, MaxTime <- 3, Lag <- 0, Drifted <- {FALSE}

Edits == INSTANCE BrainDocuments WITH
  Kinds <- {"voice"}, Interviewed <- {}, MaxBegun <- 5, MaxFeedback <- 0,
  Operations <- {"write", "edit", "confirm", "activate"},
  Surprises <- {"pause", "connloss"}
Interviews == INSTANCE BrainDocuments WITH
  Kinds <- {"strategy", "killtest"}, MaxFeedback <- 0,
  Operations <- {"answer", "submit", "confirm", "activate"}, Surprises <- {}
Promotions == INSTANCE BrainDocuments WITH
  Kinds <- {"voice"}, Interviewed <- {}, MaxBegun <- 6,
  Operations <- {"write", "confirm", "activate", "refresh", "accept", "reject"},
  Surprises <- {}

(* Nothing has been bought while the story is one of documents.            *)
StoriesInit ==
  \/ /\ BrainInit
     /\ \/ story = "dunned" /\ Dunned!Init
        \/ story = "paused" /\ OnPause!Init
        \/ story = "rebought" /\ Rebought!Init
  \/ /\ Dunned!Init
     /\ \/ story = "edited" /\ Edits!BrainInit
        \/ story = "interviewed" /\ Interviews!BrainInit
        \/ story = "promoted" /\ Promotions!BrainInit

StoriesNext ==
  /\ UNCHANGED story
  /\ \/ story = "dunned" /\ Dunned!Next /\ UNCHANGED brainVars
     \/ story = "paused" /\ OnPause!Next /\ UNCHANGED brainVars
     \/ story = "rebought" /\ Rebought!Next /\ UNCHANGED brainVars
     \/ story = "edited" /\ Edits!BrainNext /\ UNCHANGED vars
     \/ story = "interviewed" /\ Interviews!BrainNext /\ UNCHANGED vars
     \/ story = "promoted" /\ Promotions!BrainNext /\ UNCHANGED vars

StoriesSpec == StoriesInit /\ [][StoriesNext]_<<vars, brainVars, story>>
=============================================================================
