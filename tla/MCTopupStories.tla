---------------------------- MODULE MCTopupStories ----------------------------
(***************************************************************************)
(* Three histories of a workspace's pack charges, and the cutover from the *)
(* old binary.  The story is chosen at the start and kept; the other       *)
(* module's variables rest.                                                *)
(***************************************************************************)
EXTENDS AutoTopup, AutoTopupRollout, TLC

CONSTANTS c1, c2, c3

VARIABLE story

CallersAlike == Permutations({c1, c2})

Raced == INSTANCE AutoTopup WITH
  Callers <- {c1, c2}, MaxAttempts <- 1, Mishaps <- {"crash", "unknown"}
Repeated == INSTANCE AutoTopup WITH
  Callers <- {c3}, Mishaps <- {"dbfault"}
SetBack == INSTANCE AutoTopup WITH
  Callers <- {c3}, Mishaps <- {"restore"}

StoriesInit ==
  /\ RolloutInit
  /\ \/ story \in {"raced", "cutover"} /\ Raced!TopupInit
     \/ story = "repeated" /\ Repeated!TopupInit
     \/ story = "set back" /\ SetBack!TopupInit

StoriesNext ==
  /\ UNCHANGED story
  /\ \/ story = "raced" /\ Raced!TopupNext /\ UNCHANGED rolloutVars
     \/ story = "repeated" /\ Repeated!TopupNext /\ UNCHANGED rolloutVars
     \/ story = "set back" /\ SetBack!TopupNext /\ UNCHANGED rolloutVars
     \/ story = "cutover" /\ RolloutNext /\ UNCHANGED topupVars

StoriesSpec == StoriesInit /\ [][StoriesNext]_<<topupVars, rolloutVars, story>>
=============================================================================
