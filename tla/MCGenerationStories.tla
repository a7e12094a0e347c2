------------------------- MODULE MCGenerationStories -------------------------
(***************************************************************************)
(* Five histories of presses, each with what its question needs of the     *)
(* world: one generation pressed again and again amid faults, the same     *)
(* with pauses, two generations on one purse, builds of one profile amid   *)
(* faults, and generations and a build competing for the slots.  The story *)
(* is chosen at the start and kept; the variables of the other module rest.*)
(***************************************************************************)
EXTENDS MCGeneration, WorkspaceRuns

CONSTANTS p1

VARIABLE story

OneProfile == [c \in Callers |-> p1]

(* The included build is free, or only costs less than a rebuild.          *)
Free == [build |-> 0, rebuild |-> 2]
Less == [build |-> 1, rebuild |-> 2]
BothDocuments == {Free, Less}

Repeated == INSTANCE Generation WITH
  AttemptOf <- OneAttempt, InputOf <- OneDiffers, Prices <- {1},
  Funds <- 2, MaxFunds <- 2, Cap <- 1, Happenings <- {"crash", "dbfault"}
Paused == INSTANCE Generation WITH
  AttemptOf <- OneAttempt, InputOf <- OneDiffers, Prices <- {1},
  Funds <- 2, MaxFunds <- 2, Cap <- 1, Happenings <- {"crash", "dbfault", "pause"}
Funded == INSTANCE Generation WITH
  AttemptOf <- OwnAttempts, InputOf <- SameInput, Prices <- {0, 2},
  Funds <- 2, MaxFunds <- 2, Cap <- 1, Happenings <- {"spend", "publish", "grant"}
Crowded == INSTANCE WorkspaceRuns WITH
  AttemptOf <- OwnAttempts, InputOf <- SameInput, Prices <- {0},
  Funds <- 2, MaxFunds <- 2, Cap <- 3, Happenings <- {},
  Documents <- {Free}, Turns <- {"profile"}

StoriesInit ==
  /\ BuildInit
  /\ \/ story \in {"repeated", "paused"} /\ Repeated!Init
     \/ story = "funded" /\ Funded!Init
     \/ story \in {"builds", "crowded"} /\ Crowded!Init
  /\ story # "builds" => document = Free

StoriesNext ==
  /\ UNCHANGED story
  /\ \/ story = "repeated" /\ Repeated!Next /\ UNCHANGED buildVars
     \/ story = "paused" /\ Paused!Next /\ pc'[c3] = pc[c3] /\ UNCHANGED buildVars
     \/ story = "funded" /\ Funded!Next /\ pc'[c3] = pc[c3] /\ UNCHANGED buildVars
     \/ story = "builds" /\ BuildNext /\ stage'[c3] = stage[c3] /\ UNCHANGED generationVars
     \/ story = "crowded" /\ Crowded!RunsNext

StoriesSpec == StoriesInit /\ [][StoriesNext]_<<vars, buildVars, story>>
=============================================================================
