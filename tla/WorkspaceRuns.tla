---------------------------- MODULE WorkspaceRuns ----------------------------
(***************************************************************************)
(* Generations and builds of one workspace at once: they take the same run *)
(* slots, spend the same credits, and are refused by the same pause.  A    *)
(* caller either generates or builds.                                      *)
(***************************************************************************)
EXTENDS Generation, IncludedBuild

CONSTANT Builders  \* the callers that build

ASSUME RunsAssumption == Builders \subseteq Callers /\ Credits = Funds

RunsInit == Init /\ BuildInit

RunsNext ==
  \/ Next /\ UNCHANGED buildVars /\ \A c \in Builders : pc'[c] = pc[c]
  \/ BuildNext /\ UNCHANGED generationVars /\ \A c \in Callers \ Builders : stage'[c] = stage[c]

RunsSpec == RunsInit /\ [][RunsNext]_<<vars, buildVars>>

-----------------------------------------------------------------------------
(* The tier's limit is of the workspace and not of an operation: its       *)
(* generations and builds at the vendor are together no more than it.      *)
VendorCallsWithinLimit ==
  Cardinality({c \in Callers : At(c, "call") \/ On(c, "vendor")}) <= Limit
=============================================================================
