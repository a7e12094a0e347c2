------------------------------ MODULE LotExpiry ------------------------------
(***************************************************************************)
(* The pause-shifted expiry of fold.ts against a reference definition, over*)
(* every lot and pause history of a timeline, overlapping and touching     *)
(* pauses included (the writers allow none, the fold must bear them:       *)
(* mergePauses).                                                           *)
(***************************************************************************)
EXTENDS LedgerFold

CONSTANTS Horizon,     \* bound: pauses and expiries lie in 0..Horizon
          LotPauses    \* bound: pauses in a history

ASSUME HorizonAssumption == Horizon \in Nat

VARIABLES lotBorn, lotExp, lotPauses

lotVars == <<lotBorn, lotExp, lotPauses>>

PauseHistory ==
  {p \in [started : 0..Horizon, ended : 0..Horizon \cup {Null}] :
     p.ended = Null \/ p.started < p.ended}

LotInit == lotBorn \in 0..Horizon /\ lotExp \in 0..Horizon /\ lotPauses = {}

AddPause == /\ Cardinality(lotPauses) < LotPauses
            /\ \E p \in PauseHistory : lotPauses' = lotPauses \cup {p}
            /\ UNCHANGED <<lotBorn, lotExp>>
ClearPauses == lotPauses' = {} /\ UNCHANGED <<lotBorn, lotExp>>
LotNext  == AddPause \/ ClearPauses
LotSpec == LotInit /\ [][LotNext]_lotVars

-----------------------------------------------------------------------------
(* A lot's clock runs at the instants no pause covers; the lot expires at  *)
(* the first instant by which it has run for as long as it was sold for.   *)
(* What pauses that ended hold up is less than the Horizon.                *)
Covered(P, u) == \E p \in P : p.started <= u /\ (p.ended = Null \/ u < p.ended)
RunsIn(P, from, to) == {u \in from..(to - 1) : ~Covered(P, u)}
HasRun(t) == Cardinality(RunsIn(lotPauses, lotBorn, t)) >= lotExp - lotBorn
LatestEnd == 2 * Horizon

(* fold.ts, effectiveExpiry: a pause before the lot, across its birth,     *)
(* overlapping another or after the shifted expiry counts for exactly the  *)
(* time the lot's clock stood still.                                       *)
ExpiryIsRunningTime ==
  LET eff == EffectiveExpiry(lotExp, lotPauses, lotBorn)
  IN  IF lotExp <= lotBorn THEN eff = [at |-> lotExp, frozen |-> FALSE]
      ELSE IF \E t \in lotBorn..LatestEnd : HasRun(t)
      THEN eff = [at |-> CHOOSE t \in lotBorn..LatestEnd :
                          HasRun(t) /\ \A u \in lotBorn..(t - 1) : ~HasRun(u),
                  frozen |-> FALSE]
      ELSE eff.frozen
=============================================================================
