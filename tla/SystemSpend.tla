----------------------------- MODULE SystemSpend -----------------------------
(***************************************************************************)
(* The budget of the calls the product itself pays for (db/src/            *)
(* system-spend.ts), for one business date: the daily row, the durable     *)
(* claim that reserves an attempt's worst case before it may call the      *)
(* vendor, the one usage fact an attempt leaves, and its one correction.   *)
(* Two kinds of attempt share it: autopsies (AutopsyWork) and the public   *)
(* Sample Spins (SampleSpin), which also have a share of their own.        *)
(*                                                                         *)
(* Amounts are small units.  The calls of an attempt whose cost nobody     *)
(* knows count as one.  An action is one transaction.                      *)
(***************************************************************************)
EXTENDS Integers, FiniteSets, FiniteSetsExt

CONSTANTS
    AutopsyIds, SpinIds,     \* attempt ids, by purpose
    AutopsyCost, SpinCost,   \* what an attempt reserves
    DailyCeiling,            \* SYSTEM_AUTOPSY_DAILY_CODE_CEILING_MICRO_USD
    SpinCeiling,             \* PUBLIC_SAMPLE_SPIN_DAILY_CODE_CEILING_MICRO_USD
    Caps,                    \* the caps a configuration document may carry
    Costs,                   \* what the calls of an attempt may turn out to cost
    Unknown,                 \* the cost of calls whose usage was never learned
    None                     \* no row

Ids == AutopsyIds \cup SpinIds

\* An autopsy's id is a UUID, a Sample Spin's has the prefix "sample:".
ASSUME AmountsAssumption ==
    /\ IsFiniteSet(AutopsyIds) /\ IsFiniteSet(SpinIds) /\ AutopsyIds \cap SpinIds = {}
    /\ AutopsyCost \in Nat \ {0} /\ SpinCost \in Nat \ {0}
    /\ DailyCeiling \in Nat /\ SpinCeiling \in Nat
    /\ Caps \subseteq Nat /\ Costs \subseteq Nat
    /\ Unknown \notin Nat /\ None \notin Nat \cup {Unknown} \cup AutopsyIds

VARIABLES
    claims,    \* system_spend_claims.status of an attempt id
    usage,     \* the cost in its system_model_usage row
    adjusted,  \* the cost in its system_model_usage_reconciliations row
    daily      \* the row of system_spend_daily

spendVars == <<claims, usage, adjusted, daily>>

Lesser(m, n) == IF m <= n THEN m ELSE n
Greater(m, n) == IF m >= n THEN m ELSE n
Amount(a) == IF a \in SpinIds THEN SpinCost ELSE AutopsyCost
Overrun(a, cost) == IF cost = Unknown THEN 0 ELSE Greater(0, cost - Amount(a))

Reserved == {a \in Ids : claims[a] = "reserved"}
\* An attempt that may have called the vendor and has left no fact of it.
Unbooked(a) == claims[a] = "reserved" /\ usage[a] = None

SpendInit ==
    /\ claims = [a \in Ids |-> "none"]
    /\ usage = [a \in Ids |-> None]
    /\ adjusted = [a \in Ids |-> None]
    /\ daily = [cap |-> DailyCeiling, reserved |-> 0, known |-> 0, unknown |-> 0,
                overrun |-> 0]

(***************************************************************************)
(* claimInTx.  A later document may lower the day's cap, never raise it,   *)
(* and never below what is already reserved.  Whether the claim fits is     *)
(* decided and recorded for good: an id refused once stays refused.         *)
(***************************************************************************)
Tightened(cap) == Greater(daily.reserved, Lesser(daily.cap, Lesser(cap, DailyCeiling)))

\* Mutant for SpendWithinCaps: what is asked is not added.
FitsBefore(a, cap, share) ==
    /\ daily.reserved <= Tightened(cap)
    /\ a \in SpinIds =>
          Cardinality(Reserved \cap SpinIds) * SpinCost + SpinCost <= Lesser(share, SpinCeiling)
Fits(a, cap, share) ==
    /\ daily.reserved + Amount(a) <= Tightened(cap)
    /\ a \in SpinIds =>
          Cardinality(Reserved \cap SpinIds) * SpinCost + SpinCost <= Lesser(share, SpinCeiling)

ClaimSpend(a, cap, share) ==
    /\ claims[a] = "none"
    /\ claims' = [claims EXCEPT ![a] = IF Fits(a, cap, share) THEN "reserved" ELSE "refused"]
    /\ daily' = [daily EXCEPT !.cap = Tightened(cap),
                              !.reserved = IF Fits(a, cap, share) THEN @ + Amount(a) ELSE @]
    /\ UNCHANGED <<usage, adjusted>>

(***************************************************************************)
(* recordSystemModelUsageInTx: the first fact of an attempt is inserted    *)
(* and rolled up.  A second one must be the same and changes nothing; a    *)
(* different one throws, and the transaction with it.                      *)
(***************************************************************************)
RecordUsage(a, cost) ==
    /\ claims[a] # "none" /\ usage[a] = None
    /\ claims[a] = "refused" => cost = 0
    /\ usage' = [usage EXCEPT ![a] = cost]
    /\ daily' = [daily EXCEPT
            !.known = IF cost = Unknown THEN @ ELSE @ + cost,
            !.unknown = IF cost = Unknown THEN @ + 1 ELSE @,
            !.overrun = @ + Overrun(a, cost)]
    /\ UNCHANGED <<claims, adjusted>>

\* Mutant for BooksAgree: the corrected calls stay counted as unknown.
ReconcileKeepsUnknown(a, cost) ==
    /\ usage[a] = Unknown /\ adjusted[a] = None
    /\ adjusted' = [adjusted EXCEPT ![a] = cost]
    /\ daily' = [daily EXCEPT !.known = @ + cost, !.overrun = @ + Overrun(a, cost)]
    /\ UNCHANGED <<claims, usage>>
\* reconcileSystemModelUsage: an unknown cost is corrected, once.
Reconcile(a, cost) ==
    /\ usage[a] = Unknown /\ adjusted[a] = None
    /\ adjusted' = [adjusted EXCEPT ![a] = cost]
    /\ daily' = [daily EXCEPT !.known = @ + cost, !.unknown = @ - 1,
                              !.overrun = @ + Overrun(a, cost)]
    /\ UNCHANGED <<claims, usage>>

SpendNext ==
    \E a \in Ids :
        \/ \E cap, share \in Caps : ClaimSpend(a, cap, share)
        \/ \E cost \in Costs \cup {0, Unknown} : RecordUsage(a, cost)
        \/ \E cost \in Costs : Reconcile(a, cost)

SpendSpec == SpendInit /\ [][SpendNext]_spendVars
-----------------------------------------------------------------------------
DailyRows == [cap : Nat, reserved : Nat, known : Nat, unknown : Nat, overrun : Nat]

\* The rows hold what their columns admit, the overrun and the unknown count
\* never below zero, and only an unknown fact was ever corrected.
SpendTypeOK ==
    /\ claims \in [Ids -> {"none", "reserved", "refused"}]
    /\ usage \in [Ids -> Nat \cup {Unknown, None}]
    /\ adjusted \in [Ids -> Nat \cup {None}]
    /\ daily \in DailyRows
    /\ \A a \in Ids : adjusted[a] # None => usage[a] = Unknown

\* What attempts of both purposes have reserved, whatever caps the documents
\* carried and in whatever order they were read, is within the day's cap and
\* the release ceiling (system-spend.ts 512-600).
ReservedWithinCap ==
    /\ daily.reserved <= daily.cap
    /\ daily.cap <= DailyCeiling

\* The Sample Spins alone never reserve more than their share of the day,
\* which no row of its own counts.
SpinsWithinShare == Cardinality(Reserved \cap SpinIds) * SpinCost <= SpinCeiling

\* No sequence of documents and claims of both purposes spends beyond what the
\* operator allowed the day, nor the Sample Spins beyond their part of it.
SpendWithinCaps == ReservedWithinCap /\ SpinsWithinShare

\* What the calls of an attempt are now known to have cost.
KnownCost(a) ==
    IF usage[a] \in Nat THEN usage[a] ELSE IF adjusted[a] \in Nat THEN adjusted[a] ELSE 0
Summed(w) == MapThenSumSet(LAMBDA a : w[a], Ids)

\* The daily row is the sum of the rows it summarises: claims reserved, facts
\* and corrections booked, however recovery, a late answer and a repeat met.
BooksAgree ==
    /\ SpendTypeOK
    /\ daily.reserved = Summed([a \in Ids |-> IF a \in Reserved THEN Amount(a) ELSE 0])
    /\ daily.known = Summed([a \in Ids |-> KnownCost(a)])
    /\ daily.unknown = Cardinality({a \in Ids : usage[a] = Unknown /\ adjusted[a] = None})
    /\ daily.overrun = Summed([a \in Ids |-> Overrun(a, KnownCost(a))])

\* No document reopens a day: the cap only falls, and not below what is
\* reserved (system-spend.ts 533-541).
CapOnlyTightens == [][daily'.cap <= daily.cap]_spendVars
=============================================================================
