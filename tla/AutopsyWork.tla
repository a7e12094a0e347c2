----------------------------- MODULE AutopsyWork -----------------------------
(***************************************************************************)
(* The autopsy of one pasted reference: the owner pays for its cache claim *)
(* (credits/src/pasted-reference.ts), the dispatcher queues attempts, the  *)
(* worker reserves, calls the vendor and finalizes (worker/system-         *)
(* autopsy.ts, db/src/system-spend.ts), a worker that outlives its lease   *)
(* is written off, and a claim that ends parked is refunded.  Meanwhile    *)
(* the workspace may be paused, or tombstoned and restored, which parks    *)
(* the claim under a worker that goes on.                                  *)
(*                                                                         *)
(* A job may be delivered any number of times; an attempt id that is       *)
(* already claimed makes every later delivery harmless, which the model    *)
(* shows as no step at all.  An action is one transaction.                 *)
(***************************************************************************)
EXTENDS SystemSpend

CONSTANTS
    MaxTries,   \* AUTOPSY_ATTEMPT_CODE_CEILING
    Funds,      \* the credits the owner may have at the start
    Price       \* creditCosts.autopsy

ASSUME TriesAssumption == MaxTries \in Nat \ {0} /\ Funds \subseteq Nat /\ Price \in Nat \ {0}

VARIABLES
    cache,   \* the row of autopsy_cache_claims: status, attempt_count, active
             \* attempt, whether its lease still runs, and parked by a deletion
    job,     \* each attempt's job: "unsent", "queued", "running" or "over"
    owner,   \* the owner's workspace: not tombstoned, paused
    money,   \* the owner's credits, and the claim's debit and refund rows
    given    \* completed analyses inserted for the claim

autopsyVars == <<cache, job, owner, money, given>>

AutopsyInit ==
    /\ cache = [status |-> "none", tries |-> 1, active |-> None, leased |-> FALSE,
                tombstoned |-> FALSE]
    /\ job = [a \in AutopsyIds |-> "unsent"]
    /\ owner = [live |-> TRUE, paused |-> FALSE]
    /\ money \in [credits : Funds, debits : {0}, refunds : {0}]
    /\ given = 0

\* submitPastedReference: claim and debit commit together, once per claim; a
\* repeated paste finds both.
Paste ==
    /\ owner.live /\ ~owner.paused /\ money.credits >= Price
    /\ cache.status = "none"
    /\ cache' = [cache EXCEPT !.status = "pending"]
    /\ money' = [money EXCEPT !.credits = @ - Price, !.debits = @ + 1]
    /\ UNCHANGED <<spendVars, job, owner, given>>

\* settleParkedAutopsies: a parked claim that was paid for is refunded once.
SettleParked ==
    /\ owner.live /\ ~owner.paused
    /\ cache.status = "parked" /\ money.debits = 1 /\ money.refunds = 0
    /\ money' = [money EXCEPT !.credits = @ + Price, !.refunds = @ + 1]
    /\ UNCHANGED <<spendVars, cache, job, owner, given>>

\* systemAutopsyQueueCandidates and the tick that sends a job for each: the
\* claim as it was when the tick read it, a fresh attempt id.
AutopsyDispatch(a) ==
    /\ job[a] = "unsent"
    /\ cache.status \in {"pending", "failed"} /\ cache.active = None
    /\ cache.tries < MaxTries + 1
    /\ job' = [job EXCEPT ![a] = "queued"]
    /\ UNCHANGED <<spendVars, cache, owner, money, given>>

\* Mutant for AttemptsAccounted: a claim whose lease is over is taken over.
StartableStealing ==
    /\ owner.live
    /\ cache.status \in {"pending", "failed"}
    /\ cache.status = "pending" => cache.active = None \/ ~cache.leased
    /\ cache.status = "failed" => cache.tries < MaxTries
\* startAttempt's refusals: a tombstoned owner, a claim that is over, one that
\* another attempt holds (however long ago), one that may not be tried again.
Startable ==
    /\ owner.live
    /\ cache.status \in {"pending", "failed"}
    /\ cache.status = "pending" => cache.active = None
    /\ cache.status = "failed" => cache.tries < MaxTries

Held(a) ==
    [cache EXCEPT !.status = "pending", !.active = a, !.leased = TRUE,
                  !.tries = IF cache.status = "failed" THEN @ + 1 ELSE @]

\* startAttempt for an id not seen before: the reservation and the cache
\* claim in one transaction, or the refusal of the budget.
AutopsyStart(a, cap) ==
    /\ job[a] = "queued" /\ Startable
    /\ ClaimSpend(a, cap, 0)
    /\ job' = [job EXCEPT ![a] = IF claims'[a] = "reserved" THEN "running" ELSE "over"]
    /\ cache' = IF claims'[a] = "reserved" THEN Held(a) ELSE cache
    /\ UNCHANGED <<owner, money, given>>

\* The worker books a refusal of the budget, then or when the job comes again.
BookRefusal(a) ==
    /\ claims[a] = "refused" /\ RecordUsage(a, 0)
    /\ UNCHANGED autopsyVars

\* A claim whose attempt ended without an analysis.
Ended == [cache EXCEPT !.status = IF cache.tries >= MaxTries THEN "parked" ELSE "failed",
                       !.active = None, !.leased = FALSE]

\* Mutant for RefundIsFinal: a claim parked by a deletion is still the
\* attempt's when the deletion has been cancelled.
OwnedAfterRestore(a) ==
    \/ cache.status = "pending" /\ cache.active = a
    \/ cache.status = "parked" /\ cache.tombstoned
\* The cache claim is this attempt's: held by it, or parked by a deletion that
\* still stands.
Owned(a) ==
    \/ cache.status = "pending" /\ cache.active = a
    \/ cache.status = "parked" /\ cache.tombstoned /\ ~owner.live

\* finalizeAttempt, after the vendor's calls.  An attempt already booked (by
\* recovery, with other facts) or whose claim is no longer its own throws:
\* nothing is recorded and the answer is gone.
Finalize(a, succeeded, cost) ==
    /\ job[a] = "running"
    /\ job' = [job EXCEPT ![a] = "over"]
    /\ succeeded => cost # Unknown
    /\ IF usage[a] = None /\ Owned(a)
         THEN /\ RecordUsage(a, cost)
              /\ cache' = IF ~owner.live
                            THEN [cache EXCEPT !.status = "parked", !.active = None,
                                               !.leased = FALSE, !.tombstoned = TRUE]
                          ELSE IF succeeded
                            THEN [cache EXCEPT !.status = "completed", !.active = None,
                                               !.leased = FALSE]
                          ELSE Ended
              /\ given' = IF owner.live /\ succeeded THEN given + 1 ELSE given
         ELSE UNCHANGED <<spendVars, cache, given>>
    /\ UNCHANGED <<owner, money>>

\* The worker dies between its reservation and its finalization.
WorkerDies(a) ==
    /\ job[a] = "running"
    /\ job' = [job EXCEPT ![a] = "over"]
    /\ UNCHANGED <<spendVars, cache, owner, money, given>>

AutopsyLeaseEnds ==
    /\ cache.leased
    /\ cache' = [cache EXCEPT !.leased = FALSE]
    /\ UNCHANGED <<spendVars, job, owner, money, given>>

\* recoverStaleSystemAutopsyAttempts: what its calls cost is unknown.
RecoverStale ==
    /\ cache.status = "pending" /\ cache.active # None /\ ~cache.leased
    /\ RecordUsage(cache.active, Unknown)
    /\ cache' = Ended
    /\ UNCHANGED <<job, owner, money, given>>

\* finalizeScopedDeletionRequest and the cancellation, as far as they reach here.
Tombstone ==
    /\ owner.live
    /\ owner' = [owner EXCEPT !.live = FALSE]
    /\ cache' = IF cache.status \in {"pending", "failed"}
                  THEN [cache EXCEPT !.status = "parked", !.active = None,
                                     !.leased = FALSE, !.tombstoned = TRUE]
                  ELSE cache
    /\ UNCHANGED <<spendVars, job, money, given>>

Restore ==
    /\ ~owner.live
    /\ owner' = [owner EXCEPT !.live = TRUE]
    /\ UNCHANGED <<spendVars, cache, job, money, given>>

\* The subscription's pause opens and closes.
Pause ==
    /\ owner' = [owner EXCEPT !.paused = ~@]
    /\ UNCHANGED <<spendVars, cache, job, money, given>>

AutopsyNext ==
    \/ Paste \/ SettleParked \/ AutopsyLeaseEnds \/ RecoverStale
    \/ Tombstone \/ Restore \/ Pause
    \/ \E a \in AutopsyIds :
          \/ AutopsyDispatch(a)
          \/ \E cap \in Caps : AutopsyStart(a, cap)
          \/ BookRefusal(a)
          \/ \E succeeded \in BOOLEAN, cost \in Costs \cup {Unknown} : Finalize(a, succeeded, cost)
          \/ WorkerDies(a)

AutopsySpec ==
    SpendInit /\ AutopsyInit /\ [][AutopsyNext]_<<spendVars, autopsyVars>>
-----------------------------------------------------------------------------
\* The rows hold what their columns admit, and only a pending claim names an
\* attempt or has a lease: what recovery and the dispatcher select by.
AutopsyTypeOK ==
    /\ cache \in [status : {"none", "pending", "failed", "completed", "parked"},
                  tries : 1..MaxTries, active : AutopsyIds \cup {None},
                  leased : BOOLEAN, tombstoned : BOOLEAN]
    /\ job \in [AutopsyIds -> {"unsent", "queued", "running", "over"}]
    /\ owner \in [live : BOOLEAN, paused : BOOLEAN]
    /\ money \in [credits : Nat, debits : Nat, refunds : Nat]
    /\ given \in Nat
    /\ cache.leased => cache.active # None
    /\ cache.active # None => cache.status = "pending"

\* A creator is refunded at most once, and only what was paid; a claim that was
\* refunded has given no analysis and never will, however late its worker
\* answers and whatever was restored in between; a claim gives at most one.
RefundIsFinal ==
    /\ given + money.refunds <= money.debits
    /\ money.debits <= 1

\* The vendor is paid for at most the ceiling's attempts of one claim,
\* attempts written off while their worker still called it included.
TriesWithinCeiling == Cardinality(Reserved \cap AutopsyIds) <= MaxTries

\* What an attempt may have cost is not lost: one that left no fact is the one
\* its claim still names, which recovery will find, or was running when a
\* deletion parked the claim under it.
UnbookedIsFindable ==
    \A a \in AutopsyIds :
        Unbooked(a) => \/ cache.status = "pending" /\ cache.active = a
                       \/ cache.status = "parked" /\ cache.tombstoned

\* Every attempt the vendor was paid for is accounted for: there are no more
\* than the ceiling allows, and each left its fact or a trace of itself.
AttemptsAccounted == TriesWithinCeiling /\ UnbookedIsFindable
=============================================================================
