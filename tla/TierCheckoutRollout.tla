-------------------------- MODULE TierCheckoutRollout --------------------------
(***************************************************************************)
(* The staged cutover from the old binary, whose Checkouts carry no        *)
(* attempt and are known to nobody until they sell, to the protocol of     *)
(* TierCheckout on the same row (credits/src/stripe:                       *)
(* tier-checkout-rollout.ts).  A tick is STRIPE_MAX_CALL_WINDOW_MS.        *)
(***************************************************************************)
EXTENDS TierCheckout

CONSTANTS
  OldCalls,     \* what the old fleet does at once
  Quiescence,   \* LEGACY_TIER_CHECKOUT_QUIESCENCE_MS
  MaxRevision   \* bound: restarts of the drain

ASSUME CutoverAssumption ==
  Quiescence \in Nat /\ Window < Quiescence /\ MaxRevision \in Nat

VARIABLES
  alive,    \* old processes are still running
  oldCall,  \* what each of them, or its last request, is at
  report,   \* the audit an activation holds
  vouched   \* history: the last fence was put up after the fleet stopped

cutoverVars == <<alive, oldCall, report, vouched>>

Parked == [pc |-> "idle", since |-> 0]

CutoverInit ==
  /\ CheckoutInit
  /\ rollout = [state |-> "expanded", revision |-> 0, drained |-> 0]
  /\ alive = TRUE /\ oldCall = [o \in OldCalls |-> Parked]
  /\ report = [clear |-> FALSE, revision |-> 0] /\ vouched = FALSE

(* Where the cutover is long past.                                         *)
ActiveInit ==
  /\ CheckoutInit
  /\ rollout = [state |-> "active", revision |-> 1, drained |-> 0]
  /\ alive = FALSE /\ oldCall = [o \in OldCalls |-> Parked]
  /\ report = [clear |-> TRUE, revision |-> 1] /\ vouched = TRUE

-----------------------------------------------------------------------------
(* The old binary: it takes a fenced row for an incomplete subscription,   *)
(* and calls Stripe without a lock or a key.                               *)

OldRead(o) ==
  /\ alive /\ oldCall[o].pc = "idle" /\ ~row.fenced /\ ~HasLive(row)
  /\ oldCall' = [oldCall EXCEPT ![o].pc = "read"]
  /\ UNCHANGED <<checkoutVars, alive, report, vouched>>

OldSend(o) ==
  /\ alive /\ oldCall[o].pc = "read"
  /\ oldCall' = [oldCall EXCEPT ![o] = [pc |-> "sent", since |-> ticks]]
  /\ UNCHANGED <<checkoutVars, alive, report, vouched>>

OldArrive(o) ==
  /\ oldCall[o].pc = "sent" /\ OpenSession(None, alive)
  /\ oldCall' = [oldCall EXCEPT ![o] = Parked]
  /\ UNCHANGED <<row, receipts, rollout, sent, answered, calls, adrift, attempts, ticks,
                 saved, restored, alive, report, vouched>>

(* A request that left goes on without its process.                        *)
StopFleet ==
  /\ alive /\ alive' = FALSE
  /\ oldCall' = [o \in OldCalls |-> IF oldCall[o].pc = "read" THEN Parked ELSE oldCall[o]]
  /\ UNCHANGED <<checkoutVars, report, vouched>>

-----------------------------------------------------------------------------
(* The operator                                                            *)

(* fenceEligibleGenerations                                                *)
FenceEligible == row' = IF HasLive(row) THEN row ELSE Fence(row)

(* That the fleet has stopped is the operator's word.                      *)
Drain(revision) ==
  /\ rollout' = [state |-> "draining", revision |-> revision, drained |-> ticks]
  /\ FenceEligible
  /\ vouched' = ~alive
  /\ UNCHANGED <<receipts, checkouts, sent, answered, calls, adrift, attempts, ticks,
                 saved, restored, alive, oldCall, report>>

BeginDrain   == rollout.state = "expanded" /\ Drain(1)
RestartDrain == /\ rollout.state = "draining" /\ rollout.revision < MaxRevision
                /\ Drain(rollout.revision + 1)

Blocks(s) ==
  \/ checkouts[s].born > rollout.drained + Window
  \/ checkouts[s].status = "open"
  \/ checkouts[s].life = "dead" /\ HasLive(row) /\ row.sub = s
  \/ checkouts[s].life = "live" /\ ~(HasLive(row) /\ row.sub = s)

(* The subscription the row holds live is one of the account's.            *)
RowFound == HasLive(row) => checkouts[row.sub].life = "live"

(* auditTierCheckoutLegacyDrain                                            *)
Audit ==
  /\ rollout.state = "draining" /\ ticks - rollout.drained >= Quiescence
  /\ report' = [clear |-> RowFound /\ \A s \in DOMAIN checkouts : ~Blocks(s),
                revision |-> rollout.revision]
  /\ UNCHANGED <<checkoutVars, alive, oldCall, vouched>>

(* The transaction of activateTierCheckoutAttemptProtocol                  *)
Activate ==
  /\ rollout.state = "draining" /\ report.clear /\ report.revision = rollout.revision
  /\ rollout' = [rollout EXCEPT !.state = "active"]
  /\ FenceEligible
  /\ UNCHANGED <<receipts, checkouts, sent, answered, calls, adrift, attempts, ticks,
                 saved, restored, cutoverVars>>

CutoverTick ==
  /\ \A o \in OldCalls : oldCall[o].pc = "sent" => ticks < oldCall[o].since + Window
  /\ CheckoutTick /\ UNCHANGED cutoverVars

CutoverNext ==
  \/ \E o \in OldCalls : OldRead(o) \/ OldSend(o) \/ OldArrive(o)
  \/ StopFleet \/ BeginDrain \/ RestartDrain \/ Audit \/ Activate \/ CutoverTick
  \/ PressNext /\ UNCHANGED cutoverVars

CutoverSpec == (CutoverInit \/ ActiveInit) /\ [][CutoverNext]_<<checkoutVars, cutoverVars>>

-----------------------------------------------------------------------------
(* Sessions by which the workspace is, or with the owner's next click will *)
(* be, billed.                                                             *)
Doors == {s \in DOMAIN checkouts : checkouts[s].handed /\ Unresolved(s)}

Guarded == rollout.state = "active" /\ vouched

(* However often a plan is pressed, whatever is lost on the way or set     *)
(* back by a restore, and whatever the old binary left behind: an owner    *)
(* never holds two Checkouts that can both bill, or one beside a           *)
(* subscription that does.                                                 *)
OneDoor == Guarded => Cardinality(Doors) <= 1

(* The row knows the one an attempt opened: by the attempt, which it keeps *)
(* until the outcome is in, or by the subscription it mirrors.  Only a     *)
(* restore can make it forget.                                             *)
DoorIsKnown ==
  Guarded /\ ~restored => \A s \in Doors :
    \/ AttemptOf(s) \in {None, row.attempt}
    \/ HasLive(row) /\ row.sub = s

(* The row and the attempt know every Checkout of an attempt that can      *)
(* still bill, and their fields are of their types.                        *)
RowKnowsItsDoor == CheckoutTypeOK /\ DoorIsKnown

(* An event of a sale the row waits for is not refused: redelivery can     *)
(* bring the owner what was paid for.                                      *)
SalesCanLand ==
  Guarded /\ ~restored => \A i \in DOMAIN sent :
    sent[i].sub \in Doors /\ AttemptOf(sent[i].sub) \in {row.attempt} \ {None}
      => Handled(row, i) # Thrown
=============================================================================
