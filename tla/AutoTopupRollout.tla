--------------------------- MODULE AutoTopupRollout ---------------------------
(***************************************************************************)
(* The staged cutover of one workspace's auto-top-up from the old binary,  *)
(* which charges outside any transaction and leaves no attempt behind, to  *)
(* the protocol of AutoTopup (credits/src/stripe/auto-topup-rollout.ts).   *)
(* A tick is STRIPE_MAX_CALL_WINDOW_MS.                                    *)
(***************************************************************************)
EXTENDS Integers, Sequences

CONSTANTS
  OldCalls,     \* what the old fleet does at once
  Window,       \* STRIPE_MAX_CALL_WINDOW_MS
  Quiescence,   \* LEGACY_AUTO_TOPUP_QUIESCENCE_MS
  MaxCharges,   \* bound: legacy PaymentIntents
  MaxRevision,  \* bound: restarts of the drain
  MaxTicks      \* bound: ticks

ASSUME RolloutAssumption ==
  /\ Window \in Nat /\ Quiescence \in Nat /\ Window < Quiescence
  /\ MaxCharges \in Nat /\ MaxRevision \in Nat \ {0} /\ MaxTicks \in Nat

VARIABLES
  rollout,     \* auto_topup_protocol_rollouts: state, revision, drain_started_at
  optin,       \* subscriptions: legacy bit, v1 bit, rearm desire, cap present
  standing,    \* the subscription: live, live but paused, dead
  alive,       \* old processes are still running
  oldCall,     \* what each of them, or its last request, is at
  charges,     \* at Stripe: PaymentIntents without an attempt id
  credited,    \* those with a row in credit_ledger
  cutover,     \* auto_topup_attempt_cutover_at
  report,      \* the audit an activation holds
  ticks,
  wish,        \* history: what the owner last asked for
  fenced       \* history: the last fence was put up after the fleet stopped

rolloutVars == <<rollout, optin, standing, alive, oldCall, charges, credited, cutover, report,
                 ticks, wish, fenced>>

Disarmed == [legacy |-> FALSE, v1 |-> FALSE, rearm |-> FALSE, cap |-> FALSE]
NoReport == [clear |-> FALSE, revision |-> 0, settled |-> {}]
Never    == -1
Parked   == [pc |-> "idle", since |-> 0]

RolloutInit ==
  /\ rollout = [state |-> "expanded", revision |-> 0, drained |-> 0]
  /\ optin = Disarmed
  /\ standing = "live" /\ alive = TRUE
  /\ oldCall = [o \in OldCalls |-> Parked]
  /\ charges = <<>> /\ credited = {} /\ cutover = Never
  /\ report = NoReport
  /\ ticks = 0 /\ wish = FALSE /\ fenced = FALSE

-----------------------------------------------------------------------------
(* The old binary: the flag is read in a transaction, Stripe called after. *)

OldSet(on) ==
  /\ alive /\ (on => standing # "dead")
  /\ optin' = [optin EXCEPT !.legacy = on, !.cap = on]
  /\ wish' = on
  /\ UNCHANGED <<rollout, standing, alive, oldCall, charges, credited, cutover, report, ticks, fenced>>

OldRead(o) ==
  /\ alive /\ oldCall[o].pc = "idle" /\ optin.legacy /\ standing = "live"
  /\ oldCall' = [oldCall EXCEPT ![o].pc = "read"]
  /\ UNCHANGED <<rollout, optin, standing, alive, charges, credited, cutover, report, ticks, wish, fenced>>

OldSend(o) ==
  /\ alive /\ oldCall[o].pc = "read"
  /\ oldCall' = [oldCall EXCEPT ![o] = [pc |-> "sent", since |-> ticks]]
  /\ UNCHANGED <<rollout, optin, standing, alive, charges, credited, cutover, report, ticks, wish, fenced>>

Arrive(o) ==
  /\ oldCall[o].pc = "sent" /\ Len(charges) < MaxCharges
  /\ \E s \in {"open", "processing", "succeeded"} :
       charges' = Append(charges, [born |-> ticks, status |-> s])
  /\ oldCall' = [oldCall EXCEPT ![o] = Parked]
  /\ UNCHANGED <<rollout, optin, standing, alive, credited, cutover, report, ticks, wish, fenced>>

(* A request that left goes on without its process.                        *)
StopFleet ==
  /\ alive /\ alive' = FALSE
  /\ oldCall' = [o \in OldCalls |-> IF oldCall[o].pc = "read" THEN Parked ELSE oldCall[o]]
  /\ UNCHANGED <<rollout, optin, standing, charges, credited, cutover, report, ticks, wish, fenced>>

(* At Stripe, by the bank or by hand.                                      *)
MoveLegacy(p) ==
  /\ \E s \in {"succeeded", "canceled"} :
       /\ charges[p].status \in {"open", "processing"}
       /\ charges[p].status = "processing" => s = "succeeded"
       /\ charges' = [charges EXCEPT ![p].status = s]
  /\ UNCHANGED <<rollout, optin, standing, alive, oldCall, credited, cutover, report, ticks, wish, fenced>>

(* payment_intent.succeeded without an attempt id: accepted on a row that  *)
(* is not cut over, or for a payment made before.                          *)
SettleLegacy(p) ==
  /\ charges[p].status = "succeeded"
  /\ cutover = Never \/ charges[p].born <= cutover
  /\ credited' = credited \cup {p}
  /\ UNCHANGED <<rollout, optin, standing, alive, oldCall, charges, cutover, report, ticks, wish, fenced>>

-----------------------------------------------------------------------------
(* The operator                                                            *)

Fence(revision) ==
  /\ rollout' = [state |-> "draining", revision |-> revision, drained |-> ticks]
  /\ fenced' = ~alive
  /\ UNCHANGED <<standing, alive, oldCall, charges, credited, cutover, report, ticks, wish>>

(* beginAutoTopupProtocolDrain.  That the fleet has stopped is the         *)
(* operator's word.                                                        *)
BeginDrain ==
  /\ rollout.state = "expanded"
  /\ optin' = [optin EXCEPT !.rearm = @ \/ optin.legacy, !.legacy = FALSE, !.v1 = FALSE]
  /\ Fence(1)

RestartDrain ==
  /\ rollout.state = "draining" /\ rollout.revision < MaxRevision
  /\ UNCHANGED optin
  /\ Fence(rollout.revision + 1)

(* Mutant: the audit does not wait out the calls that had left.            *)
AuditableAtOnce == rollout.state = "draining"

Auditable == rollout.state = "draining" /\ ticks - rollout.drained >= Quiescence

PostDrain(p) == charges[p].born > rollout.drained + Window

Blocks(p) ==
  \/ PostDrain(p)
  \/ charges[p].status = "succeeded" /\ p \notin credited
  \/ charges[p].status \in {"open", "processing"}

(* auditAutoTopupLegacyDrain, on every PaymentIntent of the account.       *)
Audit ==
  /\ Auditable
  /\ report' = [clear |-> \A p \in DOMAIN charges : ~Blocks(p),
                revision |-> rollout.revision,
                settled |-> {p \in DOMAIN charges : charges[p].status = "succeeded" /\ ~Blocks(p)}]
  /\ UNCHANGED <<rollout, optin, standing, alive, oldCall, charges, credited, cutover, ticks, wish, fenced>>

(* reconcileMissingLegacyAutoTopups: the real event, through the webhook.  *)
ReplayLegacy(p) == Auditable /\ ~PostDrain(p) /\ p \notin credited /\ SettleLegacy(p)

Stands == report.revision = rollout.revision /\ report.settled \subseteq credited

Rearms == optin.rearm /\ optin.cap /\ standing = "live"

(* The transaction of activateAutoTopupAttemptProtocol.                    *)
Activate ==
  /\ rollout.state = "draining" /\ report.clear /\ Stands
  /\ optin' = [optin EXCEPT !.legacy = FALSE, !.v1 = Rearms, !.rearm = FALSE]
  /\ cutover' = ticks
  /\ rollout' = [rollout EXCEPT !.state = "active"]
  /\ UNCHANGED <<standing, alive, oldCall, charges, credited, report, ticks, wish, fenced>>

-----------------------------------------------------------------------------
(* Owner and subscription                                                  *)

(* Before activation only the wish is written down.                        *)
SetAutoTopup(on) ==
  /\ on => standing # "dead"
  /\ LET active == rollout.state = "active" IN
     /\ optin' = [legacy |-> FALSE, v1 |-> on /\ active, rearm |-> on /\ ~active, cap |-> on]
     /\ cutover' = IF active /\ cutover = Never THEN ticks ELSE cutover
  /\ wish' = on
  /\ UNCHANGED <<rollout, standing, alive, oldCall, charges, credited, report, ticks, fenced>>

(* AUTO_TOPUP_DISARMED_FIELDS: a death takes every authority with it.      *)
Die ==
  /\ standing # "dead" /\ standing' = "dead"
  /\ optin' = Disarmed /\ wish' = FALSE
  /\ UNCHANGED <<rollout, alive, oldCall, charges, credited, cutover, report, ticks, fenced>>

Live(now) ==
  /\ standing # now /\ standing' = now
  /\ standing = "dead" => now = "live"
  /\ UNCHANGED <<rollout, optin, alive, oldCall, charges, credited, cutover, report, ticks, wish, fenced>>

(* No call outlasts its window.                                            *)
Tick ==
  /\ ticks < MaxTicks
  /\ \A o \in OldCalls : oldCall[o].pc = "sent" => ticks < oldCall[o].since + Window
  /\ ticks' = ticks + 1
  /\ UNCHANGED <<rollout, optin, standing, alive, oldCall, charges, credited, cutover, report, wish, fenced>>

RolloutNext ==
  \/ \E on \in BOOLEAN : OldSet(on) \/ SetAutoTopup(on)
  \/ \E o \in OldCalls : OldRead(o) \/ OldSend(o) \/ Arrive(o)
  \/ \E p \in DOMAIN charges : MoveLegacy(p) \/ SettleLegacy(p) \/ ReplayLegacy(p)
  \/ BeginDrain \/ RestartDrain \/ Audit \/ Activate
  \/ StopFleet \/ Die \/ Live("live") \/ Live("paused") \/ Tick

RolloutSpec == RolloutInit /\ [][RolloutNext]_rolloutVars

-----------------------------------------------------------------------------
(* Types of the variables, and the CHECK on the shape of the rollout row.  *)
RolloutTypeOK ==
  /\ rollout.state \in {"expanded", "draining", "active"}
  /\ rollout.revision \in 0..MaxRevision /\ (rollout.state = "expanded") = (rollout.revision = 0)
  /\ optin \in [{"legacy", "v1", "rearm", "cap"} -> BOOLEAN]
  /\ credited \subseteq DOMAIN charges
  /\ cutover \in Never..MaxTicks /\ ticks \in 0..MaxTicks

(* Once the new protocol charges, and if the fleet had stopped when the    *)
(* last fence went up, no charge of the old one is on its way, unfinished  *)
(* or taken without its pack.                                              *)
NoChargeLeftBehind ==
  rollout.state = "active" /\ fenced =>
    /\ \A o \in OldCalls : oldCall[o].pc # "sent"
    /\ \A p \in DOMAIN charges :
         \/ charges[p].status = "canceled"
         \/ charges[p].status = "succeeded" /\ p \in credited

(* Charge authority is only ever what the owner last asked for, through    *)
(* whichever binary: activation does not arm what was switched off.  An    *)
(* old process that should not be there any more takes at least the cap.   *)
ArmedAsAsked == optin.v1 /\ (optin.cap \/ fenced) => wish

(* The cutover loses nothing: neither a charge of the old protocol nor the *)
(* owner's last word on whether there may be charges, and its row keeps    *)
(* the shape of its CHECK.                                                 *)
CutoverIsSafe == RolloutTypeOK /\ NoChargeLeftBehind /\ ArmedAsAsked
=============================================================================
