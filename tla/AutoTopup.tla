------------------------------ MODULE AutoTopup ------------------------------
(***************************************************************************)
(* The off-session pack charge of one workspace in one month               *)
(* (credits/src/stripe/auto-topup.ts): callers that reserve, reconcile and *)
(* dispatch the pending attempt, Stripe, its events (webhooks.ts), the     *)
(* operator's reconciliation (auto-topup-v1-reconcile.ts), and a restore   *)
(* of the database to an earlier copy.                                     *)
(*                                                                         *)
(* Each action is one transaction, one call of Stripe outside any, or one  *)
(* event.  Only the dispatch holds the workspace lock across a call.       *)
(*                                                                         *)
(* Whether the owner still wants it (setAutoTopup, a pause, a failed       *)
(* renewal, a deletion request) may change between any two transactions:   *)
(* each that asks may be refused.                                          *)
(***************************************************************************)
EXTENDS Integers, Sequences, FiniteSets

CONSTANTS
  Callers,
  Operator,       \* who runs the reconciliation
  Nobody,
  CapPacks,       \* the owner's monthly cap, in packs
  SafeRetry,      \* AUTO_TOPUP_IDEMPOTENCY_SAFE_RETRY_MS, in ticks
  Remembered,     \* how long Stripe keeps an idempotency key
  MaxAttempts,    \* bound: attempts reserved
  MaxPayments,    \* bound: PaymentIntents created
  MaxNow,         \* bound: ticks
  Mishaps         \* bound: "crash", "unknown", "dbfault", "restore"

ASSUME TopupAssumption ==
  /\ Operator \notin Callers /\ Nobody \notin Callers \cup {Operator}
  /\ CapPacks \in Nat
  /\ SafeRetry \in Nat /\ Remembered \in Nat /\ SafeRetry < Remembered
  /\ MaxAttempts \in Nat /\ MaxPayments \in Nat /\ MaxNow \in Nat

VARIABLES
  topup,      \* the workspace lock, when a dispatch holds it
  pending,    \* the attempt on the subscription row
  reserved,   \* attempts reserved so far: their ids
  minted,     \* credit_ledger: PaymentIntents with a pack
  caller,     \* what each caller, and the operator, knows
  payments,   \* at Stripe: the PaymentIntents
  wire,       \* creation requests Stripe has not processed
  events,     \* events Stripe has sent and stripe_events has no receipt of
  clock,
  copy,       \* the database copy a restore goes back to
  adrift,     \* history: attempts whose request outlived its sender
  restored    \* history: the database was set back

stripeVars == <<payments, wire, events>>
rowVars    == <<pending, minted>>
topupVars  == <<topup, rowVars, reserved, caller, stripeVars, clock, copy, adrift, restored>>

NoAttempt == [id |-> 0, claim |-> Nobody, at |-> 0, pi |-> 0, status |-> "none"]

Persistable == {"open", "processing", "succeeded"}
Statuses    == Persistable \cup {"canceled"}

(* What a process knows: the attempt, whether it made the claim itself or  *)
(* whose claim it saw, and the PaymentIntent it was shown with the status  *)
(* it had then.                                                            *)
Idle == [pc |-> "idle", id |-> 0, at |-> 0, fresh |-> FALSE, claim |-> Nobody, pi |-> 0,
         status |-> "none"]

TopupInit ==
  /\ topup = Nobody
  /\ pending = NoAttempt
  /\ reserved = 0
  /\ minted = {}
  /\ caller = [c \in Callers \cup {Operator} |-> Idle]
  /\ payments = <<>>
  /\ wire = {}
  /\ events = {}
  /\ clock = 0
  /\ copy = [pending |-> NoAttempt, minted |-> {}]
  /\ adrift = {}
  /\ restored = FALSE

PaymentsOf(a) == {p \in DOMAIN payments : payments[p].attempt = a}

Settled(a) == PaymentsOf(a) \cap minted # {}

-----------------------------------------------------------------------------
(* Transactions on the row, under the workspace lock                       *)

Locked == topup = Nobody

AtStep(c, step) == caller[c].pc = step

Know(c, k) == caller' = [caller EXCEPT ![c] = k]
Proceed(c, step) == Know(c, [caller[c] EXCEPT !.pc = step])
Finish(c) == Know(c, Idle)

(* Mutant: a canceled PaymentIntent is bound like any other.               *)
BoundAlways(p, s) == [pending EXCEPT !.pi = p, !.status = s]

(* bindPendingAutoTopupPaymentIntent                                       *)
Bound(p, s) ==
  IF s = "canceled" THEN NoAttempt ELSE [pending EXCEPT !.pi = p, !.status = s]

Bindable(p) == pending.pi \in {0, p}

(* Spent is what the ledger knows; a pending charge is counted on top.     *)
(* Mutant: the pack that is about to be bought is not counted.             *)
OverCapOnlySpent == Cardinality(minted) > CapPacks

OverCap == Cardinality(minted) + 1 > CapPacks

RowOnly == UNCHANGED <<topup, minted, stripeVars, clock, copy, adrift, restored>>

(* Phase A.  Reservation and dispatch intent are one commit.               *)
Prepare(c) ==
  /\ Locked /\ AtStep(c, "idle")
  /\ \/ /\ pending.id # 0
        /\ Know(c, [Idle EXCEPT !.pc = "plan", !.id = pending.id])
        /\ UNCHANGED <<pending, reserved>>
     \/ /\ pending.id = 0 /\ ~OverCap /\ reserved < MaxAttempts
        /\ reserved' = reserved + 1
        /\ pending' = [id |-> reserved', claim |-> c, at |-> clock, pi |-> 0, status |-> "none"]
        /\ Know(c, [Idle EXCEPT !.pc = "plan", !.id = reserved', !.fresh = TRUE])
  /\ RowOnly

Mine(c) == pending.id = caller[c].id

Owned(c) == Mine(c) /\ pending.claim = c

FreshOwner(c) == caller[c].fresh /\ pending.claim = c

(* Phase B.  Whoever did not make the claim takes it and must look first.  *)
Plan(c) ==
  /\ Locked /\ AtStep(c, "plan")
  /\ \/ /\ ~Mine(c)
        /\ Finish(c) /\ UNCHANGED pending
     \/ /\ Mine(c) /\ pending.pi # 0
        /\ IF pending.status = "open"
           THEN Know(c, [caller[c] EXCEPT !.pc = "retrieve", !.pi = pending.pi])
           ELSE Finish(c)
        /\ UNCHANGED pending
     \/ /\ Mine(c) /\ pending.pi = 0 /\ FreshOwner(c)
        /\ \/ Finish(c) /\ pending' = NoAttempt
           \/ ~OverCap /\ Proceed(c, "dispatch") /\ UNCHANGED pending
     \/ /\ Mine(c) /\ pending.pi = 0 /\ ~FreshOwner(c)
        /\ pending' = [pending EXCEPT !.claim = c]
        /\ Know(c, [caller[c] EXCEPT !.pc = "lookup", !.at = pending.at])
  /\ RowOnly /\ UNCHANGED reserved

Expired(at) == clock - at > SafeRetry

(* findPaymentIntentForAttempt: the provider's list, no lock.              *)
Lookup(c) ==
  /\ AtStep(c, "lookup")
  /\ LET found == PaymentsOf(caller[c].id) IN
     \/ /\ found = {}
        /\ Proceed(c, IF Expired(caller[c].at) THEN "retire" ELSE "dispatch")
     \/ \E p \in found :
          /\ found = {p}
          /\ Know(c, [caller[c] EXCEPT !.pc = "bind", !.pi = p, !.status = payments[p].status])
     \/ /\ Cardinality(found) > 1 /\ Finish(c)
  /\ RowOnly /\ UNCHANGED <<pending, reserved>>

Retire(c) ==
  /\ Locked /\ AtStep(c, "retire")
  /\ Finish(c)
  /\ pending' = IF Owned(c) THEN NoAttempt ELSE pending
  /\ RowOnly /\ UNCHANGED reserved

(* recoverFailed: the known PaymentIntent is read outside the lock.        *)
Retrieve(c) ==
  /\ AtStep(c, "retrieve")
  /\ Know(c, [caller[c] EXCEPT !.pc = "recover", !.status = payments[caller[c].pi].status])
  /\ RowOnly /\ UNCHANGED <<pending, reserved>>

-----------------------------------------------------------------------------
(* Stripe                                                                  *)

Sent(p, s) ==
  events' = events \cup
    (CASE s = "succeeded" -> {[pi |-> p, kind |-> "succeeded"]}
       [] s = "open"      -> {[pi |-> p, kind |-> "failed"]}
       [] s = "canceled"  -> {[pi |-> p, kind |-> "canceled"]}
       [] OTHER           -> {})

Becomes(p, s) ==
  /\ payments' = [payments EXCEPT ![p].status = s]
  /\ Sent(p, s)
  /\ UNCHANGED wire

(* A cancellation as it is answered: it took effect, it came too late and  *)
(* the error shows the PaymentIntent, or nobody knows.                     *)
Cancel(p, shown) ==
  \/ payments[p].status = "open" /\ Becomes(p, "canceled") /\ shown = "canceled"
  \/ payments[p].status # "open" /\ UNCHANGED stripeVars /\ shown = payments[p].status
  \/ "unknown" \in Mishaps /\ shown = "open"
     /\ IF payments[p].status = "open" THEN Becomes(p, "canceled") ELSE UNCHANGED stripeVars

(* reconcileObservedPaymentIntent: a payment that stopped short is         *)
(* canceled before its attempt is given up.                                *)
(* Mutant: an attempt is given up as soon as its payment stops short.      *)
ReconcileByForgetting(p, s) ==
  /\ UNCHANGED stripeVars
  /\ pending' = IF s = "open" THEN NoAttempt ELSE Bound(p, s)

Reconcile(p, s) ==
  \/ /\ s # "open" /\ UNCHANGED stripeVars
     /\ pending' = Bound(p, s)
  \/ /\ s = "open"
     /\ \E shown \in Statuses :
          /\ Cancel(p, shown)
          /\ \/ pending' = Bound(p, shown)
             \/ "dbfault" \in Mishaps /\ UNCHANGED pending

(* The transaction of a caller that was shown a PaymentIntent: found by    *)
(* looking, it needs the claim and a row without one; retrieved, only the  *)
(* attempt.                                                                *)
StillWanted(c) ==
  \/ AtStep(c, "bind") /\ Owned(c) /\ pending.pi = 0
  \/ AtStep(c, "recover") /\ Mine(c) /\ Bindable(caller[c].pi)

BindFound(c) ==
  /\ Locked /\ caller[c].pc \in {"bind", "recover"}
  /\ IF StillWanted(c)
     THEN Reconcile(caller[c].pi, caller[c].status)
     ELSE UNCHANGED <<pending, stripeVars>>
  /\ Finish(c)
  /\ UNCHANGED <<topup, minted, reserved, clock, copy, adrift, restored>>

(* The last transaction up to the call: everything is checked again, then  *)
(* the lock is kept while Stripe is asked.                                 *)
(* Mutant: the key of a request names the claim.                           *)
KeyOfClaim(c) == [attempt |-> caller[c].id, of |-> c]

KeyOf(c) == [attempt |-> caller[c].id, of |-> Nobody]

Dispatch(c) ==
  /\ Locked /\ AtStep(c, "dispatch")
  /\ \/ /\ ~Owned(c) \/ pending.pi # 0
        /\ Finish(c) /\ UNCHANGED <<pending, topup, wire>>
     \/ /\ Owned(c) /\ pending.pi = 0
        /\ Finish(c) /\ pending' = NoAttempt /\ UNCHANGED <<topup, wire>>
     \/ /\ Owned(c) /\ pending.pi = 0 /\ ~OverCap /\ Expired(pending.at)
        /\ Finish(c) /\ UNCHANGED <<pending, topup, wire>>
     \/ /\ Owned(c) /\ pending.pi = 0 /\ ~OverCap /\ ~Expired(pending.at)
        /\ topup' = c
        /\ wire' = wire \cup {KeyOf(c)}
        /\ Proceed(c, "calling")
        /\ UNCHANGED pending
  /\ UNCHANGED <<minted, reserved, payments, events, clock, copy, adrift, restored>>

Waiting(k) == {c \in Callers : AtStep(c, "calling") /\ KeyOf(c) = k}

Show(k, p, s) ==
  caller' = [c \in Callers \cup {Operator} |->
    IF c \in Waiting(k) THEN [caller[c] EXCEPT !.pc = "answered", !.pi = p, !.status = s]
    ELSE caller[c]]

Known(k) ==
  {p \in DOMAIN payments : payments[p].key = k /\ clock - payments[p].born < Remembered}

(* A request with a remembered key is answered as it was the first time.   *)
Process(k) ==
  /\ k \in wire
  /\ wire' = wire \ {k}
  /\ \/ \E p \in Known(k) :
          Show(k, p, payments[p].first) /\ UNCHANGED <<payments, events>>
     \/ /\ Known(k) = {} /\ Len(payments) < MaxPayments
        /\ \E s \in Persistable :
             /\ payments' = Append(payments, [attempt |-> k.attempt, key |-> k,
                                              born |-> clock, first |-> s, status |-> s])
             /\ Show(k, Len(payments'), s)
             /\ Sent(Len(payments'), s)
  /\ UNCHANGED <<topup, rowVars, reserved, clock, copy, adrift, restored>>

(* The end of the dispatch: the answer is stored and the lock released.    *)
Answer(c) ==
  /\ AtStep(c, "answered")
  /\ topup' = IF topup = c THEN Nobody ELSE topup
  /\ Finish(c)
  /\ \/ Mine(c) /\ Bindable(caller[c].pi) /\ Reconcile(caller[c].pi, caller[c].status)
     \/ (~Mine(c) \/ "dbfault" \in Mishaps) /\ UNCHANGED <<pending, stripeVars>>
  /\ UNCHANGED <<minted, reserved, clock, copy, adrift, restored>>

(* An error that names no PaymentIntent, or the end of the process.  The   *)
(* attempt stays; the request may still be under way.                      *)
GiveUp(c) ==
  /\ \/ "unknown" \in Mishaps /\ caller[c].pc \in {"calling", "lookup", "retrieve"}
     \/ "crash" \in Mishaps /\ ~AtStep(c, "idle")
  /\ Finish(c)
  /\ topup' = IF topup = c THEN Nobody ELSE topup
  /\ adrift' = IF AtStep(c, "calling") /\ KeyOf(c) \in wire
               THEN adrift \cup {caller[c].id} ELSE adrift
  /\ UNCHANGED <<rowVars, reserved, stripeVars, clock, copy, restored>>

(* A payment goes on at the bank, is completed or canceled by hand.        *)
Move(p) ==
  /\ \/ payments[p].status = "processing" /\ \E s \in {"succeeded", "open"} : Becomes(p, s)
     \/ payments[p].status = "open" /\ \E s \in {"succeeded", "canceled"} : Becomes(p, s)
  /\ UNCHANGED <<topup, rowVars, reserved, caller, clock, copy, adrift, restored>>

-----------------------------------------------------------------------------
(* The webhook.  A handler that throws leaves everything for the next      *)
(* delivery, and an event with a receipt is not handled again: neither is  *)
(* a step.                                                                 *)

(* payment_intent.payment_failed and payment_intent.canceled               *)
Report(e) ==
  LET s == IF e.kind = "failed" THEN "open" ELSE "canceled" IN
  /\ pending' = IF payments[e.pi].attempt = pending.id THEN Bound(e.pi, s) ELSE pending
  /\ payments[e.pi].attempt = pending.id => Bindable(e.pi)
  /\ UNCHANGED minted

(* payment_intent.succeeded: the pack of the pending attempt, or of one    *)
(* only the provider remembers.                                            *)
Settle(e) ==
  LET a == payments[e.pi].attempt IN
  \/ e.pi \in minted /\ UNCHANGED <<pending, minted>>
  \/ /\ ~Settled(a) /\ pending.id = a /\ Bindable(e.pi)
     /\ minted' = minted \cup {e.pi}
     /\ pending' = NoAttempt
  \/ /\ ~Settled(a) /\ pending.id = 0
     /\ minted' = minted \cup {e.pi}
     /\ UNCHANGED pending

Deliver(e) ==
  /\ Locked /\ e \in events
  /\ IF e.kind = "succeeded" THEN Settle(e) ELSE Report(e)
  /\ events' = events \ {e}
  /\ UNCHANGED <<topup, reserved, caller, payments, wire, clock, copy, adrift, restored>>

-----------------------------------------------------------------------------
(* reconcileBoundAutoTopupAttempts, one attempt at a time                  *)

Scan ==
  /\ AtStep(Operator, "idle") /\ pending.id # 0
  /\ Know(Operator, [Idle EXCEPT !.id = pending.id, !.claim = pending.claim, !.pi = pending.pi,
                      !.pc = IF pending.pi = 0 THEN "find" ELSE "read"])
  /\ RowOnly /\ UNCHANGED <<pending, reserved>>

Find ==
  /\ caller[Operator].pc \in {"find", "refind"}
  /\ LET found == PaymentsOf(caller[Operator].id) IN
     \/ /\ found = {}
        /\ Proceed(Operator, IF AtStep(Operator, "find") THEN "claim" ELSE "clear")
     \/ \E p \in found :
          /\ found = {p}
          /\ Know(Operator, [caller[Operator] EXCEPT !.pc = "store", !.pi = p,
                               !.status = payments[p].status])
     \/ /\ Cardinality(found) > 1 /\ Finish(Operator)
  /\ RowOnly /\ UNCHANGED <<pending, reserved>>

(* claimExpiredProviderAbsentAttempt: the claim has to be the one that was *)
(* read with the scan.                                                     *)
Claim ==
  /\ Locked /\ AtStep(Operator, "claim")
  /\ IF /\ Mine(Operator) /\ pending.claim = caller[Operator].claim
        /\ pending.pi = 0 /\ Expired(pending.at)
     THEN /\ pending' = [pending EXCEPT !.claim = Operator]
          /\ Proceed(Operator, "refind")
     ELSE Finish(Operator) /\ UNCHANGED pending
  /\ RowOnly /\ UNCHANGED reserved

Clearable == Owned(Operator) /\ pending.pi = 0

ClearAbsent ==
  /\ Locked /\ AtStep(Operator, "clear")
  /\ pending' = IF Clearable THEN NoAttempt ELSE pending
  /\ Finish(Operator)
  /\ RowOnly /\ UNCHANGED reserved

(* bindObservedAttempt                                                     *)
Store ==
  /\ Locked /\ AtStep(Operator, "store")
  /\ LET k == caller[Operator] IN
     IF Mine(Operator) /\ Bindable(k.pi)
     THEN /\ pending' = Bound(k.pi, k.status)
          /\ IF k.status = "open" THEN Proceed(Operator, "read") ELSE Finish(Operator)
     ELSE Finish(Operator) /\ UNCHANGED pending
  /\ RowOnly /\ UNCHANGED reserved

(* What stopped short is canceled; what succeeded is left to its event,    *)
(* which is replayed through the webhook.                                  *)
Read ==
  /\ AtStep(Operator, "read")
  /\ LET p == caller[Operator].pi IN
     \E shown \in Statuses :
       /\ Cancel(p, shown)
       /\ IF shown = "canceled"
          THEN Know(Operator, [caller[Operator] EXCEPT !.pc = "retire", !.status = "canceled"])
          ELSE Finish(Operator)
  /\ UNCHANGED <<topup, rowVars, reserved, clock, copy, adrift, restored>>

(* retireCanceledAttempt                                                   *)
RetireCanceled ==
  /\ Locked /\ AtStep(Operator, "retire")
  /\ pending' = IF Mine(Operator) /\ pending.pi = caller[Operator].pi THEN NoAttempt ELSE pending
  /\ Finish(Operator)
  /\ RowOnly /\ UNCHANGED reserved

(* A payment only the provider remembers, while no attempt is pending.     *)
CancelForgotten(p) ==
  /\ Locked /\ AtStep(Operator, "idle")
  /\ pending.id = 0 /\ payments[p].status = "open" /\ ~Settled(payments[p].attempt)
  /\ Becomes(p, "canceled")
  /\ UNCHANGED <<topup, rowVars, reserved, caller, clock, copy, adrift, restored>>

(* One that succeeded is settled by its event, fetched from the provider   *)
(* (realSucceededEvent).                                                   *)
Replay(p) ==
  /\ AtStep(Operator, "idle")
  /\ payments[p].status = "succeeded" /\ p \notin minted
  /\ Sent(p, "succeeded")
  /\ UNCHANGED <<topup, rowVars, reserved, caller, payments, wire, clock, copy, adrift, restored>>

Operate ==
  \/ Scan \/ Find \/ Claim \/ ClearAbsent \/ Store \/ Read \/ RetireCanceled
  \/ \E p \in DOMAIN payments : CancelForgotten(p) \/ Replay(p)

-----------------------------------------------------------------------------
(* Clock, disaster                                                         *)

(* A call of Stripe lasts minutes, a tick hours.                           *)
Pass ==
  /\ clock < MaxNow /\ wire = {} /\ topup = Nobody
  /\ clock' = clock + 1
  /\ UNCHANGED <<topup, rowVars, reserved, caller, stripeVars, copy, adrift, restored>>

Backup ==
  /\ "restore" \in Mishaps /\ ~restored /\ copy.pending.id = 0 /\ pending.id # 0
  /\ copy' = [pending |-> pending, minted |-> minted]
  /\ UNCHANGED <<topup, rowVars, reserved, caller, stripeVars, clock, adrift, restored>>

(* Every process is stopped before the copy is put in place.               *)
Restore ==
  /\ "restore" \in Mishaps /\ ~restored
  /\ pending' = copy.pending /\ minted' = copy.minted
  /\ caller' = [c \in Callers \cup {Operator} |-> Idle]
  /\ topup' = Nobody
  /\ restored' = TRUE
  /\ UNCHANGED <<reserved, stripeVars, clock, copy, adrift>>

CallerStep(c) ==
  \/ Prepare(c) \/ Plan(c) \/ Lookup(c) \/ Retire(c) \/ Retrieve(c)
  \/ BindFound(c) \/ Dispatch(c) \/ Answer(c) \/ GiveUp(c)

TopupNext ==
  \/ \E c \in Callers : CallerStep(c)
  \/ \E k \in wire : Process(k)
  \/ \E p \in DOMAIN payments : Move(p)
  \/ \E e \in events : Deliver(e)
  \/ Operate \/ Pass \/ Backup \/ Restore

TopupSpec == TopupInit /\ [][TopupNext]_topupVars

-----------------------------------------------------------------------------
(* Types of the variables; the row only ever holds a status of             *)
(* PERSISTABLE_PAYMENT_INTENT_STATUSES.                                    *)
TopupTypeOK ==
  /\ topup \in Callers \cup {Nobody}
  /\ pending \in [id : 0..MaxAttempts, claim : Callers \cup {Operator, Nobody}, at : 0..MaxNow,
                  pi : 0..MaxPayments, status : Persistable \cup {"none"}]
  /\ reserved \in 0..MaxAttempts /\ clock \in 0..MaxNow
  /\ minted \subseteq DOMAIN payments
  /\ \A p \in DOMAIN payments : payments[p].status \in Statuses
  /\ \A e \in events : e.pi \in DOMAIN payments
  /\ adrift \subseteq 1..MaxAttempts

(* However often an attempt is dispatched, by whomever, after whatever     *)
(* outcome or restore, Stripe has one PaymentIntent for it.                *)
OnePaymentPerAttempt ==
  \A p, q \in DOMAIN payments : payments[p].attempt = payments[q].attempt => p = q

(* A charge that may still be taken, or was taken and has no pack yet,     *)
(* belongs to the pending attempt: nothing gives an attempt up while money *)
(* may move for it.  A request that outlived its sender is the exception,  *)
(* and so is what a restore forgot: those only the provider knows.         *)
UnsettledIsPending ==
  restored \/ \A p \in DOMAIN payments :
    \/ payments[p].status = "canceled" \/ p \in minted
    \/ payments[p].attempt \in adrift \cup {pending.id}

(* One payment of an attempt, and it is known; and the row holds no status *)
(* but the persistable ones.                                               *)
PaymentsAreTracked == TopupTypeOK /\ OnePaymentPerAttempt /\ UnsettledIsPending

(* The owner's monthly cap bounds what can be charged, not only what has   *)
(* been minted, with the same two exceptions.                              *)
ChargesWithinCap ==
  restored \/
    Cardinality({p \in DOMAIN payments :
                   payments[p].status # "canceled" /\ payments[p].attempt \notin adrift}) <= CapPacks
=============================================================================
