----------------------------- MODULE TierCheckout -----------------------------
(***************************************************************************)
(* One workspace's way to a subscription: the durable Checkout attempt and *)
(* the fence around it on the row of `subscriptions`, the Sessions opened  *)
(* at Stripe, and the events and the operator that bring the outcome back  *)
(* (credits/src/stripe: actions.ts, webhooks.ts, tier-checkout-v1-         *)
(* reconcile.ts).  SubscriptionMirror has what a row says of a             *)
(* subscription; here a subscription is live or dead, and a press, its     *)
(* call to Stripe and its answer are steps of their own.                   *)
(*                                                                         *)
(* The subscription that Session s sells is s too.  An event's `created`   *)
(* is its place in `sent`: SubscriptionMirror has the ties.                *)
(***************************************************************************)
EXTENDS Integers, SequencesExt

CONSTANTS
  Callers,       \* presses of the plan button under way at once
  SafeRetry,     \* TIER_CHECKOUT_IDEMPOTENCY_SAFE_RETRY_MS
  Window,        \* STRIPE_MAX_CALL_WINDOW_MS
  MaxCheckouts,  \* bound: Sessions ever opened
  MaxAttempts,   \* bound: attempts ever reserved
  MaxTicks,      \* bound: the last instant
  Announced,     \* bound: which of its events a sale sends, the others coming too late
  Mishaps        \* which of "lost", "restore" may happen

ASSUME CheckoutAssumption ==
  /\ SafeRetry \in Nat /\ Window \in Nat /\ Window < SafeRetry
  /\ Announced \in Seq({"checkout", "snapshot", "invoice"})
  /\ MaxCheckouts \in Nat /\ MaxAttempts \in Nat /\ MaxTicks \in Nat

None == 0

VARIABLES
  row,        \* the row of subscriptions: mirror, fence and attempt
  receipts,   \* stripe_events
  rollout,    \* tier_checkout_protocol_rollouts: state, revision, drain_started_at
  checkouts,  \* at Stripe: the Sessions of the customer, and what became of them
  sent,       \* at Stripe: the events
  answered,   \* at Stripe: those it will not send again
  calls,      \* what each press is at
  adrift,     \* requests whose sender is gone
  attempts,   \* attempts ever reserved
  ticks,
  saved,      \* a backup of the database
  restored    \* history: it was put back

checkoutVars == <<row, receipts, rollout, checkouts, sent, answered, calls, adrift,
                  attempts, ticks, saved, restored>>

Unfenced == [fenced |-> FALSE, dead |-> None, sub |-> None, status |-> "none", seen |-> 0,
             attempt |-> None, since |-> 0, session |-> None]
Idle     == [pc |-> "idle", attempt |-> None, round |-> 1, since |-> 0]
NoBackup == [row |-> Unfenced, receipts |-> {}, taken |-> FALSE]

CheckoutInit ==
  /\ row = Unfenced /\ receipts = {} /\ saved = NoBackup
  /\ checkouts = <<>> /\ sent = <<>> /\ answered = {}
  /\ calls = [c \in Callers |-> Idle] /\ adrift = {}
  /\ attempts = 0 /\ ticks = 0 /\ restored = FALSE

-----------------------------------------------------------------------------
(* The row.  While fenced its subscription is the one observed, if any,    *)
(* which is what the table's fence-shape CHECK demands.                    *)

HasLive(r) == ~r.fenced /\ r.sub # None /\ r.status # "dead"

Fence(r) ==
  IF r.fenced THEN r
  ELSE [r EXCEPT !.fenced = TRUE, !.dead = r.sub, !.sub = None, !.status = "none"]

(* EMPTY_TIER_CHECKOUT_ATTEMPT                                             *)
Cleared(r) == [r EXCEPT !.attempt = None, !.since = 0, !.session = None]

AttemptOf(s) == checkouts[s].attempt

(* Open, or sold and not yet ended.                                        *)
Unresolved(s) == checkouts[s].status = "open" \/ checkouts[s].life = "live"

(* Whoever is at Stripe holds the workspace lock.                          *)
Unlocked == \A c \in Callers : calls[c].pc \notin {"calling", "answered"}

-----------------------------------------------------------------------------
(* createTierCheckoutUrl                                                   *)

(* The first two transactions of a press, and the second one again after a *)
(* restart.  A press for another tier is refused while an attempt pends.   *)
Reserve(c) ==
  /\ calls[c].pc \in {"idle", "again"}
  /\ Unlocked /\ rollout.state = "active"
  /\ IF row.attempt # None THEN UNCHANGED <<row, attempts>>
     ELSE /\ ~HasLive(row) /\ attempts < MaxAttempts
          /\ attempts' = attempts + 1
          /\ row' = [Fence(row) EXCEPT !.attempt = attempts', !.since = ticks]
  /\ calls' = [calls EXCEPT ![c].pc = "reserved", ![c].attempt = row'.attempt]
  /\ UNCHANGED <<receipts, rollout, checkouts, sent, answered, adrift, ticks, saved, restored>>

(* scanTierCheckoutSessions, over every Session of the customer            *)
Matches == {s \in DOMAIN checkouts : AttemptOf(s) = row.attempt /\ row.session \in {None, s}}

(* Mutant: only an open Session stands in the way.                         *)
ConflictsIfOpen == {s \in DOMAIN checkouts \ Matches : checkouts[s].status = "open"}

Conflicts == {s \in DOMAIN checkouts \ Matches : Unresolved(s)}

(* Under the lock, with the attempt still the row's, nothing in the way.   *)
Resolves(c) ==
  /\ calls[c].pc = "reserved" /\ Unlocked
  /\ rollout.state = "active" /\ ~HasLive(row)
  /\ row.attempt # None /\ row.attempt = calls[c].attempt
  /\ Conflicts = {}

Restart(c) ==
  /\ row' = Cleared(row)
  /\ calls' = [calls EXCEPT ![c] =
       IF @.round = 1 THEN [Idle EXCEPT !.pc = "again", !.round = 2] ELSE Idle]

(* bindTierCheckoutSession, and the URL goes to the owner.                 *)
HandOut(c, s) ==
  /\ row' = [row EXCEPT !.session = s]
  /\ checkouts' = [checkouts EXCEPT ![s].handed = TRUE]
  /\ calls' = [calls EXCEPT ![c] = Idle]

(* Mutant: whatever is no longer open is over.                             *)
OverUnlessOpen(s) == checkouts[s].status # "open"

Over(s) == checkouts[s].status = "expired"

ResolveFound(c, s) ==
  /\ Resolves(c) /\ Matches = {s}
  /\ CASE Over(s) -> Restart(c) /\ UNCHANGED checkouts
       [] checkouts[s].status = "open" -> HandOut(c, s)
       [] OTHER -> /\ row' = [row EXCEPT !.session = s]
                   /\ calls' = [calls EXCEPT ![c] = Idle]
                   /\ UNCHANGED checkouts
  /\ UNCHANGED <<receipts, rollout, sent, answered, adrift, attempts, ticks, saved, restored>>

ResolveMissing(c) ==
  /\ Resolves(c) /\ Matches = {}
  /\ IF ticks - row.since >= SafeRetry THEN Restart(c)
     ELSE /\ calls' = [calls EXCEPT ![c].pc = "calling", ![c].since = ticks]
          /\ UNCHANGED row
  /\ UNCHANGED <<receipts, rollout, checkouts, sent, answered, adrift, attempts, ticks, saved, restored>>

Answer(c) ==
  /\ calls[c].pc = "answered"
  /\ \E s \in DOMAIN checkouts : AttemptOf(s) = calls[c].attempt /\ HandOut(c, s)
  /\ UNCHANGED <<receipts, rollout, sent, answered, adrift, attempts, ticks, saved, restored>>

(* A refusal, or the process or its connection ends: the transaction rolls *)
(* back, and a request that left may go on by itself.                      *)
Leave(c) ==
  /\ calls[c].pc # "idle"
  /\ calls' = [calls EXCEPT ![c] = Idle]
  /\ \/ UNCHANGED adrift
     \/ /\ "lost" \in Mishaps /\ calls[c].pc = "calling"
        /\ adrift' = adrift \cup {[attempt |-> calls[c].attempt, since |-> calls[c].since]}
  /\ UNCHANGED <<row, receipts, rollout, checkouts, sent, answered, attempts, ticks, saved, restored>>

-----------------------------------------------------------------------------
(* Stripe                                                                  *)

OpenSession(a, handed) ==
  /\ Len(checkouts) < MaxCheckouts
  /\ checkouts' = Append(checkouts, [attempt |-> a, born |-> ticks, status |-> "open",
                                     life |-> "none", handed |-> handed])

(* The idempotency key is the attempt's.  Stripe keeps it for at least 24  *)
(* hours, which an attempt's last call, before 23 hours, does not outlast. *)
Opened(a) ==
  IF \E s \in DOMAIN checkouts : AttemptOf(s) = a THEN UNCHANGED checkouts
  ELSE OpenSession(a, FALSE)

Arrive(c) ==
  /\ calls[c].pc = "calling" /\ Opened(calls[c].attempt)
  /\ calls' = [calls EXCEPT ![c].pc = "answered"]
  /\ UNCHANGED <<row, receipts, rollout, sent, answered, adrift, attempts, ticks, saved, restored>>

ArriveAdrift(w) ==
  /\ Opened(w.attempt) /\ adrift' = adrift \ {w}
  /\ UNCHANGED <<row, receipts, rollout, sent, answered, calls, attempts, ticks, saved, restored>>

Events(s, kinds) == sent \o [k \in DOMAIN kinds |-> [kind |-> kinds[k], sub |-> s]]

(* The owner pays at the page; the Session or the subscription ends.       *)
Complete(s) ==
  /\ checkouts[s].status = "open" /\ checkouts[s].handed
  /\ checkouts' = [checkouts EXCEPT ![s].status = "complete", ![s].life = "live"]
  /\ sent' = Events(s, Announced)

Expire(s) ==
  /\ checkouts[s].status = "open"
  /\ checkouts' = [checkouts EXCEPT ![s].status = "expired"]
  /\ UNCHANGED sent

End(s) ==
  /\ checkouts[s].life = "live"
  /\ checkouts' = [checkouts EXCEPT ![s].life = "dead"]
  /\ sent' = Events(s, <<"deleted">>)

AtStripe ==
  /\ \E s \in DOMAIN checkouts : Complete(s) \/ Expire(s) \/ End(s)
  /\ UNCHANGED <<row, receipts, rollout, answered, calls, adrift, attempts, ticks, saved, restored>>

-----------------------------------------------------------------------------
(* The webhook: what event i, of subscription s, makes of a row r.         *)

(* The handler throws, and its transaction rolls back.                     *)
Thrown == [Unfenced EXCEPT !.status = "thrown"]

(* assertTierCheckoutEventProviderAuthority and the checks around it       *)
FenceRefuses(r, s) ==
  \/ rollout.state = "active" /\ r.attempt = None
  \/ r.attempt # None /\ AttemptOf(s) # r.attempt
  \/ r.sub \notin {None, s}

OnCheckout(r, i, s) ==
  IF \/ r.seen > i \/ r.status = "dead"
     \/ r.fenced /\ s = r.dead
     \/ r.attempt # None /\ AttemptOf(s) \notin {None, r.attempt}
  THEN r
  ELSE IF r.fenced /\ FenceRefuses(r, s) THEN Thrown
  ELSE [r EXCEPT !.sub = s, !.session = IF r.attempt # None THEN s ELSE @]

OnSnapshot(r, i, s) ==
  IF \/ r.seen > i
     \/ r.fenced /\ s = r.dead
     \/ r.status = "dead" /\ r.sub = s
  THEN r
  ELSE IF (r.fenced /\ FenceRefuses(r, s)) \/ (HasLive(r) /\ r.sub # s) THEN Thrown
  ELSE [Cleared(r) EXCEPT !.sub = s, !.status = "live", !.seen = i, !.fenced = FALSE, !.dead = None]

OnDeleted(r, i, s) ==
  IF r.seen > i \/ (IF r.fenced THEN s = r.dead ELSE r.sub \notin {None, s}) THEN r
  ELSE IF ~r.fenced THEN [r EXCEPT !.sub = s, !.status = "dead", !.seen = i]
  ELSE IF FenceRefuses(r, s) THEN Thrown
  ELSE [Cleared(r) EXCEPT !.sub = None, !.seen = i, !.dead = s]

(* Beside its credits: it binds the fence, whatever its age.               *)
OnInvoice(r, s) ==
  IF ~r.fenced THEN IF r.sub \notin {None, s} /\ AttemptOf(s) # None THEN Thrown ELSE r
  ELSE IF s = r.dead THEN r
  ELSE IF FenceRefuses(r, s) THEN Thrown
  ELSE [r EXCEPT !.sub = s]

Handled(r, i) ==
  LET s == sent[i].sub IN
  CASE sent[i].kind = "checkout" -> OnCheckout(r, i, s)
    [] sent[i].kind = "snapshot" -> OnSnapshot(r, i, s)
    [] sent[i].kind = "deleted"  -> OnDeleted(r, i, s)
    [] OTHER                     -> OnInvoice(r, s)

(* Stripe sends an event until it is answered; a second delivery finds the *)
(* receipt and does nothing.                                               *)
Deliver(i) ==
  /\ i \notin answered /\ Unlocked
  /\ i \in receipts \/ Handled(row, i) # Thrown
  /\ row' = IF i \in receipts THEN row ELSE Handled(row, i)
  /\ receipts' = receipts \cup {i} /\ answered' = answered \cup {i}
  /\ UNCHANGED <<rollout, checkouts, sent, calls, adrift, attempts, ticks, saved, restored>>

-----------------------------------------------------------------------------
(* A restore of the database, and reconcileTierCheckoutV1Session           *)

Backup ==
  /\ "restore" \in Mishaps /\ ~saved.taken /\ Unlocked /\ rollout.state = "active"
  /\ saved' = [row |-> row, receipts |-> receipts, taken |-> TRUE]
  /\ UNCHANGED <<row, receipts, rollout, checkouts, sent, answered, calls, adrift, attempts, ticks, restored>>

RestoreBackup ==
  /\ saved.taken /\ ~restored
  /\ row' = saved.row /\ receipts' = saved.receipts /\ restored' = TRUE
  /\ calls' = [c \in Callers |-> Idle]
  /\ adrift' = adrift \cup {[attempt |-> calls[c].attempt, since |-> calls[c].since] :
                              c \in {d \in Callers : calls[d].pc = "calling"}}
  /\ UNCHANGED <<rollout, checkouts, sent, answered, attempts, ticks, saved>>

(* localMatchesProvider                                                    *)
Mirrors(r, s) ==
  /\ r.attempt = None
  /\ IF checkouts[s].life = "live" THEN ~r.fenced /\ r.sub = s /\ r.status = "live"
     ELSE r.fenced /\ r.dead = s /\ r.sub = None

(* A fence without an attempt is bound to that of the operator's Session.  *)
Rebound(s) ==
  IF row.fenced /\ row.attempt = None /\ ~Mirrors(row, s)
  THEN [row EXCEPT !.attempt = AttemptOf(s), !.since = checkouts[s].born, !.session = s]
  ELSE row

(* Its events that have no receipt, in their order; one that throws undoes *)
(* them all.                                                               *)
ReplayStep(s, r, i) ==
  IF r = Thrown \/ sent[i].sub # s \/ i \in receipts THEN r ELSE Handled(r, i)

Replayed(s) == FoldLeftDomain(LAMBDA r, i : ReplayStep(s, r, i), Rebound(s), sent)

(* An operator's, after a restore.                                         *)
Reconcile(s) ==
  /\ restored /\ rollout.state # "expanded" /\ Unlocked
  /\ AttemptOf(s) # None /\ checkouts[s].status # "expired"
  /\ \A t \in DOMAIN checkouts \ {s} : ~Unresolved(t)
  /\ row.fenced \/ row.sub = s
  /\ row.fenced /\ ~Mirrors(row, s) =>
       row.attempt \in {None, AttemptOf(s)} /\ row.session \in {None, s}
  /\ IF checkouts[s].status = "open" THEN row' = Rebound(s) /\ UNCHANGED receipts
     ELSE /\ Replayed(s) # Thrown /\ Mirrors(Replayed(s), s)
          /\ row' = Replayed(s)
          /\ receipts' = receipts \cup {i \in DOMAIN sent : sent[i].sub = s}
  /\ UNCHANGED <<rollout, checkouts, sent, answered, calls, adrift, attempts, ticks, saved, restored>>

-----------------------------------------------------------------------------
(* No call outlasts its window.                                            *)
CheckoutTick ==
  /\ ticks < MaxTicks
  /\ \A c \in Callers : calls[c].pc = "calling" => ticks < calls[c].since + Window
  /\ \A w \in adrift : ticks < w.since + Window
  /\ ticks' = ticks + 1
  /\ UNCHANGED <<row, receipts, rollout, checkouts, sent, answered, calls, adrift, attempts, saved, restored>>

(* Everything but the clock, which also waits for the calls of others.     *)
PressNext ==
  \/ \E c \in Callers :
       \/ Reserve(c) \/ ResolveMissing(c) \/ Arrive(c) \/ Answer(c) \/ Leave(c)
       \/ \E s \in DOMAIN checkouts : ResolveFound(c, s)
  \/ \E w \in adrift : ArriveAdrift(w)
  \/ AtStripe \/ Backup \/ RestoreBackup
  \/ \E i \in DOMAIN sent : Deliver(i)
  \/ \E s \in DOMAIN checkouts : Reconcile(s)

-----------------------------------------------------------------------------
(* Types of the variables.                                                 *)
CheckoutTypeOK ==
  LET Subs == 0..MaxCheckouts IN
  /\ row \in [fenced : BOOLEAN, dead : Subs, sub : Subs, status : {"none", "live", "dead"},
              seen : 0..Len(sent), attempt : 0..attempts, since : 0..MaxTicks, session : Subs]
  /\ (row.attempt # None => row.fenced) /\ (row.fenced => row.status = "none")
  /\ receipts \cup answered \subseteq DOMAIN sent
  /\ rollout.state \in {"expanded", "draining", "active"}
  /\ \A c \in DOMAIN calls : calls[c].pc \in {"idle", "reserved", "again", "calling", "answered"}
=============================================================================
