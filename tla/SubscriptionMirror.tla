------------------------- MODULE SubscriptionMirror -------------------------
(***************************************************************************)
(* One workspace's row of `subscriptions`, its pause period and its        *)
(* monthly grants, kept from Stripe's webhook (credits/src/stripe:         *)
(* webhooks.ts, actions.ts; pause.ts, state.ts).  Stripe is the            *)
(* environment: its changes append events to `sent`, and an event may be   *)
(* handled late, in any order, and again until its receipt is written.     *)
(*                                                                         *)
(* Every handler and owner action holds the workspace lock, so each is one *)
(* step; a handler that throws rolls back and leaves the event to be       *)
(* redelivered, so a throw is a step that is not taken.                    *)
(***************************************************************************)
EXTENDS Integers, Sequences, FiniteSets

CONSTANTS
  MaxSubs,      \* bound: subscriptions ever bought
  MaxEvents,    \* bound: Stripe events ever sent
  MaxTime,      \* bound: the last instant
  Changes,      \* bound: the changes Stripe may make, see Provider
  Skew,         \* CLOCK_SKEW_MS
  Lag,          \* how far event.created runs behind the database clock
  GraceLength,  \* config graceDays
  Drifted       \* may a row start with pausedAt and no open period?

Null == -1
Placeholder == 0     \* the checkout_fence:<workspace> subscription id
Subs == 1..MaxSubs

Irreversible == {"canceled", "incomplete_expired"}
Terminal     == Irreversible \cup {"unpaid"}
Statuses     == {"incomplete", "active", "past_due"} \cup Terminal

ASSUME MirrorAssumption ==
  /\ MaxSubs \in Nat /\ MaxEvents \in Nat /\ MaxTime \in Nat
  /\ Skew \in Nat /\ Lag \in 0..Skew /\ Lag <= MaxTime
  /\ GraceLength \in Nat \ {0}
  /\ Drifted \in SUBSET BOOLEAN /\ Drifted # {}

VARIABLES
  clock,     \* the database clock
  prov,      \* Stripe's own state of each subscription
  sent,      \* the events Stripe has sent, in the order they arose
  receipts,  \* stripe_events: the events with a final outcome
  mirror,    \* the row of subscriptions
  pause,     \* knowledge times of the open pause and of the latest close
  minted     \* the invoice.paid events that granted an allowance

vars == <<clock, prov, sent, receipts, mirror, pause, minted>>

(* Attempt k buys subscription k, so `attempt` also names its subscription *)
(* and the attempt bound into the metadata of subscription s is s.  While  *)
(* fenced, `sub` is the observed subscription or the placeholder, which    *)
(* is what the table's fence-shape CHECK demands.                          *)
Init ==
  /\ clock = Lag
  /\ prov = [s \in Subs |-> [status |-> "none", paused |-> FALSE, owed |-> FALSE]]
  /\ sent = <<>> /\ receipts = {} /\ minted = {}
  /\ pause = [open |-> Null, closed |-> Null]
  /\ \E p \in Drifted :
       mirror = [sub |-> Placeholder, status |-> "incomplete", seen |-> Null,
                 grace |-> Null, paused |-> p,
                 fenced |-> TRUE, fenceSub |-> Null, attempt |-> Null]

Tick ==
  /\ clock < MaxTime
  /\ clock' = clock + 1
  /\ UNCHANGED <<prov, sent, receipts, mirror, pause, minted>>

-----------------------------------------------------------------------------
(* Stripe                                                                  *)

Stamp == clock - Lag

(* An event carries the state it reports and who caused it.                *)
Event(kind, by, s, status, paused) ==
  [kind |-> kind, by |-> by, sub |-> s, at |-> Stamp, status |-> status, paused |-> paused]

(* Subscription s moves to `status`, `paused`, `owed`, and the events of   *)
(* the given kinds are sent.                                               *)
EmitBy(by, s, status, paused, owed, kinds) ==
  /\ Len(sent) + Len(kinds) <= MaxEvents
  /\ prov' = [prov EXCEPT ![s] = [status |-> status, paused |-> paused, owed |-> owed]]
  /\ sent' = sent \o [k \in DOMAIN kinds |-> Event(kinds[k], by, s, status, paused)]

Emit(s, status, paused, owed, kinds) == EmitBy("stripe", s, status, paused, owed, kinds)

(* A person at the Checkout page and two collection attempts are further   *)
(* apart than event.created's second; other changes may share one.         *)
InLaterSecond == \A i \in DOMAIN sent : sent[i].at < Stamp

(* A first payment that waits for the owner's confirmation, or is declined, *)
(* leaves the subscription incomplete; the decline is an event of its own. *)
Buy(s) ==
  /\ mirror.attempt = s /\ prov[s].status = "none"
  /\ InLaterSecond
  /\ \/ "buy" \in Changes
        /\ Emit(s, "active", FALSE, FALSE, <<"checkout", "snapshot", "paid">>)
     \/ /\ "incomplete" \in Changes
        /\ \E kinds \in {<<"snapshot">>, <<"failed", "snapshot">>} :
             Emit(s, "incomplete", FALSE, TRUE, kinds)

Collect(s) ==
  LET p == prov[s] IN
  \/ /\ "renew" \in Changes /\ InLaterSecond /\ p.status = "active" /\ ~p.paused
     /\ Emit(s, "active", FALSE, p.owed, <<"paid", "snapshot">>)
  \/ /\ "recover" \in Changes /\ InLaterSecond /\ p.status \in {"past_due", "unpaid", "incomplete"} /\ p.owed
     /\ Emit(s, "active", p.paused, FALSE, <<"paid", "snapshot">>)
  \/ /\ "void" \in Changes /\ InLaterSecond /\ p.status = "past_due"
     /\ Emit(s, "active", p.paused, FALSE, <<"snapshot">>)
  \/ /\ "paylate" \in Changes /\ p.status = "canceled" /\ p.owed
     /\ Emit(s, "canceled", p.paused, FALSE, <<"paid">>)

(* An incomplete subscription may be declined again on its invoice's page. *)
Dun(s) ==
  LET p == prov[s] IN
  \/ /\ "fail" \in Changes /\ InLaterSecond /\ p.status \in {"active", "past_due"} /\ ~p.paused
     /\ Emit(s, "past_due", FALSE, TRUE, <<"failed", "snapshot">>)
  \/ /\ "incomplete" \in Changes /\ InLaterSecond /\ p.status = "incomplete"
     /\ Emit(s, "incomplete", p.paused, TRUE, <<"failed">>)
  \/ /\ "giveup" \in Changes /\ p.status = "past_due"
     /\ Emit(s, "unpaid", p.paused, p.owed, <<"snapshot">>)
  \/ /\ "cancel" \in Changes /\ p.status \notin {"none"} \cup Irreversible
     /\ Emit(s, "canceled", p.paused, p.owed, <<"deleted">>)
  \/ /\ "expire" \in Changes /\ p.status = "incomplete"
     /\ Emit(s, "incomplete_expired", p.paused, FALSE, <<"snapshot">>)

(* The Portal, the Dashboard or pause_collection.resumes_at.               *)
Adjust(s) ==
  LET p == prov[s] IN
  /\ p.status \in {"active", "past_due", "unpaid"}
  /\ \/ "touch" \in Changes /\ Emit(s, p.status, p.paused, p.owed, <<"snapshot">>)
     \/ "pause" \in Changes /\ Emit(s, p.status, ~p.paused, p.owed, <<"snapshot">>)

Provider ==
  /\ \E s \in Subs : Buy(s) \/ Collect(s) \/ Dun(s) \/ Adjust(s)
  /\ UNCHANGED <<clock, receipts, mirror, pause, minted>>

-----------------------------------------------------------------------------
(* The row                                                                 *)

HasLive(m) == ~m.fenced /\ m.sub \in Subs /\ m.status \notin Irreversible

(* A deadline that belongs to the dunning episode the mirror is in.        *)
InheritsGrace(m) == m.status = "past_due" /\ m.grace > clock

(* Mutant: any live deadline is inherited, whatever the mirror's status.   *)
DeadlineOfAnyEpisode(m) == IF m.grace > clock THEN m.grace ELSE clock + GraceLength

DunningDeadline(m) == IF InheritsGrace(m) THEN m.grace ELSE clock + GraceLength

Stale(e) == mirror.seen > e.at

-----------------------------------------------------------------------------
(* The pause period (pause.ts).  `known` is Null for the owner's own call. *)

PauseStarted(known) ==
  IF known # Null /\ pause.closed - known > Skew THEN pause
  ELSE IF pause.open # Null THEN pause
  ELSE [pause EXCEPT !.open = IF known = Null THEN clock ELSE known]

(* Mutant: the close side compares nothing.                                *)
PauseEndedUnbounded(known) ==
  LET closed == IF known = Null THEN clock ELSE known
  IN  IF pause.open = Null THEN pause
      ELSE [open |-> Null, closed |-> IF closed > pause.closed THEN closed ELSE pause.closed]

PauseEnded(known) ==
  LET closed == IF known = Null THEN clock ELSE known
  IN  IF pause.open = Null \/ (known # Null /\ pause.open - known > Skew) THEN pause
      ELSE [open |-> Null, closed |-> IF closed > pause.closed THEN closed ELSE pause.closed]

(* pausedAt once ensurePauseStarted has left the period as `after`.        *)
FlagStarted(after) == after # pause \/ mirror.paused

(* pausedAt once ensurePauseEnded has, and clearPauseMirror after it.      *)
FlagEnded(after) == after.open # Null /\ mirror.paused

-----------------------------------------------------------------------------
(* The webhook.  Settle(i) is the receipt, written in the same transaction *)
(* with the outcome, whatever the outcome is.                              *)

Pending == DOMAIN sent \ receipts

(* Mutant: the receipt is left out.                                        *)
SettleNothing(i) == receipts' = receipts

Settle(i) == receipts' = receipts \cup {i}

Ignore(i) == Settle(i) /\ UNCHANGED <<clock, prov, sent, mirror, pause, minted>>

ProviderConfirms(e) ==
  prov[e.sub].status = e.status /\ prov[e.sub].paused = e.paused

MirrorMatches(e) ==
  mirror.sub = e.sub /\ mirror.status = e.status /\ mirror.paused = e.paused

(* The subscription of a fence that is not the dead one it replaced.       *)
Advances(e) == mirror.fenced /\ e.sub # mirror.fenceSub

(* The fence opens for the attempt it was raised for and nothing else.     *)
FenceAdmits(e) == Advances(e) => mirror.attempt = e.sub

(* checkout.session.completed, in subscription mode                        *)
CheckoutIgnored(e) ==
  \/ Stale(e)
  \/ mirror.status \in Irreversible
  \/ mirror.attempt # Null /\ mirror.attempt # e.sub
  \/ mirror.fenced /\ e.sub = mirror.fenceSub

HandleCheckout(i) ==
  LET e == sent[i] IN
  /\ e.kind = "checkout"
  /\ \/ CheckoutIgnored(e) /\ Ignore(i)
     \/ /\ ~CheckoutIgnored(e)
        /\ FenceAdmits(e)
        /\ Settle(i)
        /\ mirror' = [mirror EXCEPT !.sub = e.sub]
        /\ UNCHANGED <<clock, prov, sent, pause, minted>>

(* customer.subscription.created and .updated                              *)

(* Mutant: a tie goes to the later delivery.                               *)
SnapshotIgnoredTieless(e) ==
  \/ Stale(e)
  \/ mirror.fenced /\ e.sub = mirror.fenceSub
  \/ /\ mirror.status \in Irreversible /\ mirror.sub = e.sub
     /\ e.status \notin Irreversible

SnapshotIgnored(e) ==
  \/ Stale(e)
  \/ mirror.fenced /\ e.sub = mirror.fenceSub
  \/ /\ mirror.status \in Irreversible /\ mirror.sub = e.sub
     /\ e.status \notin Irreversible
  \/ /\ mirror.seen = e.at /\ mirror.sub = e.sub
     /\ ~MirrorMatches(e) /\ ~ProviderConfirms(e)

(* Another live subscription, or a fence raised for another attempt.       *)
SnapshotRefused(e) ==
  \/ HasLive(mirror) /\ mirror.sub # e.sub
  \/ ~FenceAdmits(e)

AttemptAfter(e) == IF Advances(e) THEN Null ELSE mirror.attempt

SnapshotRow(e, paused) ==
  [sub      |-> e.sub,
   status   |-> e.status,
   seen     |-> e.at,
   grace    |-> CASE e.status \in Irreversible -> Null
                  [] e.status = "past_due"     -> DunningDeadline(mirror)
                  [] OTHER                     -> mirror.grace,
   paused   |-> paused,
   fenced   |-> mirror.fenced /\ ~Advances(e),
   fenceSub |-> IF Advances(e) THEN Null ELSE mirror.fenceSub,
   attempt  |-> AttemptAfter(e)]

HandleSnapshot(i) ==
  LET e == sent[i] IN
  /\ e.kind = "snapshot"
  /\ \/ SnapshotIgnored(e) /\ Ignore(i)
     \/ /\ ~SnapshotIgnored(e) /\ ~SnapshotRefused(e)
        /\ Settle(i)
        /\ IF e.paused /\ e.status \notin Irreversible
           THEN LET after == PauseStarted(e.at)
                IN  pause' = after /\ mirror' = SnapshotRow(e, FlagStarted(after))
           ELSE LET after == PauseEnded(e.at)
                IN  pause' = after /\ mirror' = SnapshotRow(e, FlagEnded(after))
        /\ UNCHANGED <<clock, prov, sent, minted>>

(* customer.subscription.deleted                                           *)

DeletionIgnored(e) ==
  \/ Stale(e)
  \/ /\ mirror.seen = e.at /\ mirror.sub = e.sub
     /\ mirror.status \notin Irreversible /\ ~ProviderConfirms(e)
  \/ ~Advances(e) /\ mirror.sub # e.sub

HandleDeleted(i) ==
  LET e == sent[i] IN
  /\ e.kind = "deleted"
  /\ \/ DeletionIgnored(e) /\ Ignore(i)
     \/ /\ ~DeletionIgnored(e) /\ FenceAdmits(e)
        /\ Settle(i)
        /\ pause' = PauseEnded(Null)
        /\ mirror' = [sub      |-> IF Advances(e) THEN Placeholder ELSE e.sub,
                      status   |-> IF Advances(e) THEN "incomplete" ELSE "canceled",
                      seen     |-> e.at,
                      grace    |-> Null,
                      paused   |-> FALSE,
                      fenced   |-> mirror.fenced,
                      fenceSub |-> IF Advances(e) THEN e.sub ELSE mirror.fenceSub,
                      attempt  |-> AttemptAfter(e)]
        /\ UNCHANGED <<clock, prov, sent, minted>>

(* invoice.paid: every subscription here is bought with signed authority.  *)

Retained(e) == mirror.fenced /\ mirror.fenceSub = e.sub

(* Its subscription is the one the row is bound to; a fenced row is bound  *)
(* to the first paid invoice of its attempt.                               *)
BoundTo(e) ==
  IF mirror.fenced THEN Retained(e) \/ mirror.attempt = e.sub
  ELSE mirror.sub = e.sub

(* The grant is refused for an invoice from after the pause became known.  *)
RefusedForPause(e) == pause.open # Null /\ e.at - pause.open > Skew

PaidEndsGrace(e) ==
  IF mirror.grace = Null \/ Retained(e) \/ Stale(e) THEN mirror
  ELSE [mirror EXCEPT !.grace = Null,
          !.status = IF mirror.status \in Terminal THEN @ ELSE "active"]

(* Mutant: the order guard of the status write guards the grant too.       *)
GrantedUnlessStale(e) == ~RefusedForPause(e) /\ ~Stale(e)

Granted(e) == ~RefusedForPause(e)

HandlePaid(i) ==
  LET e == sent[i] IN
  /\ e.kind = "paid"
  /\ BoundTo(e)
  /\ Settle(i)
  /\ IF ~Granted(e)
     THEN /\ mirror' = IF Advances(e) THEN [mirror EXCEPT !.sub = e.sub] ELSE mirror
          /\ UNCHANGED minted
     ELSE /\ mirror' = IF Advances(e) THEN [mirror EXCEPT !.sub = e.sub] ELSE PaidEndsGrace(e)
          /\ minted' = minted \cup {i}
  /\ UNCHANGED <<clock, prov, sent, pause>>

(* invoice.payment_failed.  On a fenced row the write breaks the table's   *)
(* fence-shape CHECK, so the transaction aborts.                           *)

FailureIgnored(e) ==
  mirror.status \in Terminal \/ Stale(e) \/ mirror.sub # e.sub

HandleFailed(i) ==
  LET e == sent[i] IN
  /\ e.kind = "failed"
  /\ \/ FailureIgnored(e) /\ Ignore(i)
     \/ /\ ~FailureIgnored(e) /\ ~mirror.fenced
        /\ Settle(i)
        /\ mirror' = [mirror EXCEPT !.status = "past_due", !.grace = DunningDeadline(mirror)]
        /\ UNCHANGED <<clock, prov, sent, pause, minted>>

Handle(i) ==
  \/ HandleCheckout(i) \/ HandleSnapshot(i) \/ HandleDeleted(i)
  \/ HandlePaid(i) \/ HandleFailed(i)

Webhook == \E i \in Pending : Handle(i)

-----------------------------------------------------------------------------
(* The owner (actions.ts).  Each call to Stripe is made under the lock.    *)

(* Mutant: an attempt still under way is replaced.                         *)
MayReserveAgain == ~HasLive(mirror)

MayReserve == mirror.attempt = Null /\ ~HasLive(mirror)

(* createTierCheckoutUrl reserves an attempt and fences the row with it.   *)
Reserve(s) ==
  /\ MayReserve
  /\ prov[s].status = "none" /\ \A r \in Subs : prov[r].status = "none" => s <= r
  /\ mirror' =
       IF mirror.fenced THEN [mirror EXCEPT !.attempt = s]
       ELSE [mirror EXCEPT !.attempt = s, !.fenced = TRUE, !.fenceSub = mirror.sub,
                           !.sub = Placeholder, !.status = "incomplete"]
  /\ UNCHANGED <<clock, prov, sent, receipts, pause, minted>>

(* A pause of what is already paused (a stale page, a second submit) moves *)
(* resumes_at and leaves the period as it is.                              *)
OwnerPause(s) ==
  /\ HasLive(mirror) /\ mirror.sub = s
  /\ prov[s].status \in {"active", "past_due", "unpaid"}
  /\ EmitBy(IF mirror.paused THEN "repeat" ELSE "owner",
            s, prov[s].status, TRUE, prov[s].owed, <<"snapshot">>)
  /\ pause' = PauseStarted(Null)
  /\ mirror' = [mirror EXCEPT !.paused = FlagStarted(PauseStarted(Null))]
  /\ UNCHANGED <<clock, receipts, minted>>

OwnerResume(s) ==
  /\ HasLive(mirror) /\ mirror.sub = s /\ mirror.paused
  /\ prov[s].status \in {"active", "past_due", "unpaid"}
  /\ EmitBy("owner", s, prov[s].status, FALSE, prov[s].owed, <<"snapshot">>)
  /\ pause' = PauseEnded(Null)
  /\ mirror' = [mirror EXCEPT !.paused = FlagEnded(PauseEnded(Null))]
  /\ UNCHANGED <<clock, receipts, minted>>

Owner ==
  \/ \E s \in Subs : Reserve(s)
  \/ "owner" \in Changes /\ \E s \in Subs : OwnerPause(s) \/ OwnerResume(s)

Next == Tick \/ Provider \/ Webhook \/ Owner

Spec == Init /\ [][Next]_vars

(* Stripe redelivers an event until it is answered with success.           *)
FairSpec == Spec /\ \A i \in 1..MaxEvents : WF_vars(i \in Pending /\ Handle(i))

-----------------------------------------------------------------------------
(* Types of the seven variables.                                           *)
Instants == Lag..MaxTime
Stamps   == 0..(MaxTime - Lag)

ProvSpace == [status : Statuses \cup {"none"}, paused : BOOLEAN, owed : BOOLEAN]

EventSpace ==
  [kind : {"checkout", "snapshot", "deleted", "paid", "failed"},
   by : {"stripe", "owner", "repeat"}, sub : Subs, at : Stamps,
   status : Statuses, paused : BOOLEAN]

RowSpace ==
  [sub : Subs \cup {Placeholder}, status : Statuses, seen : Stamps \cup {Null},
   grace : Nat \cup {Null}, paused : BOOLEAN, fenced : BOOLEAN,
   fenceSub : Subs \cup {Null}, attempt : Subs \cup {Null}]

PauseSpace == [open : (0..MaxTime) \cup {Null}, closed : (0..MaxTime) \cup {Null}]

TypeOK ==
  /\ clock \in Instants /\ prov \in [Subs -> ProvSpace]
  /\ sent \in Seq(EventSpace)
  /\ receipts \subseteq DOMAIN sent /\ minted \subseteq receipts
  /\ mirror \in RowSpace /\ pause \in PauseSpace

(* The handler of a failed invoice asks for no status: the declined first  *)
(* payment of an incomplete subscription puts its row in dunning.          *)
FailureTold(s) == \E i \in receipts : sent[i].kind = "failed" /\ sent[i].sub = s

ShowsDecline(s, status) ==
  status = "incomplete" /\ mirror.status = "past_due" /\ FailureTold(s)

(* Once every event Stripe sent has its receipt, in whatever order they    *)
(* came, the row says what Stripe says: the live subscription, its status  *)
(* and its pause, or no live subscription at all.  The status it may have  *)
(* wrong is that of a subscription whose first payment was declined, and   *)
(* only until Stripe next reports another.                                 *)
Agrees ==
  /\ \A s \in Subs :
       prov[s].status \notin {"none"} \cup Irreversible =>
         /\ ~mirror.fenced /\ mirror.sub = s
         /\ mirror.status = prov[s].status \/ ShowsDecline(s, prov[s].status)
         /\ mirror.paused = prov[s].paused
         /\ (pause.open # Null) = prov[s].paused
  /\ HasLive(mirror) => prov[mirror.sub].status \notin Irreversible

SettledRowAgrees == receipts = DOMAIN sent => Agrees

(* A workspace never holds two subscriptions that both bill.               *)
OneLiveSubscription ==
  \A r, s \in Subs :
    {prov[r].status, prov[s].status} \cap ({"none"} \cup Irreversible) = {} => r = s

(* A row never shows a subscription alive that Stripe has ended once that  *)
(* end has been handled: a death notice is final for its subscription.     *)
DeathIsFinal ==
  \A i \in receipts :
    sent[i].kind = "deleted" => ~(HasLive(mirror) /\ mirror.sub = sent[i].sub)

(* The row's pausedAt and the open pause period move together, whichever   *)
(* of the owner and the webhook writes first.                              *)
PauseTruthsAgree == HasLive(mirror) => (mirror.paused <=> pause.open # Null)

(* A workspace in dunning has the deadline that state.ts derives its grace *)
(* from: with none it would be free at once, and nothing would correct it. *)
DunningHasDeadline == mirror.status = "past_due" => mirror.grace # Null

(* The row never contradicts itself, however its writers interleave: its   *)
(* columns hold what they admit, dunning comes with its deadline, and the  *)
(* two records of a pause are one.                                         *)
RowIsCoherent == TypeOK /\ DunningHasDeadline /\ PauseTruthsAgree

(* One subscription lives at a time, at Stripe and on the row, and one     *)
(* that was ended does not come back.                                      *)
OneLife == OneLiveSubscription /\ DeathIsFinal

(* Entering dunning opens a full window, and a window still running is     *)
(* neither moved nor cleared while dunning lasts.                          *)
GraceWindowHolds ==
  [][ mirror'.status = "past_due" =>
        /\ mirror.status # "past_due" => mirror'.grace = clock + GraceLength
        /\ InheritsGrace(mirror) => mirror'.grace = mirror.grace ]_vars

(* A report created more than the tolerance before the owner paused or     *)
(* resumed neither opens nor closes a pause, whatever was handled between. *)
OwnerPauseStands ==
  [][ \A i \in receipts' \ receipts :
        sent[i].kind = "snapshot" /\ (pause'.open = Null) # (pause.open = Null) =>
          \A j \in DOMAIN sent :
            sent[j].by = "owner" => sent[j].at <= sent[i].at + Skew ]_vars

(* No paid invoice is given its final outcome without its allowance, but   *)
(* one that Stripe issued while the subscription was paused.               *)
OnlyPausedInvoicesRefused ==
  \A i \in receipts : sent[i].kind = "paid" /\ ~sent[i].paused => i \in minted

(* A paid invoice that gets no allowance was issued more than the          *)
(* tolerance after a pause Stripe knew of, however late it is handled and  *)
(* whatever has become of its subscription meanwhile.                      *)
RefusedAfterPause ==
  \A i \in receipts \ minted :
    sent[i].kind = "paid" =>
      \E j \in DOMAIN sent : sent[j].paused /\ sent[j].at + Skew < sent[i].at

(* With deliveries repeated until answered, the row comes to agree with    *)
(* Stripe and stays so.                                                    *)
EventuallyAgrees == <>[](Agrees /\ Pending = {})
=============================================================================
