# Respin: a verification of its money paths

This directory holds TLA+ specifications of the parts of Respin (`src/respin`)
that decide who pays for what, and what is destroyed: the credit ledger, the
mirror of the Stripe subscription, the Checkout that sells one, the off-session
pack charge, the cutovers to those two, the metered generation pipeline with its run slots and its recovery
receiver, the onboarding build with the report on its lost debits, the budget
of the calls the product pays for itself, with the two kinds of work that
spend it, and the deletion of a workspace; and what decides in whose words a
generation is written: the versions of a creator's brain documents. TLC checks them on small instances;
TLAPS proves the most important of their invariants for every value of the
constants.

Paths below are relative to `src/`. `credits/` stands for
`respin/packages/credits/src/`, `db/` for `respin/packages/db/src/`.

## 1. The repository

Three product lines live in the tree.

* **Respin** (`respin/`), the active one: a Next.js application and a pg-boss
  worker over one Postgres database. Creators build a "brain", generate
  scripts with a language model, and pay for it by subscription and credits.
  Its requirements and decisions are in `docs/initial/`.
* **Cutdown** (`cutdown/`), in maintenance: a local video editing pipeline,
  one process over files.
* **UGC Intelligence** (`src/`), frozen.

Only Respin has the concurrency, money and failure handling that makes a model
worth its keep, so the project is about Respin.

### 1.1 Components of Respin

State is rows of Postgres unless something else is said. "Lock" is the
workspace's transaction-scoped advisory lock (`takeWorkspaceLock`).

| Component | State | Operations | Interacts with | What is hard, and what makes it correct |
|---|---|---|---|---|
| **Credit ledger** `credits/ledger.ts balance.ts fold.ts clock.ts pause.ts` | append-only `credit_ledger`, `pause_periods` | grant, purchase, debit, refund, adjust, derive balance (mints the free allowance and expires lots as a side effect), start and end a pause | everything that spends; the webhook | a replay over immutable rows must never fail; lazy expiry and free mint; clocks read under and outside the lock. The row sum is the balance, the past does not change |
| **Subscription mirror** `credits/stripe/webhooks.ts actions.ts`, `credits/state.ts` | one `subscriptions` row, receipts in `stripe_events` | one handler per event type, owner's checkout, pause, resume | Stripe (redelivers, reorders), ledger | order, duplicates, second-granular clocks, two writers. The row ends where Stripe is |
| **Generation** `credits/generate.ts`, `modes/src/pipeline.ts` | `generation_attempts`, `generations`, `model_usage`, debits | one press of "generate" | ledger, run slots, vendor, brain, receiver | crash anywhere, ambiguous commits, repeats, prices and balances that move. One vendor run, charge and work together |
| **Run slots** `db/run-slot.ts` | session advisory locks | acquire, release | generation, inference, brain edits | a slot lives as long as a connection |
| **Recovery receiver** `db/generation-recovery.ts`, `worker/retention.ts` | the attempt rows | a sweep per minute | generation | judging a run by its age |
| Inference, voice, included build `credits/inference.ts infer-voice.ts included-build.ts` | attempt-like claims, `first_billable_attempts` | one build | ledger, slots | one free build per profile, claimed at commit and not at insert |
| Pasted reference `credits/pasted-reference.ts` | parked autopsy claims | paste, settle on page load | ledger, system spend | return or keep the debit once |
| **Tier Checkout** `credits/stripe/actions.ts webhooks.ts tier-checkout-v1-reconcile.ts` | the attempt and the fence on the `subscriptions` row | press, scan, bind, restart; reconcile after a restore | Stripe's Sessions, the mirror | a request or an answer lost, an idempotency key that expires. One Checkout that can bill, and the row knows it |
| Auto-topup `credits/stripe/auto-topup*.ts` | topup attempts | offer, dispatch, reconcile, revoke | Stripe, ledger | crash between PaymentIntent and its id |
| Protocol rollouts `credits/stripe/*-rollout.ts *-v1-reconcile.ts` | a rollout row each | drain, prove quiescence, activate | operator, Stripe | old processes that still hold a charge |
| Deletion lifecycle, executor, external commands `db/deletion-*.ts` | `deletion_operations`, fences | request, cancel, advance, erase | journal, Stripe, S3 | irreversible steps, cancellation window |
| Deletion journal `db/deletion-journal*.ts` | objects in S3 | append, list, replay after a restore | deletion lifecycle | two stores, no common commit |
| System spend and autopsy `db/system-spend.ts`, `worker/system-autopsy.ts retry.ts` | day totals, cache leases | claim, complete, recover, retry | vendor | stale claims, caps |
| Retention `db/retention-*.ts` | clocks per table | sweep | every table | order of clocks, partial failure |
| Auth mail `db/auth-mail.ts` | outbox | admit, record outcome | mail provider | global cap, terminal rows |
| Auth, membership `packages/auth`, `db/membership-lifecycle.ts` | sessions, members | sign in, invite, remove | all | revocation during a request |
| **Brain documents** `db/brain-ops.ts with-workspace.ts interview-ops.ts promotion-ops.ts` | `brain_docs`, activation snapshots, interview drafts, promotion proposals | infer, answer, submit, edit, confirm, activate, refresh, accept, reject | generation, inference, feedback, edit slot | two owners at once: what is activated is what was confirmed, no edit is made from a version that is over, activations of different kinds do not miss each other |
| Frameworks, trends `db/frameworks.ts trends-storage.ts`, `packages/trends` | content, measurements | import, refresh | worker | idempotent ingestion |
| Sample spin `db/public-sample-spin.ts`, `credits/sample-spin/` | limiter rows | admit, finish | vendor | public limiter |
| Results, feedback, export | a few tables each | single-transaction writes, reads | promotions | little |
| Config, llm, modes, application, scripts | | | | pure or I/O |

`PROJECT.json` lists every component with its status; section 8 says what is
left out of the modelled ones.

## 2. Modules

| Module | Models | Extends or uses |
|---|---|---|
| `LedgerFold` | the pure replay of `fold.ts` | community `Folds` |
| `LotExpiry` | when a lot expires, defined a second time, instant by instant | `LedgerFold` |
| `CreditLedger` | transactions on one workspace's ledger | `LedgerFold` |
| `CreditAccount` | what a ledger promises: abstract | |
| `LedgerAccount` | the account a ledger amounts to: the refinement mapping | `CreditLedger`, instance of `CreditAccount` |
| `SubscriptionMirror` | the row, its events and Stripe | |
| `TierCheckout` | the press of a plan, the fenced row, Sessions at Stripe, and the operator after a restore | community `SequencesExt` |
| `TierCheckoutRollout` | the cutover from the old binary's Checkouts | `TierCheckout` |
| `AutoTopup` | the pack charge of one month, with the operator and a restore | |
| `AutoTopupRollout` | the cutover from the old binary's charges | |
| `RunSlots` | the counting semaphore | |
| `Workspace` | credits, pause and slots of a workspace, which its operations share | `RunSlots` |
| `AttemptContract` | what a press promises: abstract | |
| `Generation` | the pipeline, the receiver and the world | `Workspace`, instance of `AttemptContract` |
| `IncludedBuild` | the onboarding build, and the report on unbilled attempts | `Workspace` |
| `SystemSpend` | the day's budget: claims, facts, corrections | community `FiniteSetsExt` |
| `AutopsyWork` | a pasted reference, from the owner's debit to its refund | `SystemSpend` |
| `SampleSpin` | the public sample spin | `SystemSpend` |
| `BrainDocuments` | versions of a profile's documents, the interview, promotions from feedback | community `SequencesExt` |
| `DeletionLifecycle` | request, cancellation, executor, outbox, journal, erasure | |
| `WorkspaceRuns` | generations and builds of one workspace at once | `Generation`, `IncludedBuild` |
| `LedgerFoldProofs` `LedgerProofs` `MirrorAndBrainProofs` `TierCheckoutProofs` `AutoTopupProofs` `BackOfficeProofs` `GenerationProofs` | theorems (section 5); `LedgerFoldProofs` is about expiries and replays, `LedgerProofs` about the transactions and what they make of a replay, `BackOfficeProofs` about the deletion, the budget, the autopsies and the spins, `TierCheckoutProofs` and `AutoTopupProofs` about their rollouts too, `GenerationProofs` about the slots and the included build too | the modules they are about, `TLAPS` |
| `FiniteSums` | lemmas about sums and folds over finite sets, which `LedgerFoldProofs`, `BackOfficeProofs` and `TierCheckoutProofs` cite | community `FiniteSetsExt`, `TLAPS` |
| `MCCreditLedger` `MCSubscriptionMirror` `MCGeneration` | values for TLC | |
| `MCLedgerStories` `MCWorkspaceStories` `MCGenerationStories` `MCTopupStories` `MCCheckoutStories` `MCBackOfficeStories` | several stories of one or more specifications in one run (section 3) | |

Two compositions are checked as such. `WorkspaceRuns` lets `Generation` and
`IncludedBuild` run on one `Workspace`: they compete for its slots, spend its
credits and stop at its pause. `AutopsyWork` and `SampleSpin` spend one day's
budget. That each of the two spenders implements `SystemSpend` is proved, and so
is that each operation of `WorkspaceRuns` keeps what the other promises.

Definitions marked "Mutant" in a module are deliberate mistakes used to confirm
that each property can fail; no specification refers to them.

### 2.1 The ledger

`LedgerFold` translates `fold.ts`: merging of pauses (`MergePauses`), the
pause-shifted expiry of a lot (`EffectiveExpiry`), the order in which lots are
spent (`SpentBefore`), allocation, and the replay (`FoldLedger`) whose `sound`
field is FALSE exactly where the code throws `LedgerIntegrityError`.
`LotExpiry` says what `EffectiveExpiry` should be without folding: it counts,
instant by instant, how long a lot's clock has run.

`CreditLedger` has one `tx` record per database session. A request goes
through `Begin` (the caller reads its `at`), `TakeLock` or `Refuse` (the
advisory lock, then the checks made under it), `Work` (one of `WorkRead`,
`WorkSpend`, `WorkRefund`, `WorkLot`, `WorkPause`: the handler with the free
mint and the expiry rows it derives on the way) and `Commit` or `Rollback`.
`asOf`, a history variable, is the latest instant at which a lock holder read
the clock. `ChangeTier` stands for the webhook.

### 2.2 The subscription mirror

Stripe is the environment: `Buy`, `Collect`, `Dun` and `Adjust` change its own
state `prov` and append events to `sent` (a declined payment sends its failure,
of an incomplete subscription too). Each `Handle*` action is one
delivery of one event: the handler of `webhooks.ts`, its guards in the order
of the code, and the receipt written in the same transaction. A handler that
throws rolls back, so the event stays pending: a throw is the absence of a
step. `Reserve`, `OwnerPause` and `OwnerResume` are the owner's actions,
which call Stripe while holding the lock. Event times are Stripe's seconds,
`Lag` behind the database clock at most `Skew` = `CLOCK_SKEW_MS`.

A row is fenced (`fenced`, `fenceSub`) while a checkout is reserved; attempt
number *k* is the one that buys subscription *k*, which is what the signed
metadata of the code establishes.

Before the subscription there is the Checkout, which `TierCheckout` has in
detail where `SubscriptionMirror` has one step, `Reserve`. A press
(`createTierCheckoutUrl`) commits an attempt (`Reserve`), then holds the lock
while it scans the customer's Sessions (`ResolveFound`, `ResolveMissing`), calls
Stripe (`Arrive`) and hands the page's address out (`Answer`). It may leave at
any point, and its request may arrive after it (`ArriveAdrift`). The webhook is
one operator per handler (`OnCheckout`, `OnSnapshot`, `OnDeleted`, `OnInvoice`)
from a row to the row it leaves or to `Thrown`. `Backup` and `RestoreBackup` set
the database back, after which the operator may use `Reconcile`. In the other
direction the detail is traded: a subscription is live or dead, an event's time
is its place in the queue.

`TierCheckoutRollout` starts before the migration that fences the rows; its
`OldRead`, `OldSend` and `OldArrive` are the old binary, known here only from
what the rollout says of it, and `BeginDrain`, `RestartDrain`, `Audit` and
`Activate` the operator's protocol on the same row.

### 2.3 Generation

One caller is one execution of `generate`. Its `pc` walks through the steps of
the function:

| Action | `credits/generate.ts` |
|---|---|
| `CheckPause` `CheckCap` `CheckFunds` | 390-398, 474-570, 571-618: three separate reads before any lock |
| `AcquireSlot` | 619-629, `db/run-slot.ts` |
| `ReadBrain` `Claim` `Start` | 630-846, 847-873, 874-881 |
| `VendorAnswers` | 882-962 and `modes/src/pipeline.ts`: draft, at most one rewrite, at most one scoring call; each call is metered as it ends |
| `Checkpoint` `Settle` | 963-999, 1292-1566 |
| `RecordRefusal` `RecordRecoveryRequired` | their own transactions, without effect on a row that has ended |
| `Release` | the `finally`, 1022-1031 |
| `Receive` | one tick of the receiver |

`Crash` ends a process at any step and frees its slot. `LoseConnection` frees
the slot and not the run. With `"dbfault"` the checkpoint or the settlement
fails, or commits without its caller hearing of it. `World` pauses the
workspace, publishes a price, grants, spends, or activates a brain.

A process that lives cuts a vendor call off at `Deadline` and stores the answer
before more time passes (`Urgent`); that is what `AbortSignal.timeout` does up
to scheduling delay, and it is the assumption under which `LiveRunsStand` is
checked.

### 2.4 The included build

`IncludedBuild` follows `runInference` (`credits/inference.ts:524-1000`) and its
caller `inferVoice`. A press has an attempt id of its own
(`app/(product)/onboarding/actions.ts:286`), so a caller stands for an attempt.

| Action | code |
|---|---|
| `CheckProfile` `CheckOpen` `ReadConfig` `Quote` `CheckUncharged` `CheckCredits` | steps 3 to 6 of `runInference`: six reads, outside any lock |
| `AcquireForBuild` `ReleaseBuild` | 731-762 and the `finally` |
| `HearVendor` `Record` | step 7 and 8: the answer, then `recordModelUsage` in its own transaction, which also writes `first_billable_attempts` |
| `Debit` | step 9: the price decided again from the claim, under the workspace lock |
| `StoreVoice` | the reply is checked and stored after the money (`infer-voice.ts`) |
| `Unbilled` | the query of `reconcileSpend` (`db/spend-rollup.ts`) |

`told` is the configuration a press read, which is also the version its usage
row carries. An answer is of one of four classes (`llm/src/errors.ts`): a
reply cut off at our own ceiling is paid for and does not use up the included
build. Every transaction after the vendor may fail, or commit unheard.

### 2.5 The pack charge

`AutoTopup` has callers (`maybeAutoTopup`), Stripe with its PaymentIntents, and
the operator. `Prepare` reserves an attempt, `Plan` decides what to do with a
pending one, `Lookup`, `Retrieve`, `BindFound` and `Retire` find out what became
of it, `Dispatch` and `Answer` are the call that charges, made under the
workspace lock with the attempt's idempotency key; `Report` and `Settle` are
the webhook. `GiveUp` is a call whose answer never comes: Stripe may process it
later (`Process`). `Store`, `Read`, `Claim` and the actions next to them are
the reconciliation of `auto-topup-v1-reconcile.ts`; `Restore` sets the database
back to an earlier copy, after which an attempt may be charged whose marker is
gone. The owner's wish may change between any two transactions, so every check
of it may refuse. `SafeRetry` is the time after which the code no longer trusts
the idempotency key, `Remembered` how long Stripe honours it.

`AutoTopupRollout` is the step before: `OldRead`, `OldSend` and `Arrive` are the
old fleet's charge, outside any transaction. `Fence`, `BeginDrain`, `Audit` and
`Activate` are the operator's protocol; `StopFleet` is what the operator
asserts and the database cannot see.

### 2.6 The deletion of a workspace

`DeletionLifecycle` has the row of `deletion_operations` with its reserved
journal plan, the journal (an object per version, written once), the outbox,
the subscription at Stripe, and the executor's workers under a lease that may
lapse while its holder goes on. `Reserve*` and `Finalize*` are the two
transactions of a journalled transition; between them lies the put, which the
rollback of its transaction does not take back. `Enqueue`, `Dispatch`, `Call`
and `Record` are one external command; `Crash` may fall between any two, and
`Land` is a request Stripe processes after its sender has given up. `Owner`
steps, `Request` and `ApplyCancel`, run against them. One command kind stands
for each phase of the outbox: `close`, `reopen`, `end`.

### 2.7 The product's own spend

`SystemSpend` is one business date of `db/system-spend.ts`: `ClaimSpend`
reserves an attempt's worst case under the day's cap and, for spins, their
share; `RecordUsage` books the one fact; `Reconcile` corrects it once.
`AutopsyWork` adds what the attempt is for: the owner's debit at intake, the
dispatcher, worker and finalization, recovery of a worker that outlived its
lease, the parking and refund of a claim, pauses and tombstones under all of
it. `SampleSpin` adds admission under one lock, the deadline and the lease, the
three transactions of finalization, recovery, and the rotation of the key by
which a visitor is known.

### 2.8 The brain of a profile

`BrainDocuments` has one profile's versions (`docs`), the snapshots of its
activations, its interview draft and its promotion proposals. A member's request
is a transaction: `Begin` (its `now()`), `Lock` (the advisory lock
`brain:workspace:profile`, and what is read under it), then the operation, which
commits, or `Rollback`.

| Action | code |
|---|---|
| `Write` `Edit` | `writeBrainDoc`, for `infer-voice.ts` and for `editBrainDocument`, which has looked at its base once before the lock and holds the workspace's edit slot |
| `Confirm` `Activate` | `confirmBrainDocFields`; `activateBrainDocCoherent` with its snapshot of all kinds |
| `SaveAnswer` `Submit` | `interview-ops.ts` |
| `Refresh` `Reject` `Accept` | `promotion-ops.ts`; an acceptance writes, confirms and activates in one transaction |
| `React` `PauseOrResume` `LoseEditSlot` | feedback on a generation of an activation; the webhook's pause; the slot's connection dies |

A locked transaction works on the copy it read under the lock, so that a lock
that did not hold would show. A proposal is known by the document its feedback is about and by
how much of that there was (the family key and digest of the code). Requests
about a version or a proposal that is already over are left out, as they are
refused whenever their turn comes; a decision repeated after it was made is
told again without a change. `stale` and `superseded` proposals are one status.

## 3. Runs

Deadlock checking is off in the mirror, checkout and generation runs, where the system
may stop: every caller is done, or every bounded event has been sent and
handled. Ledger runs check it.

A *story* is a specification with the requests, changes or happenings, and the
bounds, that one question needs: an instance of it or, for the ledger, a
restriction. A stories module chooses
one at the start and keeps it, so that a run checks every property of a
component over all of its stories.

| Run | Stories | Bounds |
|---|---|---|
| `ledger_stories` | *spending*: lots dated, born expired and late, a spend larger than one lot, its refunds by the debit and by the claim it paid for; *pausing*: spends and grants around pauses; *minting*: the free allowance over months, tiers and pauses; *racing*: two sessions begun before each other's commit; *expiring*: any one lot under any pauses, overlapping and touching ones included, for the fold alone; *adjusted*: corrections of either sign, with a spend and its refund; the ledger implements `CreditAccount` in *accounted* and *adjusted* | 3 or 4 instants, 2 to 4 rows, up to 2 pauses, months of 2 instants; in *expiring* instants 0..4 and 3 pauses |
| `workspace_stories` | the row: *dunned*: failures, retries, recovery, void, write-off, cancellation, late payment; *paused*: owner and Stripe both pause and resume, rows may start drifted; *rebought*: a subscription dies, or its first payment is declined, once or again, and it recovers or never completes, and another is bought through the fence; the documents: *edited*: two owners write, edit, confirm and activate amid pauses and a lost edit slot; *interviewed*: the interview writes a document of each kind, both are activated; *promoted*: feedback becomes proposals, which are decided | 2 subscriptions, 6 to 8 events, 3 to 5 instants, grace of 2, `Lag` 0 or 1 of a `Skew` of 1; 2 owners, 3 versions with 2 fields of one kind in 5 transactions (*edited*), 2 kinds in 7 (*interviewed*), 3 versions, 2 reactions and a threshold of 1 in 6 (*promoted*) |
| `checkout_stories` | *pressed*: two tabs, two attempts, calls and answers that get lost, the key's time running out; *set back*: a restored database, presses and the operator after it; *cutover*: an old process, the operator's protocol, a new press; *settling*: the mirror alone, every event redelivered until it is answered | 2 Sessions; calls of up to 1 tick in *pressed*, where the key is trusted for 2 of 3 ticks, elsewhere a tick is longer than any call and the quiescence is one; 7 events in *settling* |
| `generation_stories` | *repeated*: one press, its repeat, and the same id with another input, amid crashes and ambiguous commits; *paused*: two presses of one id with pauses on top; *funded*: two attempts on one balance that others spend and fill, prices 0 and 2 alternating; *builds*: two builds of one profile amid crashes, faults, pauses and a change of prices; *crowded*: two generations and a build compete for two slots | 3 callers, 2 configurations, 2 credits, a cap of 1 uncharged build |
| `generation_receiver` | time, crashes, failed transactions and the receiver; liveness | 2 callers of one attempt, `FairSpec` |
| `topup_stories` | *raced*: two callers and the operator over one attempt, crashes and answers that never come; *repeated*: two attempts, failed transactions; *set back*: a restored database; *cutover*: the operator's protocol against an old process | 3 callers, 2 attempts, 2 PaymentIntents, a cap of one pack, 2 instants (the idempotency key outlives the retry window by one); 4 ticks of the cutover, window 1, quiescence 2, 2 revisions |
| `back_office_stories` | *deletion*: two workers, crashes, lost and late requests, rolled back transactions, an owner who cancels; *autopsies*: one reference, up to three attempts; *spins*: three requests of two visitors, a rotating key; *one budget*: two autopsies and a spin on one cap | 2 faults, 2 attempts of a command, 2 erasure failures; caps 3 and 9 of a ceiling of 8, costs below, at and above the reservation |
| `mirror_refused_invoice`, `generation_cap_overshoot`, `generation_lost_slot`, `checkout_sale_refused`, `brain_latest` | end in a violation: section 6 | the smallest that show it |

Why the bounds suffice. The handlers of the mirror compare an event with the
row and with at most one earlier event of its kind, so three events out of
order and one redelivery reach every guard; the stories have six to eight.
Time needs to be long enough for a grace window or a skew to end and another
to begin, and is. Two sessions on the ledger suffice because of the lock: what
a third could do, one of the two can do again. In the pipeline the third
caller is the one that finds a row two others have moved. Two builds are enough
for a claim that has one winner, and a price changes between the call of one
and the report on it. A charge needs two callers to race and one more event to
answer late; the second attempt is the one that may overshoot the cap. Two
workers suffice under a lease: the second is whoever took it over. Of a
Checkout, two Sessions are one too many, which is what is to be found; an event
kind left out of a story (`Announced`) is one that is delivered after its end.
Of a document, three versions let an edit be made from one that another edit,
then an activation, has left behind; a promotion is proposed, superseded by one
more reaction and decided. The spins'
third request is the one that comes back after a rotation, and the caps are on
both sides of what two attempts reserve. In
`generation_receiver` three calls take exactly the time the cutoff allows
(3 deadlines against one and a grace of 2), which is the boundary.

A hazard that needs the ingredients of two stories, say a crash *and* a price
change, is in no run. For the invariants of section 5 the proofs close that
gap, since they hold for every `Happenings`.

### 3.1 Properties worth explaining

A property that belongs with another is one definition with it, as conjuncts
with names of their own; the theorems of section 5 often prove the parts. So it
is with the types of the modules whose runs list no `TypeOK`: `PaymentsAreTracked`,
`CutoverIsSafe`, `JournalAgrees`, `BooksAgree` and `InForceAsConfirmed` have them
as their first part, and the types of `AutopsyWork` and `SampleSpin` are proved.

* `HistoryReplays`: the replay of every reachable ledger succeeds, and the sum
  of its rows is the balance it derives.
* `RefundsAreFair`: refunds stay within their budgets, and the lot one returns
  expires when its source would have. `refundCredits` gives it an *effective*
  instant as its raw expiry; the property says no pause counts twice in it.
  A budget is that of a *spelling* (`ledger.ts:311-327`): a refund refers to its
  debit or, when the settlement of a parked autopsy writes it, to the claim
  (`ClaimOf`), and a call counts the refunds by the debit and those under its
  own reference. So the refunds by the debit stay within it; the claim has one
  refund (`credit_ledger_autopsy_refund_uq`); and that one, with the refunds by
  the debit written before it, stays within the debit as well. A refund by the
  debit *after* the claim's does not see it: up to twice the debit comes back,
  which the model reaches and the property allows. It is the known limitation
  of `ledger.ts:243-270`, with its witness in
  `credits/tests/ledger.test.ts:211-267` (8 credits back on a debit of 4), and
  waits for a second caller: `settleParkedAutopsies`, the only one today,
  always passes the claim, the whole debit, and nothing that was refunded
  (`credits/pasted-reference.ts:460-497`). The model lets both spellings ask
  for any amount.
* `FreeMintedOnce`: one free row a month, and none minted in a pause.
* `PastBalancesAreFixed`: a commit never changes the balance of an instant
  that has been looked at. It is why the ledger's rows take their date from
  the clock under the lock and not from the transaction's start.
* `SettledRowAgrees`: after every delivery, in any order, of what Stripe sent,
  the row agrees with Stripe. It is the reason of the watermark, the tie rule
  and the provider read in the snapshot handler. It has one exception, named
  `ShowsDecline`: the row of a subscription that is *incomplete* at Stripe may
  say `past_due` once its declined payment has been handled (section 6). The
  pause, the identity and every other status agree without exception.
* `RowIsCoherent`, `OneLife`: a row in dunning has a deadline and its two
  records of a pause agree; one subscription lives at a time, and a dead one
  stays dead.
* `OwnerPauseStands`: a report created before the owner's click does not undo
  it. `RefusedAfterPause`: a paid invoice is refused its allowance only for a
  pause that Stripe knew of before it issued the invoice.
* `OneDoor`: an owner never holds the addresses of two Checkouts that can bill,
  or one beside a subscription that does, once the new protocol is active and
  the fleet was stopped as the operator said. It is why a press scans before it
  calls, and why what is no longer open is not therefore over.
* `RowKnowsItsDoor`: the row knows that one, by the attempt or the
  subscription, unless a restore made it forget. A Checkout of the old binary is
  excepted: a late event of another dead one can repoint the row (section 6).
* `OneVendorRun`: the vendor is entered once for an attempt. The state of a
  row never returns to a state a claim may start from.
* `ImplementsContract`: with phases and charges as the only visible state,
  the pipeline opens an attempt once, then delivers it once and charges it in
  the same step, or closes it and charges nothing.
* `EveryClaimEnds`: with a worker that keeps its schedule, no attempt stays
  open, whoever died.
* `OneIncludedBuild`: one attempt of a profile uses the included build, it is
  one the vendor answered, and every charge follows from which attempt that
  is. The quote a press went to the vendor with may be another.
* `LostDebitsAreReported`: the operator's report leaves out one undebited
  build of a profile at most, and that one was free under the configuration it
  was priced by, whatever is configured when the report runs.
* `VendorCallsWithinLimit`: generations and builds together, at the vendor.
* `EndsAreJust`: the receiver does not give up a run that is going
  (`LiveRunsStand`), nor anyone a stored answer before its time
  (`AnswersOutliveCrashes`).
* `PaymentsAreTracked`, `ChargesWithinCap`: one PaymentIntent for an attempt
  (`OnePaymentPerAttempt`), a charge that is not settled is on the row, where
  somebody looks for it (`UnsettledIsPending`), and the month's charges are
  within the owner's cap. The last two except a request still under way when its caller, or a restore,
  forgot it (section 6).
* `CutoverIsSafe`: no old charge is outstanding when the new protocol takes
  over, and the owner's setting is as last asked or off.
* `JournalAgrees`: the journal's versions are those of the row, but for the
  ones a reserved plan may have put ahead of its commit.
* `IrreversibleInItsTime`: nothing is ended or erased before the window has
  closed and the row says so; `CancellationUndoes`: what a cancelled
  deletion closed is owed its reopening, and what the owner had scheduled
  stays; `CommandsCarriedOut`: one call for an attempt of a command, and no
  erasure with a subscription left.
* `InForceAsConfirmed`: of a kind one version is active and one proposed at
  most; what is active was confirmed in every field, whatever was submitted
  while it was being activated; the last activation to commit names the active
  versions of all kinds; an accepted promotion names the document and the
  activation it became.
* `NoEditIsLost`: an edit or a promotion is made from the version just before
  it, never over the head of one its author had not seen; a submitted interview
  has a document for just the kinds that were answered, and nothing is answered
  after it. Answered means with something to cite: a list that was decided to
  be empty is an answer to the owner, but no document is written for it
  (`db/interview-ops.ts:385-403`), and the model's `draft.answered` leaves it out.
* `SpendWithinCaps`, `BooksAgree`: reservations never exceed what the cap in
  force allowed, and the day's totals are the sum of its facts.
* `RefundIsFinal`, `AttemptsAccounted`: a refunded claim never works again; at
  most the ceiling's attempts are paid for, and one without its fact can be
  found.
* `AdmissionHolds`, `SpinSpendBooked`: one window for a visitor through any
  rotation and no more handlers than allowed; what a finished request cost is
  on the books.

## 4. Fairness

* Mirror (the story *settling* of `checkout_stories`): weak fairness of the handling of each pending event.
  Stripe redelivers an event until it is answered with success, and a handler
  that can succeed does. No fairness of Stripe's changes or the owner.
* Generation, `FairSpec`: weak fairness of `Receive` (the worker's
  schedule), of `Tick` (time passes), and of the step of a caller that is
  `Urgent`. No caller is assumed to go on otherwise: a crash is allowed
  anywhere, and so is a process that hangs between two transactions.

## 5. Proofs

All theorems hold for every value of the constants that meets the named
assumptions of the modules (`LedgerAssumption`, `HorizonAssumption`,
`MirrorAssumption`, `CheckoutAssumption`, `CutoverAssumption`, `TopupAssumption`,
`RolloutAssumption`, `SlotAssumption`, `GenerationAssumption`,
`BuildAssumption`, `RunsAssumption`, `AmountsAssumption`, `TriesAssumption`,
`VisitsAssumption`, `DeletionAssumption`, `BrainAssumption`). They say what type
a constant has and which of two limits is larger. The theorems about the slots
and about `EndsAreJust` have a hypothesis of their own, named where they are
described.

**Sums** (`FiniteSums`). A sum over a finite set exists, does not depend on the
order in which the community fold takes the elements, and moves by as much as
one weight does. The library's induction theorems cannot be cited, so the
induction is over sets: a set of numbers without a least element is empty. The
same induction shows that a fold exists which takes the elements of a set in any
given order (`FoldsExist`), so that what the steps of a fold preserve can be
said of its result.

**Ledger** (`LedgerProofs`), *transactions*. `TypeOK`, `PausesDisjoint`,
`FreeMintedOnce`, and `LedgerWriteClock`: no step adds to, or takes from, the
rows a replay at an already observed instant reads. None of these is inductive
alone. `IInv` adds, about the session that holds the lock: what it read and
staged is dated `asOf` (`StagedInv`); a session that pauses found no pause
open, one that resumes found one that began earlier, and what it will commit
is that change (`PeriodInv`); a free row it staged is of its month, the only
one, and no pause is open (`FreeInv`). The step proof has a lemma for each
group of actions: quiet, session, work, commit. `LedgerRefundsWithinBudget`
proves the first half of `RefundsAreFair`, the budgets. Its `RefundInv` numbers
the rows that move money: each was written under a number of its own, a refund
refers to an earlier one, itself or by its claim (`DebitOf`; `BookedInv`), and a
session has at most one of them staged, which fits the rows committed so far
(`MoneyInv`); the lock keeps those rows as they were. A new row has the highest
number, so a refund by the debit is never among the *earlier* ones of a claim
that has its refund, and the refund of a claim finds none before it.

*When a lot expires* (`LedgerFoldProofs`). `LotExpiryIsRunningTime`:
`effectiveExpiry`, a fold over merged pauses, agrees with a definition that has
neither fold nor merge (`LotExpiry`), for any pauses, overlapping and touching
ones included. Merging comes first: whatever was merged so far lies apart, so a
pause touches one period of it at most, and the two hold as one what they held
apart (`AbsorbCovers`, `MergesCover`). Then, period after period, what `RunsFor`
says stays so (`ShiftRuns`). Until its expiry the lot's clock has run for
exactly as long as it was sold for, the instant before it among these; a frozen
lot's never does. A period that holds up part of the lifetime moves the expiry
by what it holds, and all of what it moves past is running time
(`RunsAround`).

*The replay*, in `LedgerFoldProofs` too. `HistoryReplays` and
`PastBalancesAreFixed` are about what the folds of `LedgerFold` compute, for
every ledger and every set of pauses. The lemmas about that mention no
transaction and are ordered as follows.

1. A fold in a given order exists on every subset (`MergesExist`,
   `ReplaysExist`), so the community fold can be unfolded at the last pause and
   at the last row (`ReplayUnfolds`). Pauses merge into periods that lie apart
   (`MergesLieApart`).
2. Every lot of a replay belongs to one lot row, and `Left` says what the replay
   leaves of it. A row is then a step from one function of the lot rows to
   another, which replays or throws (`LeftUnfolds`). As long as none throws, the
   rows add up to what is left (`LeftAddsUp`).
3. A pause that begins or ends at `t` moves no lot that was over by `t` and lets
   none be over by `t` that was not (`PauseBegins`, `PauseEnds`). Pauses that
   agree in this sense replay a history up to `t` alike: the order of
   allocation among living lots may change and with it what each lot keeps, but
   neither what they keep together nor what lots that are over keep
   (`ReplaysAlike`).
4. The rows of one instant are settled together (`InstantSettles`): history with
   them replays if and only if history before them does, each expiry row closes
   exactly what its lot held when the instant opened, and the spends of the
   instant ask for no more than the living lots held then and were given in it.
   In which order the spends were written does not matter; that lots replay
   before them, and expiries in between, does.
5. So each thing a transaction writes extends a history that replays: a lot
   (`LotHolds`), the rows that close what is over (`ClosingHolds`), a spend the
   balance covers (`SpendHolds`).

*The two together.* `KeptInv` is the inductive invariant. A history is `Kept` if
its rows are well formed, numbered below the next id and dated by the last
observation, every expiry row was written when its lot was over, and it
replays. The ledger is kept, and so is the ledger with what the lock holder has
staged; with what a debit, an adjustment or a read has staged no lot that is over
holds anything (`Clean`), which is why the plain sum is the balance then. The
committed ledger alone would not do: a spend replays only because of the expiry
rows staged next to it, and `HistoryReplays` only says that rows replay, from
which the next rows' replaying does not follow. `LedgerPastBalancesAreFixed` is
`LedgerWriteClock` for the steps that write rows and item 3 for those that
pause or resume, at every instant before the last observation.

`LedgerRefundsAreFair` adds the second half of `RefundsAreFair`: no refund
expires later than the lots its debit consumed. `RefundExpiry` reads those lots
from a replay without the refund; the property reads them from a replay with it,
and the two differ when debit and refund are of one instant, since the refund is
then replayed first and may be spent by its own debit. `TraceIs` says what a
trace is: a spend names the lots it takes from, of what the rows before it
leave. A lot that joins at its end date M leaves the lots that end before M
with the same, together, and those that end by M with no less (`LotBeside`), so
a debit that reached a lot of that date still reaches one (`StillEats`,
`TracedStill`). A lot born now expires when it says, or not while a pause is
open (`BornNow`), so the refund has the date it was given; no pause before it is
counted twice. `SourceInv` keeps this for what is staged, until the commit.

*The promise.* `LedgerImplementsAccount` is the refinement of `CreditAccount`.
The abstract `account` is a history variable that `Observed` defines, the
reading of the committed ledger at the last observation (`AccountOf`), so every
behaviour of `Spec` has one and the hypothesis restricts none. The simulation
has two kinds of steps. If only time passes, living lots may end: the balance
lapses, by no more than there is, and not while a pause is open, since an open
pause freezes every lot that is alive (`OpenPauseFreezes`, `LookLapses`). If a
session commits, the balance moves by what its rows record: a lot that is
alive when it is born adds its delta, a spend takes its own, and a row that
closes a lot that is over adds and takes nothing (`LotPosts`, `SpendPosts`,
`ClosingPosts`). `EffectInv` keeps that for what is staged, with what a commit
needs besides: whoever staged a spend holds the lock and saw no pause open. A
transaction that pauses or resumes stages no rows, and by item 3 no balance
moves with it (`CommitPosts`).

**Mirror** (`MirrorAndBrainProofs`). `RowIsCoherent`, `OneLife`,
`SettledRowAgrees`, `RefusedAfterPause`, and of the steps `GraceWindowHolds` and
`OwnerPauseStands`. `MirrorIInv` relates the row, the events under way and
Stripe. Subscriptions are bought one after another, and the row is at the
latest or fenced for it (`RowShape`, `OneAfterAnother`). An event tells no end
that was none (`EventsAreTrue`), and nothing but late payments comes after an
end (`EventsInOrder`). What the row was last told is an event of its
subscription, or of one before the attempt it is fenced for (`SeenIsTold`,
`EndedIsNotAwaited`); and its two records of a pause are one, but in a fenced
row that began with a drift (`PausesAreOne`). The owner's word needs what the
row remembers of it (`OwnerIsRemembered`): since a click the pause it opened is
open, or the one it ended is closed, or the row has been told of what Stripe
did within the tolerance of it. That a settled row agrees needs `ToldInv`. The
latest report of a subscription that is alive says what is so at Stripe, and no
payment or failure that contradicts it comes in its second or later, but for the
declines of an incomplete subscription, which come with its report or after it
(`ReportsAreTrue`, `AddsNothing`: the premise that payments have a second of
their own is used here). The row that handled it still shows it, or such a
decline (`RowFollows`, `RowShows`): what is handled afterwards is older and
stale, or ties and says the same, or declines, or is of another subscription. No pause is known from further after it than `event.created` lags,
which is within the tolerance, so the report decides the pause too
(`PauseIsRecent`). Every end is told, and a row that handled an expiry neither
waits for that subscription nor shows it alive (`EndsAreTold`, `ExpiryIsFinal`).

**Checkout** (`TierCheckoutProofs`). `OneDoor`, from the first old process to
the restores after the cutover, and `RowKnowsItsDoor`. `DoorInv` says why an activation is safe: an
old call ends within its window (`OldCallsEnd`), a clear report stays true as
long as its revision does (`ClearIsStillSo`), and nobody has pressed before
(`NobodyEarly`). After it, whoever is at Stripe holds the lock alone and found
no door before leaving (`HolderFoundNone`), and nothing else opens one. The
doors depend on the Sessions alone, so this holds whatever a replay of the
webhook's handlers, a fold, leaves in the row after a restore.

That the row knows the door needs the row. `RowInv` has its type, that of a
replayed row included (`ReplayedTyped`: each handler keeps the type or throws,
and the fold takes one event after the other); that a Session sells before it
ends and that no event is of one nobody was given (`SessionsAge`); and that a
key opens one Session (`KeysOpenOne`). Until a restore, `KnownInv` adds that
whoever is at Stripe is there for the attempt of the row (`HoldersAttempt`), and
that nothing is told of another subscription after a door has opened
(`DoorIsLatest`). Hence an event of another subscription meets the fence of the
attempt, or a row that has seen a later event: it is refused or ignored, and the
row stays with the door it knows.

**Pack charge** (`AutoTopupProofs`). `PaymentsAreTracked`, `ChargesWithinCap`
and `CutoverIsSafe`. `Sound` is what holds through crashes and restores alike:
a payment is made under the key of its attempt, and a request is under way only
while Stripe still remembers a payment made under that key, so a second one
cannot follow; and what a caller knows of a payment is of its own attempt.
Until a restore there is more. Whoever waits for Stripe holds the lock, or the
request is `adrift` (`SendersHold`). Whoever gives an attempt up has seen that
it has no payment, and nobody can have asked for one since (`OwnersLooked`).
Room for the pack was there when it was asked for (`RoomIsLeft`,
`MintedWithinCap`). The cutover has its own invariant, `RolloutIInv`, which
says of old charges what `DoorInv` says of old Checkouts, and that what is
armed is the owner's wish (`WishKept`).

**Generation** (`GenerationProofs`). `TypeOK`, `OneVendorRun`,
`ChargesAreDue` (its parts `ChargedForWhatExists` and `NoOverdraft`), and
`ImplementsContract`. `OneVendorRun` needs `RunInv`: an attempt with a vendor
run is never again in state "none" or "claimed". It is carried by the claim,
which writes only over "none", and by the advances, which only move forward.
`ChargedForWhatExists` is carried by the settlement's guard on
`vendor_complete`. The refinement takes these invariants as given and shows
each action to be an `Open`, a `Deliver`, a `Close` of a set of attempts (the
receiver ends several at once) or a stutter.

`EndsAreJust` holds if `2 * Deadline <= Grace`: the receiver allows one
deadline and the grace, and a run takes three calls at most. With the default
deadline of 120 s and the grace of five minutes that is so; section 6 says what
a longer one does. A row at the vendor is no older than what its run has spent
there (`RunsAreTimed`). Nobody but that run, or the receiver, ends it, because
whoever ends an attempt has either been at the vendor for it or found it
answered (`CameByVendor`), and only one has been at the vendor.

**Slots**. `RunsWithinLimit`, if no connection is lost (`"connloss"` is no
happening). The invariant is `Seated`: a caller between acquisition and
release holds an index. An index has one holder, so choosing an index for each
caller at the vendor is an injection into `0..Limit-1`. `generation_lost_slot`
shows that the hypothesis is needed.

**The included build**. `OneIncludedBuild` and `LostDebitsAreReported`. The
strengthening is `WrittenInOrder`, what a press has written by the step it is
at: a settled press has a recorded success, so its profile has a holder, and a
holder is never replaced. Hence the price a press was charged stays the price
the claim gives. Crashes, faults, changes of price and of the pause write none
of the books (`QuietStep`). The report follows: an attempt it leaves out is the
holder.

**Both at once** (`WorkspaceRuns`). `RunsChargeOnce`: what is proved of
generations alone and of builds alone holds while they interleave. A build
spends and pauses as the world of a generation may; a generation, for a build,
is the purse changing by others. `SlotsBoundAllRuns` proves
`VendorCallsWithinLimit` under the same hypothesis as for the slots, from a
caller having one operation (`OneOperation`) and everybody inside either one a
seat (`AllSeated`).

**The product's spend** (`BackOfficeProofs`). For the budget: `SpendWithinCaps`, that
the cap in force only tightens within a day, and `BooksAgree`. `BudgetIInv` says what is
reserved is within the cap in force, and that the facts counted as unknown are the ones not yet corrected, so that a
correction has one to take off. The row of the day is three sums, each of a
weight of every attempt (`SumsHold`), and an action moves the weight of one
attempt by what it writes to the row. For the two spenders: that each of their
steps is a step or a stutter of `SystemSpend`, so what is proved of the budget
holds of them; `RefundIsFinal` and `AttemptsAccounted`, from what a claim's
status says about money and attempts (`WorkInv`) and a count of paid attempts
(`TriesCounted`); `AdmissionHolds` and `SpinSpendBooked`, from where a request
is and what it has written (`PlaceAgrees`) and which keys its window may be
under (`WindowsHeld`).

**Deletion** (`BackOfficeProofs`). `JournalAgrees`, `IrreversibleInItsTime`,
`CancellationUndoes` and `CommandsCarriedOut`. `DeletionIInv` has four parts. A
reserved plan leads on from where the row is, and the journal is one chain that
is ahead of the row by one interrupted transaction at most (`StoryHolds`); what
is past erasing never returns, and what is not has no committed "erasing"
(`NoWayBack`). A worker that has slept since it looked still works for an
operation that allows it (`WorkSound`). An attempt of a command has one caller,
who made no call before (`RowsSound`, `CallsSound`), and the subscription ends
only past the point of no return (`EndSound`). Of a fence the owner did not
set, the outbox says what is so at Stripe, unless a failure was read into a
request that arrived (`FenceIsTheirs`, `ReversalFollows`, `FenceKnown`).

**Brain documents** (`MirrorAndBrainProofs`). `InForceAsConfirmed` and `NoEditIsLost`.
`TablesSound`: of a kind one version is active and one proposed at most, the
newest is one of them (`OneOfEach`, `NewestStands`), a version made from
another follows it (`Follows`), and what is active is confirmed in every field.
`WorkSound`: what a transaction read under the profile's lock is still so, and
what a request names is there. Both are needed together, as an edit's check of
the version it was made from is worth as much as the lock it is made under.

**Only model-checked.** Liveness (`EventuallyAgrees`, `EveryClaimEnds`), since
temporal reasoning under fairness is beyond the prover: that a row comes to be
settled at all, for instance; that a settled one agrees is proved. Everything
else that a passing run checks is a theorem: every invariant, every action
property and both refinements; the bounds on slots and `EndsAreJust` are ones
under the hypotheses named above.

## 6. Where code and words disagree

Five runs end in a violation on purpose; each contradicts a sentence of the
repository, quoted in `PROJECT.json`.

1. `mirror_refused_invoice`: the guard against invoices issued during a pause
   also refuses the renewal paid after Stripe resumed, when it arrives before
   the resume's snapshot. The receipt is final, so the month's grant is lost.
   It needs the resume to be Stripe's own (`resumes_at`, the Dashboard) and
   its snapshot to be delivered after the invoice.
2. `generation_cap_overshoot`: the comment bounds the overshoot of the cap on
   uncharged attempts by the slot limit; since the count comes before the
   slot, it is bounded only by the number of presses waiting between the two.
3. `generation_lost_slot`: "the run fails normally" when the slot's connection
   dies; the listener only logs, the run goes on and the slot is granted again.
4. `checkout_sale_refused`: a comment in the checkout handler says that the full
   snapshot "binds id + status atomically and releases" the fence the event has
   bound. If the subscription a legacy Checkout sold is cancelled before its own
   events are handled, the audit passes over it as dead, the protocol activates,
   and its events are refused ever after for want of an attempt. The fence stays
   bound to it, and every event of the next sale is refused as a possible
   duplicate.
5. `brain_latest`: two owners activate documents of different kinds at once.
   The transaction that began first gets the profile's lock last, so its snapshot
   is the only one that names both documents, and it carries the older
   `created_at`, the start of its transaction. `latestBrainActivation` orders by
   that column, and generations are written without the later activation until
   another one is made. The comments on the one coherent entrypoint say this
   state is removed. `InForceAsConfirmed` shows that the snapshot itself is right:
   only the order they are read in is not theirs.

These observations have no run of their own.

* `credits/stripe/webhooks.ts:320` opens a new grace window when a retry fails
  after the old one lapsed. The comment there says so; REQ-G06 (`docs/initial/PRD.md:116`)
  reads as if Free were final until a payment.
* A first payment that is declined leaves the subscription `incomplete`
  (`credits/stripe/actions.ts:1074-1083`) and is an `invoice.payment_failed` too.
  Its handler (`credits/stripe/webhooks.ts:2226-2281`) asks whether the row is
  terminal, newer or another subscription's, and never whether it is
  incomplete: handled after the snapshot it writes `past_due` with a full grace
  window, and no snapshot comes to correct it before the status changes at
  Stripe. The row is then read as `grace` with the paid tier
  (`credits/state.ts:317-327`), where the comment of the incomplete branch says
  "Entitlements stay FREE (nothing has been collected)" (299-300), and
  `createInvoiceRecoveryUrl`, the remedy for just this customer, refuses it as
  not recoverable (`actions.ts:1118-1119`). `Buy` and `Dun` send the event, in
  either order with the snapshot and again for a second decline;
  `SettledRowAgrees` excepts exactly the status of such a row and is violated
  in `workspace_stories` without the exception.
* `db/generation-recovery.ts:97` gives a started attempt one
  `llm.overallDeadlineMs` and five minutes, and a run may take three
  deadlines. The default of 120 s keeps that; `config/src/schema.ts:591`
  admits values above 150 s, where the receiver gives up a live run
  (`LiveRunsStand` fails with `Deadline = 2`, `Grace = 2`).
* `credits/generate.ts:862` compares payloads that contain the brain
  activation (1986-2006), so a repeat under the same id after an activation is
  refused as a different payload and does not settle the stored answer, which
  649-652 expects it to. The application mints an id per press today.
* `packages/llm/src/errors.ts:209-211` says a truncated attempt "consumed the
  creator's included build"; the class passes `consumesIncludedBuild = false`,
  as the field's own comment argues it must (78-83), and the model follows it.
* A configuration may price a rebuild at 0; a rebuild priced so is on the
  report of unbilled attempts, though nothing was owed.
* Auto-topup: a caller that finds its pending attempt refused or over the cap
  clears it before the idempotency window is over, though a request whose
  sender died may still arrive (`adrift`). After a restart of the rollout's
  drain, a setting an old process wrote after the first fence is not folded
  into what is armed again: the owner's wish is lost on the safe side.
* Tier Checkout: the 23 hours run from the reservation and not from the last
  call (`credits/stripe/actions.ts:828`), so a request may still be under way
  when the scan finds nothing and the attempt is given up. The orphan's address
  goes to nobody and the next scan refuses beside it, which `OneDoor` includes.
  After a restore, a press that comes before the operator's reconciliation
  reserves a new attempt: the scan refuses every press from then on, the
  reconciliation refuses the row for its other attempt, and the webhook the
  events, until somebody clears the attempt by hand. A delayed
  `checkout.session.completed` repoints an unfenced live row, since only the
  snapshot's handler asks whether another subscription is live
  (`webhooks.ts:1407`, 1445); the deletion of the one it names then cancels the
  row. The scan still refuses a second sale.
* Promotions: once a rule has been accepted, one more reaction to a generation
  of the *old* document gives its family a new digest, so the next refresh
  proposes the same rule again, and accepting it appends it a second time
  (`db/promotion-ops.ts:221`; only the digest is unique).
* Deletion: the journal's put is conditional, and a repeat of it is refused
  even for identical bytes, so a transaction rolled back after its put leaves
  an operation that cannot go on
  (`docs/progress/respin-finish-open-items.md:349` knows it; the comment at
  `db/deletion-lifecycle.ts:281` reads as if the repeat were harmless).
  A worker that dies between marking a command as sent and recording its
  result leaves it "pending" for good. A command recorded as not applied that
  arrives later can leave a cancelled deletion's subscription closing
  (`misread`). `retry_count` is shared by failures of every kind, which uses
  up the erasure's budget early. A request resumed more than seven days after
  it was made is acknowledged with its window already closed.
* Spend: `credits/sample-spin/run.ts` reads the usage row outside the
  transaction that writes it, so a recovery in between makes the write throw
  and the measured cost is never booked; the comment at 458-462 says the race
  is reconciled instead (the state "thrown", excepted by `SpinSpendBooked`).
  An autopsy attempt in flight when its claim is parked by a tombstone, whose
  worker then dies or finalizes too late, gets no usage row; it stays findable
  by its claim (third disjunct of `UnbookedIsFindable`). Pasting a parked and
  refunded reference again charges nothing, and the claim stays dead.

## 7. Plan

What remains, in order.

1. **AuthMail**, **Retention**, **Membership**, the restore of the deletion journal.
2. Deletion of a profile and an identity, nested in that of a workspace.

## 8. What the models leave out

* Ledger: references other than a debit and the one claim it paid for, reasons
  and actors; `adjustCredits` has no production caller but is modelled. The
  database clock is assumed monotone, and two lock holders never read a clock
  that runs backwards between them. Grant, pack and positive adjust take no
  lock in `ledger.ts`; their callers do, and the model follows the callers.
* Mirror: pack purchases, refunds, the Portal's plan changes (the tier is not
  in the row of the model). Two collection attempts of one invoice, and two
  visits to the checkout page, are in different seconds.
* Generation: the money cap next to the count (the same read, another unit),
  the window of the count, the auto-topup the gate may offer, which mode or
  profile the press is for, the contents of prompts and answers. The
  workspace has one profile. `dbfault` before the vendor is a crash.
* Receiver: the batch bound with SKIP LOCKED, the count of settlement
  candidates (it moves nothing), the deadline changing between a run's start
  and the sweep.
* Included build: the posts the build is made from and the check of the reply
  (a reply is useful or not), the auto-topup the gate may offer (the press is
  refused either way), the second row of a bounded retry (no caller makes
  one), the money sums of the monthly rollup. A profile that is not active
  stays so.
* Pack charge: amounts are packs of one size; why an owner no longer wants a
  charge is one refusal. One month, one currency.
* Tier Checkout: which plan is asked for (a press for another one is refused
  while an attempt is pending), signatures and the identity of the Stripe
  account, ties in event times (the mirror has them), sign-in again before each
  step. The reconciliation is the one after a restore, which its description
  names; the pack Sessions its audit also reads are left out.
* Deletion: the disabling of auto-topup, the clearing of the Stripe customer,
  profile and identity scopes, nested operations (a hold), a new request after
  a cancellation, what exactly is erased, and reading the journal back.
* Spend: one business date, one reference; retry delays; the vendor's answer
  is a cost. One keyring: two processes with different ones during a rotation
  could give an address two windows.
* Brain documents: what they say, the evidence they cite and the limits and echo
  bar on it, promotions drawn from measured results, membership and deletion
  fences. A pause is read with the lock, where `writeBrainDoc` reads it just
  before waiting for it. An edit that changes nothing is a refusal.
* Not modelled at all: the remaining rows of the table in 1.1. Most are
  content storage, read-only summaries or single-transaction writes, where a
  model would restate the statement; membership, auth mail
  and retention have state worth a model and are in the plan. Cutdown and UGC
  Intelligence are in maintenance and frozen.
