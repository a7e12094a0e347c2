------------------------- MODULE DeletionLifecycle -------------------------
(***************************************************************************)
(* The deletion of one workspace, from db/src/deletion-lifecycle.ts (the   *)
(* state machine, its journal plans, the owner's request and              *)
(* cancellation), deletion-executor.ts (the workers that carry it out),    *)
(* deletion-external-commands.ts (the outbox of provider commands),        *)
(* deletion-journal.ts (the write-once journal) and, in credits/src/stripe,*)
(* deletion-commands.ts (what a command does at Stripe).                   *)
(*                                                                         *)
(* An action is one database transaction, or one exchange with Stripe.  A  *)
(* transaction that appends to the journal writes there first and commits  *)
(* afterwards: it may leave versions behind that the database never        *)
(* learned of.  A worker may die anywhere, or be so slow that its lease    *)
(* passes to another while it goes on.  One command kind stands for each   *)
(* phase of the outbox: "close" (cancel at period end), "reopen" and "end" *)
(* (cancel now).  Of the clock only what is compared is kept: whether the   *)
(* owner's window is open, and whether a lease still runs; each may end    *)
(* between any two steps.                                                  *)
(***************************************************************************)
EXTENDS Naturals, Sequences, FiniteSets

CONSTANTS
    Workers,      \* executor processes
    MaxAttempts,  \* EXTERNAL_COMMAND_MAX_ATTEMPTS
    MaxFailures,  \* DELETION_EXECUTOR_MAX_ERASURE_FAILURES
    MaxFaults     \* bound: what goes wrong in a behaviour: a transaction
                  \* rolled back, a request failed or lost, a lease outlived

ASSUME DeletionAssumption ==
    MaxAttempts \in Nat \ {0} /\ MaxFailures \in Nat /\ MaxFaults \in Nat

VARIABLES
    op,       \* the row of deletion_operations, with its reserved journal plan
    journal,  \* the objects of the journal: the one at i is version i
    lease,    \* lease_owner of the row, and whether its lease still runs
    cmds,     \* the latest attempt of each kind in deletion_external_commands
    stripe,   \* the subscription at Stripe: "open", "closing" or "gone"
    adrift,   \* requests Stripe has not processed though their caller gave up
    misread,  \* a command was recorded as failed whose request did reach Stripe
    home,     \* workspaces.lifecycle_state, "erased" when its rows are gone
    worker,   \* each worker: where it is in its tick and what it remembers
    window,   \* the clock is before grace_expires_at (requested_at + 7 days)
    faults,   \* what has gone wrong so far
    own       \* the owner had scheduled the end of the subscription before

xVars == <<op, journal, lease, cmds, stripe, adrift, misread, home, worker, window,
           faults, own>>

Kinds == {"close", "reopen", "end"}
Nobody == "nobody"
Unleased == [owner |-> Nobody, live |-> FALSE]

KindOf(phase) ==
    CASE phase = "pre_grace" -> "close"
      [] phase = "cancellation" -> "reopen"
      [] phase = "erasing" -> "end"

\* Something goes wrong, a bounded number of times.
Fault == faults < MaxFaults /\ faults' = faults + 1

(***************************************************************************)
(* The transition table and the journal plans.                             *)
(***************************************************************************)
States == {"none", "requested", "journal_pending", "tombstoned",
           "external_actions_pending", "grace", "erasing", "verifying",
           "complete", "blocked", "cancelled"}

Transitions ==
    [s \in States |->
        CASE s = "requested" -> {"journal_pending"}
          [] s = "journal_pending" -> {"tombstoned", "cancelled"}
          [] s = "tombstoned" -> {"external_actions_pending", "cancelled", "blocked"}
          [] s = "external_actions_pending" -> {"grace", "cancelled", "blocked"}
          [] s = "grace" -> {"erasing", "cancelled", "blocked"}
          [] s = "erasing" -> {"verifying", "blocked"}
          [] s = "verifying" -> {"complete", "blocked"}
          [] s = "blocked" -> {"tombstoned", "external_actions_pending",
                               "grace", "erasing", "verifying"}
          [] OTHER -> {}]

Step(from, to) == << <<from, to>> >>
RequestPlan == << <<"requested", "journal_pending">>,
                  <<"journal_pending", "tombstoned">> >>
ErasurePlan == << <<"erasing", "verifying">>, <<"verifying", "complete">> >>
NoPlan == << >>

Clean(status) == status \in {"none", "succeeded"}

\* prepareJournalPlan: a plan is reserved once, with the instant its versions
\* will bear (of it only: whether the owner's window was open); the same plan
\* is found again, another one is in the way.
Reservable(plan) == op.state = plan[1][1] /\ op.plan \in {NoPlan, plan}
Reserve(plan) ==
    op' = IF op.plan = NoPlan THEN [op EXCEPT !.plan = plan, !.at = window] ELSE op

\* The objects a plan's appends create, the first n of them.
Objects(plan, n) ==
    [i \in 1..n |-> [from |-> plan[i][1], to |-> plan[i][2], at |-> op.at]]

\* Mutant for JournalAgrees: the put overwrites.
FreeAlways == TRUE
\* The put is conditional on the key being free.
Free == Len(journal) = op.ver

\* appendJournalTransitionInTx, for each step of the reserved plan, and the
\* commit of the transaction it is called in.
Committed(plan) ==
    LET last == plan[Len(plan)][2] IN
    /\ Free /\ UNCHANGED faults
    /\ journal' = journal \o Objects(plan, Len(plan))
    /\ op' = [op EXCEPT !.state = last, !.ver = @ + Len(plan), !.plan = NoPlan, !.at = FALSE,
                        !.resume = IF last = "blocked" THEN op.state ELSE "none",
                        !.acked = @ \/ plan = RequestPlan]

\* The transaction rolled back: the journal refused a version it already has,
\* or an answer was lost, or the process died, after the first n objects.
RolledBack(plan) ==
    /\ IF Free THEN Fault ELSE UNCHANGED faults
    /\ \E n \in 0..Len(plan) :
          /\ n > 0 => Free
          /\ journal' = journal \o Objects(plan, n)
    /\ UNCHANGED op

(***************************************************************************)
(* The owner: request, and cancellation.                                   *)
(***************************************************************************)
Request ==
    /\ home = "active"
    /\ \/ op.state = "none"
       \/ op.state = "requested" /\ op.plan = NoPlan
    /\ op' = [op EXCEPT !.state = "requested"] /\ window' = TRUE
    /\ UNCHANGED <<journal, lease, cmds, stripe, adrift, home, worker, own, misread, faults>>

ReserveRequest ==
    /\ op.state = "requested" /\ op.plan = NoPlan /\ home = "active"
    /\ Reserve(RequestPlan)
    /\ UNCHANGED <<journal, lease, cmds, stripe, adrift, home, worker, window, own, misread, faults>>

FinalizeRequest ==
    /\ op.state = "requested" /\ op.plan = RequestPlan /\ home = "active"
    /\ \/ Committed(RequestPlan) /\ home' = "tombstoned"
       \/ RolledBack(RequestPlan) /\ UNCHANGED home
    /\ UNCHANGED <<lease, cmds, stripe, adrift, worker, window, own, misread>>

\* assertCancellationCommandsSettledInTx.
Settled == \A k \in Kinds :
              /\ cmds[k].status # "unknown"
              /\ ~(cmds[k].status = "pending" /\ cmds[k].sent)

CancelPlan == Step(op.state, "cancelled")

\* Mutant for IrreversibleInItsTime: the window is not asked.
ReserveCancelLate ==
    /\ "cancelled" \in Transitions[op.state]
    /\ op.acked /\ Settled /\ op.plan = NoPlan
    /\ Reserve(CancelPlan)
    /\ UNCHANGED <<journal, lease, cmds, stripe, adrift, home, worker, window, own, misread, faults>>

\* The plan's reservation is the commit point of a cancellation: whether the
\* window is open is asked here, and not again.
ReserveCancel ==
    /\ "cancelled" \in Transitions[op.state]
    /\ op.acked /\ window /\ Settled
    /\ op.plan = NoPlan
    /\ Reserve(CancelPlan)
    /\ UNCHANGED <<journal, lease, cmds, stripe, adrift, home, worker, window, own, misread, faults>>

Fresh == [status |-> "pending", sent |-> FALSE, attempt |-> 1, calls |-> 0]

\* The reversal a cancellation owes: only for a fence this operation set.
WithReversal ==
    IF cmds["close"].status = "succeeded" /\ cmds["reopen"].status = "none"
    THEN [cmds EXCEPT !["reopen"] = Fresh] ELSE cmds

ApplyCancel ==
    /\ "cancelled" \in Transitions[op.state] /\ op.plan = CancelPlan
    /\ Settled /\ home = "tombstoned"
    /\ \/ Committed(CancelPlan) /\ home' = "active" /\ cmds' = WithReversal
       \/ RolledBack(CancelPlan) /\ UNCHANGED <<home, cmds>>
    /\ UNCHANGED <<lease, stripe, adrift, worker, window, own, misread>>

(***************************************************************************)
(* A worker's tick.                                                        *)
(***************************************************************************)
Idle == [pc |-> "idle", saw |-> "none", resume |-> "none", failures |-> 0,
         reply |-> "none", attempt |-> 0, from |-> "none", goal |-> "none",
         tally |-> FALSE, counts |-> FALSE]

Phase(w) ==
    LET s == IF worker[w].saw = "blocked" THEN worker[w].resume ELSE worker[w].saw IN
    CASE s = "erasing" -> "erasing" [] s = "cancelled" -> "cancellation" [] OTHER -> "pre_grace"

At(w, pc) == worker[w].pc = pc
Goto(w, pc) == worker' = [worker EXCEPT ![w].pc = pc]
Quit(w, counts) == worker' = [worker EXCEPT ![w] = [Idle EXCEPT !.pc = "release", !.counts = counts]]
Aim(w, goal, tally) ==
    worker' = [worker EXCEPT ![w] =
        [Idle EXCEPT !.pc = "prepare", !.goal = goal, !.tally = tally,
                     !.failures = IF tally THEN worker[w].failures ELSE 0]]
\* Its transition made, or found made, a handler returns.
Done(w) == IF worker[w].tally THEN Goto(w, "tally") ELSE Quit(w, FALSE)

Retryable(k) == cmds[k].status = "failed" /\ cmds[k].attempt < MaxAttempts

Due ==
    \/ op.state \in {"tombstoned", "external_actions_pending", "grace", "erasing", "blocked"}
    \/ /\ op.state = "cancelled"
       /\ \/ cmds["reopen"].status \in {"pending", "unknown"}
          \/ Retryable("reopen")

Claim(w) ==
    /\ At(w, "idle") /\ Due /\ op.acked
    /\ lease.owner = Nobody \/ ~lease.live
    /\ lease' = [owner |-> w, live |-> TRUE]
    /\ worker' = [worker EXCEPT ![w] =
          [Idle EXCEPT !.saw = op.state, !.resume = op.resume, 
              !.failures = IF "erasing" \in {op.state, op.resume} THEN op.failures ELSE 0,
              !.pc = CASE op.state \in {"tombstoned", "erasing"} -> "enqueue"
                       [] op.state = "external_actions_pending" -> "dispatch"
                       [] op.state = "grace" -> "grace"
                       [] OTHER -> "retry"]]
    /\ UNCHANGED <<op, journal, cmds, stripe, adrift, home, window, own, misread, faults>>

\* Mutant for CancellationUndoes: the fence is always set.
KindsDueAlways(w) == IF worker[w].saw = "erasing" THEN {"end"} ELSE {"close"}

\* preGraceCommandKinds and erasingCommandKinds: the fence is not set where
\* the owner already scheduled the end.
KindsDue(w) ==
    IF worker[w].saw = "erasing" THEN {"end"}
    ELSE IF own THEN {} ELSE {"close"}

Enqueue(w) ==
    /\ At(w, "enqueue")
    /\ \/ /\ op.state = worker[w].saw
          /\ cmds' = [k \in Kinds |->
                        IF k \in KindsDue(w) /\ cmds[k].status = "none" THEN Fresh ELSE cmds[k]]
          /\ IF op.state = "erasing" THEN Goto(w, "dispatch")
             ELSE Aim(w, "external_actions_pending", FALSE)
       \/ op.state # worker[w].saw /\ Quit(w, TRUE) /\ UNCHANGED cmds
    /\ UNCHANGED <<op, journal, lease, stripe, adrift, home, window, own, misread, faults>>

\* Erasure may be disabled, or a nested profile deletion unfinished, at any
\* tick that would go on to erase.
Hold(w) ==
    /\ \/ At(w, "grace")
       \/ At(w, "enqueue") /\ worker[w].saw = "erasing"
       \/ At(w, "retry") /\ worker[w].saw = "blocked" /\ worker[w].resume = "erasing"
    /\ Quit(w, FALSE)
    /\ UNCHANGED <<op, journal, lease, cmds, stripe, adrift, home, window, own, misread, faults>>

EndGrace(w) ==
    /\ At(w, "grace")
    /\ IF window THEN Quit(w, FALSE) ELSE Aim(w, "erasing", FALSE)
    /\ UNCHANGED <<op, journal, lease, cmds, stripe, adrift, home, window, own, misread, faults>>

Exhausted(w) == worker[w].resume = "erasing" /\ worker[w].failures >= MaxFailures

\* A blocked operation, and a cancelled one that owes its reversal: a new
\* attempt of the command whose latest attempt failed.
RetryFailed(w) ==
    LET k == KindOf(Phase(w)) IN
    /\ At(w, "retry")
    /\ \/ /\ worker[w].saw = "blocked"
          /\ worker[w].resume \notin {"external_actions_pending", "erasing"} \/ Exhausted(w)
          /\ Quit(w, FALSE) /\ UNCHANGED cmds
       \/ /\ worker[w].saw = "cancelled" /\ op.state # "cancelled"
          /\ Quit(w, TRUE) /\ UNCHANGED cmds
       \/ /\ worker[w].saw = "blocked" => /\ worker[w].resume \in {"external_actions_pending", "erasing"}
                                          /\ ~Exhausted(w)
          /\ worker[w].saw = "cancelled" => op.state = "cancelled"
          /\ cmds' = IF Retryable(k)
                     THEN [cmds EXCEPT ![k] = [Fresh EXCEPT !.attempt = cmds[k].attempt + 1]]
                     ELSE cmds
          /\ Goto(w, "dispatch")
    /\ UNCHANGED <<op, journal, lease, stripe, adrift, home, window, own, misread, faults>>

(***************************************************************************)
(* The outbox: mark, call, record.                                         *)
(***************************************************************************)
\* Mutant for CommandsCarriedOut: a row already marked is marked again.
MarkableTwice(w) ==
    LET k == KindOf(Phase(w)) IN
    /\ cmds[k].status = "pending"
    /\ k = "reopen" \/ op.state \notin {"cancelled", "complete"}

\* markDispatched: once per row, and not for an operation that has ended.
Markable(w) ==
    LET k == KindOf(Phase(w)) IN
    /\ cmds[k].status = "pending" /\ ~cmds[k].sent
    /\ k = "reopen" \/ op.state \notin {"cancelled", "complete"}

Dispatch(w) ==
    LET k == KindOf(Phase(w)) IN
    /\ At(w, "dispatch")
    /\ worker' = [worker EXCEPT
                    ![w].attempt = IF Markable(w) \/ cmds[k].status = "unknown" THEN cmds[k].attempt ELSE 0,
                    ![w].pc = CASE Markable(w) -> "call"
                                [] cmds[k].status = "unknown" -> "ask"
                                [] OTHER -> "decide"]
    /\ cmds' = IF Markable(w) THEN [cmds EXCEPT ![k].sent = TRUE] ELSE cmds
    /\ UNCHANGED <<op, journal, lease, stripe, adrift, home, window, own, misread, faults>>

\* What a request of kind k makes of the subscription at Stripe.
After(k) ==
    IF stripe = "gone" \/ k = "end" THEN "gone"
    ELSE IF k = "close" THEN "closing" ELSE "open"

\* execute: Stripe acts and answers, or refuses; or no answer comes, and
\* Stripe has acted, has not, or will.
Call(w) ==
    LET k == KindOf(Phase(w)) IN
    /\ At(w, "call")
    /\ cmds' = IF cmds[k].attempt = worker[w].attempt
               THEN [cmds EXCEPT ![k].calls = @ + 1] ELSE cmds
    /\ \E reply \in {"succeeded", "failed", "unknown"} :
          /\ worker' = [worker EXCEPT ![w].pc = "record", ![w].reply = reply]
          /\ IF reply = "succeeded" THEN UNCHANGED faults ELSE Fault
          /\ \/ reply # "failed" /\ stripe' = After(k) /\ UNCHANGED adrift
             \/ reply # "succeeded" /\ UNCHANGED <<stripe, adrift>>
             \/ reply = "unknown" /\ adrift' = adrift \cup {k} /\ UNCHANGED stripe
    /\ UNCHANGED <<op, journal, lease, home, window, own, misread>>

Landed(k) ==
    CASE k = "close" -> stripe \in {"closing", "gone"}
      [] k = "reopen" -> stripe \in {"open", "gone"}
      [] k = "end" -> stripe = "gone"

\* reconcile only reads.
Ask(w) ==
    /\ At(w, "ask")
    /\ \E reply \in {"unknown", IF Landed(KindOf(Phase(w))) THEN "succeeded" ELSE "failed"} :
          /\ worker' = [worker EXCEPT ![w].pc = "record", ![w].reply = reply]
          /\ IF reply = "unknown" THEN Fault ELSE UNCHANGED faults
    /\ UNCHANGED <<op, journal, lease, cmds, stripe, adrift, home, window, own, misread>>

\* recordExternalCommandOutcome: a terminal row takes no other outcome.
Record(w) ==
    LET k == KindOf(Phase(w))
        open == cmds[k].attempt = worker[w].attempt /\ cmds[k].status \in {"pending", "unknown"}
    IN
    /\ At(w, "record")
    /\ cmds' = IF open THEN [cmds EXCEPT ![k].status = worker[w].reply] ELSE cmds
    /\ IF open \/ cmds[k].status = worker[w].reply 
       THEN worker' = [worker EXCEPT ![w].pc = "decide", ![w].reply = "none", ![w].attempt = 0]
       ELSE Quit(w, TRUE)
    /\ misread' = (misread \/ (open /\ worker[w].reply = "failed" /\ (k \in adrift \/ Landed(k))))
    /\ UNCHANGED <<op, journal, lease, stripe, adrift, home, window, own, faults>>

\* externalCommandSummary, and what each handler makes of it.
Decide(w) ==
    LET status == cmds[KindOf(Phase(w))].status
        saw == worker[w].saw
    IN
    /\ At(w, "decide")
    /\ \/ saw = "cancelled" /\ Quit(w, status = "failed")
       \/ saw = "blocked" /\ IF Clean(status) THEN Aim(w, worker[w].resume, FALSE) ELSE Quit(w, TRUE)
       \/ /\ saw \in {"external_actions_pending", "erasing"}
          /\ \/ status \in {"unknown", "pending"} /\ Quit(w, FALSE)
             \/ status = "failed" /\ Aim(w, "blocked", FALSE)
             \/ Clean(status) /\ saw = "erasing" /\ Goto(w, "reserve")
             \/ Clean(status) /\ saw # "erasing" /\ Aim(w, "grace", FALSE)
    /\ UNCHANGED <<op, journal, lease, cmds, stripe, adrift, home, window, own, misread, faults>>

(***************************************************************************)
(* transitionDeletionOperation, and the erasure.                           *)
(***************************************************************************)
\* validateWorkerTransitionInTx.
Valid(goal) ==
    /\ op.acked /\ goal \in Transitions[op.state]
    /\ op.state = "blocked" => op.resume = goal
    /\ goal \in {"grace", "erasing"} => Clean(cmds["close"].status)
    /\ goal = "erasing" => ~window

Prepare(w) ==
    LET goal == worker[w].goal
        ok == Valid(goal) /\ Reservable(Step(op.state, goal))
    IN
    /\ At(w, "prepare")
    /\ \/ /\ op.state # goal /\ ok
          /\ Reserve(Step(op.state, goal))
          /\ worker' = [worker EXCEPT ![w].pc = "append", ![w].from = op.state]
       \/ op.state # goal /\ ~ok /\ Quit(w, TRUE) /\ UNCHANGED op
       \/ op.state = goal /\ Done(w) /\ UNCHANGED op
    /\ UNCHANGED <<journal, lease, cmds, stripe, adrift, home, window, own, misread, faults>>

Advance(w) ==
    LET goal == worker[w].goal
        plan == Step(worker[w].from, goal)
        ok == op.state = worker[w].from /\ op.plan = plan /\ Valid(goal)
    IN
    /\ At(w, "append")
    /\ \/ ok /\ Committed(plan) /\ Done(w)
       \/ ok /\ RolledBack(plan) /\ Quit(w, TRUE)
       \/ op.state = goal /\ Done(w) /\ UNCHANGED <<op, journal, faults>>
       \/ ~ok /\ op.state # goal /\ Quit(w, TRUE) /\ UNCHANGED <<op, journal, faults>>
    /\ UNCHANGED <<lease, cmds, stripe, adrift, home, window, own, misread>>

ReserveErasure(w) ==
    /\ At(w, "reserve")
    /\ IF op.acked /\ Reservable(ErasurePlan)
       THEN Reserve(ErasurePlan) /\ Goto(w, "erase")
       ELSE Aim(w, "blocked", TRUE) /\ UNCHANGED op
    /\ UNCHANGED <<journal, lease, cmds, stripe, adrift, home, window, own, misread, faults>>

\* The erasure transaction: it may find residue, or fail, at any point.
Erase(w) ==
    LET ok == /\ op.state = "erasing" /\ op.plan = ErasurePlan
              /\ \A k \in Kinds : cmds[k].status # "unknown"
    IN
    /\ At(w, "erase")
    /\ \/ /\ ok /\ Committed(ErasurePlan) /\ home' = "erased"
          /\ lease' = Unleased
          /\ Quit(w, FALSE)
       \/ ok /\ RolledBack(ErasurePlan) /\ Goto(w, "abandon") /\ UNCHANGED <<home, lease>>
       \/ ~ok /\ Goto(w, "abandon") /\ UNCHANGED <<op, journal, home, lease, faults>>
    /\ UNCHANGED <<cmds, stripe, adrift, window, own, misread>>

\* abandonJournalPlan, so that the plan to block is not in conflict with it.
Abandon(w) ==
    /\ At(w, "abandon")
    /\ op' = IF op.plan = ErasurePlan THEN [op EXCEPT !.plan = NoPlan, !.at = FALSE] ELSE op
    /\ Aim(w, "blocked", TRUE)
    /\ UNCHANGED <<journal, lease, cmds, stripe, adrift, home, window, own, misread, faults>>

AtMost(n) == IF n < MaxFailures THEN n ELSE MaxFailures

Tally(w) ==
    /\ At(w, "tally")
    /\ op' = [op EXCEPT !.failures = AtMost(worker[w].failures + 1)]
    /\ Quit(w, FALSE)
    /\ UNCHANGED <<journal, lease, cmds, stripe, adrift, home, window, own, misread, faults>>

Release(w) ==
    /\ At(w, "release")
    /\ IF lease.owner = w
       THEN /\ lease' = Unleased
            /\ op' = IF worker[w].counts THEN [op EXCEPT !.failures = AtMost(@ + 1)] ELSE op
       ELSE UNCHANGED <<lease, op>>
    /\ worker' = [worker EXCEPT ![w] = Idle]
    /\ UNCHANGED <<journal, cmds, stripe, adrift, home, window, own, misread, faults>>

(***************************************************************************)
(* The environment.                                                        *)
(***************************************************************************)
Crash(w) ==
    /\ ~At(w, "idle")
    /\ worker' = [worker EXCEPT ![w] = Idle]
    /\ UNCHANGED <<op, journal, lease, cmds, stripe, adrift, home, window, own, misread, faults>>

Land(k) ==
    /\ k \in adrift
    /\ stripe' = After(k) /\ adrift' = adrift \ {k}
    /\ UNCHANGED <<op, journal, lease, cmds, home, worker, window, own, misread, faults>>

WindowCloses ==
    /\ op.state # "none" /\ window /\ window' = FALSE
    /\ UNCHANGED <<op, journal, lease, cmds, stripe, adrift, home, worker, own, misread, faults>>

LeaseExpires ==
    /\ lease.live /\ lease' = [lease EXCEPT !.live = FALSE]
    /\ IF At(lease.owner, "idle") THEN UNCHANGED faults ELSE Fault
    /\ UNCHANGED <<op, journal, cmds, stripe, adrift, home, worker, window, own, misread>>

XInit ==
    /\ op = [state |-> "none", resume |-> "none", ver |-> 0, plan |-> NoPlan, at |-> FALSE,
             acked |-> FALSE, failures |-> 0]
    /\ journal = << >>
    /\ lease = Unleased
    /\ cmds = [k \in Kinds |-> [status |-> "none", sent |-> FALSE, attempt |-> 0, calls |-> 0]]
    /\ stripe \in {"open", "closing"} /\ own = (stripe = "closing")
    /\ adrift = {} /\ misread = FALSE /\ home = "active"
    /\ worker = [w \in Workers |-> Idle]
    /\ window = TRUE /\ faults = 0

Work(w) ==
    \/ Claim(w) \/ Enqueue(w) \/ Hold(w) \/ EndGrace(w) \/ RetryFailed(w)
    \/ Dispatch(w) \/ Call(w) \/ Ask(w) \/ Record(w) \/ Decide(w)
    \/ Prepare(w) \/ Advance(w) \/ ReserveErasure(w) \/ Erase(w) \/ Abandon(w)
    \/ Tally(w) \/ Release(w) \/ Crash(w)

XNext ==
    \/ Request \/ ReserveRequest \/ FinalizeRequest \/ ReserveCancel \/ ApplyCancel
    \/ \E w \in Workers : Work(w)
    \/ \E k \in Kinds : Land(k)
    \/ WindowCloses \/ LeaseExpires

XSpec == XInit /\ [][XNext]_xVars
(***************************************************************************)
(* Properties.                                                             *)
(***************************************************************************)
\* The shape of the state: at most one plan is reserved, of the legal kinds.
DeletionTypeOK ==
    /\ op.state \in States \ {"journal_pending", "verifying"}
    /\ op.resume \in States /\ (op.resume # "none" <=> op.state = "blocked")
    /\ op.plan # NoPlan => op.plan[1][1] = op.state
    /\ op.failures \in 0..MaxFailures
    /\ stripe \in {"open", "closing", "gone"} /\ adrift \subseteq Kinds
    /\ home \in {"active", "tombstoned", "erased"}
    /\ \A k \in Kinds : cmds[k].attempt \in 0..MaxAttempts

\* The journal and the row tell one story: the versions are one chain of
\* transitions, the version the row stands at ends in the row's state, and
\* what the journal knows more is no more than one interrupted transaction
\* (appendJournalTransitionInTx appends before its transaction commits).
JournalAgrees ==
    /\ DeletionTypeOK
    /\ Len(journal) \in op.ver..(op.ver + 2)
    /\ op.ver > 0 => journal[op.ver].to = op.state
    /\ \A i \in 1..(Len(journal) - 1) : journal[i].to = journal[i + 1].from

Journaled(state) == \E i \in DOMAIN journal : journal[i].to = state

\* Nothing irreversible happens to a workspace before the journal durably
\* says "erasing", nor to one whose cancellation the journal holds, even one
\* whose transaction was lost after the append.
IrreversibleNeedsErasing ==
    stripe = "gone" \/ home = "erased" => Journaled("erasing") /\ ~Journaled("cancelled")

\* Whatever delays, crashes and retries lie between a reservation and its
\* transition, a cancellation was decided within the owner's window and an
\* erasure after it.
WindowHonoured ==
    \A i \in DOMAIN journal :
        /\ journal[i].to = "cancelled" => journal[i].at
        /\ journal[i].to = "erasing" => ~journal[i].at

\* Whatever was delayed, lost or retried, the irreversible comes after the
\* owner's window, announced in the journal, and never to one who cancelled.
IrreversibleInItsTime == IrreversibleNeedsErasing /\ WindowHonoured

\* A workspace whose deletion was cancelled does not lose its subscription to
\* the fence of that deletion: while Stripe still means to end it, a reopening
\* is owed, or was tried and failed.  (Unless the fence's request reached
\* Stripe after reconcile had read it as not applied.)
ReversalOwed ==
    op.state = "cancelled" /\ stripe = "closing" /\ ~own /\ ~misread =>
        cmds["reopen"].status \in {"pending", "unknown", "failed"}

\* The end of the subscription the owner had scheduled before asking for the
\* deletion is theirs: no cancellation reopens it.
OwnScheduleStays == own => stripe # "open"

\* A cancelled deletion leaves the subscription as it found it: what the
\* deletion closed is reopened, what the owner closed stays closed.
CancellationUndoes == ReversalOwed /\ OwnScheduleStays

\* Two workers of one lease, a slow one and its successor, never carry out
\* one attempt of one command twice.
OneCallPerAttempt == \A k \in Kinds : cmds[k].calls <= 1

\* An erased workspace leaves no subscription behind that goes on charging,
\* however its provider command failed, was retried or was reconciled.
ErasedLeavesNoSubscription == home = "erased" => stripe = "gone"

\* The commands to Stripe are carried out: no attempt twice, and the one that
\* ends the charging before the workspace is gone.
CommandsCarriedOut == OneCallPerAttempt /\ ErasedLeavesNoSubscription
=============================================================================
