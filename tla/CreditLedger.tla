---------------------------- MODULE CreditLedger ----------------------------
(***************************************************************************)
(* The append-only credit ledger of one workspace under concurrent         *)
(* transactions (packages/credits/src: ledger.ts, balance.ts, clock.ts,    *)
(* pause.ts).  A transaction begins, waits for the workspace's advisory    *)
(* lock, works under it and commits or rolls back; the database clock      *)
(* moves at any moment, and several steps may share one instant.           *)
(*                                                                         *)
(* Grants, packs and positive adjusts take no lock of their own in         *)
(* ledger.ts; their callers (the Stripe webhook) hold it, as here.         *)
(***************************************************************************)
EXTENDS LedgerFold

CONSTANTS
  Backends,       \* database sessions
  Requests,       \* the requests sessions may make, see RequestSpace
  Tiers,          \* the tiers the workspace may be on
  FreeAllowance,  \* config allowances.free; 0 mints nothing
  MonthLength,    \* instants in a calendar month
  Skew,           \* CLOCK_SKEW_MS
  MaxTime,        \* bound: the last instant
  MaxRows,        \* bound: lot and spend rows written
  MaxPauses,      \* bound: pause periods recorded
  Nobody          \* the lock's value when free

-----------------------------------------------------------------------------
(* Requests.  A takeback is a negative adjust, `exp` the expiry a lot is   *)
(* bought with.  A refund names its debit when it works, by the debit's own *)
(* reference or, to settle a parked claim, by the claim's.                 *)

Spends  == {"debit", "takeback"}
Refunds == {"refund", "settle"}
Lots    == {"grant", "pack", "adjust"}

RequestSpace ==
  [op : Spends \cup Refunds, amount : Nat \ {0}, exp : {Null}]
    \cup [op : Lots, amount : Nat \ {0}, exp : Nat \cup {Null}]
    \cup [op : {"read", "pause", "resume"}, amount : {0}, exp : {Null}]

ASSUME LedgerAssumption ==
  /\ Nobody \notin Backends
  /\ Requests \subseteq RequestSpace
  /\ Tiers \subseteq {"free", "paid"} /\ FreeAllowance \in Nat
  /\ MonthLength \in Nat \ {0}
  /\ Skew \in Nat /\ MaxTime \in Nat /\ MaxRows \in Nat /\ MaxPauses \in Nat

VARIABLES
  clock,     \* clock_timestamp()
  ledger,    \* committed rows of credit_ledger
  pauses,    \* committed rows of pause_periods
  serial,    \* the id of the next row (uuidv7 order)
  tier,      \* getWorkspaceBillingState(...).tier, as free or paid
  lock,      \* the holder of the workspace's advisory lock
  tx,        \* the transaction of each session
  asOf       \* the latest instant a lock holder has read the clock at

vars == <<clock, ledger, pauses, serial, tier, lock, tx, asOf>>

NoRequest == [op |-> "none", amount |-> 0, exp |-> Null]

(* `began` is the transaction's start, which is also the `at` its caller   *)
(* captured; `stamp` the clock it read under the lock; `rows` and `periods`*)
(* what it has written and not yet committed.                              *)
Session(step, req, began, stamp, rows, periods) ==
  [step |-> step, req |-> req, began |-> began, stamp |-> stamp,
   rows |-> rows, periods |-> periods]

Idle == Session("idle", NoRequest, 0, 0, {}, {})

Init ==
  /\ clock = 0 /\ asOf = 0
  /\ ledger = {} /\ pauses = {}
  /\ serial = 1
  /\ tier \in Tiers
  /\ lock = Nobody
  /\ tx = [b \in Backends |-> Idle]

Tick ==
  /\ clock < MaxTime
  /\ clock' = clock + 1
  /\ asOf' = IF lock = Nobody THEN clock + 1 ELSE asOf
  /\ UNCHANGED <<ledger, pauses, serial, tier, lock, tx>>

(* A webhook transaction moves the workspace on or off a paid tier.        *)
ChangeTier ==
  /\ lock = Nobody
  /\ tier' \in Tiers \ {tier}
  /\ UNCHANGED <<clock, ledger, pauses, serial, lock, tx, asOf>>

Begin(b, req) ==
  /\ tx[b].step = "idle"
  /\ tx' = [tx EXCEPT ![b] = Session("waiting", req, clock, 0, {}, {})]
  /\ UNCHANGED <<clock, ledger, pauses, serial, tier, lock, asOf>>

-----------------------------------------------------------------------------
(* Under the lock                                                          *)

HasOpenPause == \E p \in pauses : p.ended = Null

EventInstants ==
  {r.at : r \in ledger} \cup {p.started : p \in pauses}
    \cup ({p.ended : p \in pauses} \ {Null})

(* assertWriteClock: the caller's instant is within the skew of the clock  *)
(* and not older than the latest event by more than it.                    *)
WriteClockOk(at) ==
  /\ at - clock <= Skew /\ clock - at <= Skew
  /\ \A e \in EventInstants : at >= e - Skew

(* What a request checks as soon as it holds the lock.                     *)
Admitted(b) ==
  LET op == tx[b].req.op
  IN  /\ op \in Spends => WriteClockOk(tx[b].began) /\ ~HasOpenPause
      /\ op = "pause"  => ~HasOpenPause
      /\ op = "resume" => \E p \in pauses : p.ended = Null /\ p.started < clock

TakeLock(b) ==
  /\ tx[b].step = "waiting"
  /\ lock = Nobody
  /\ Admitted(b)
  /\ lock' = b
  /\ asOf' = clock
  /\ tx' = [tx EXCEPT ![b] = Session("locked", tx[b].req, tx[b].began, clock, {}, {})]
  /\ UNCHANGED <<clock, ledger, pauses, serial, tier>>

Refuse(b) ==
  /\ tx[b].step = "waiting"
  /\ lock = Nobody
  /\ ~Admitted(b)
  /\ tx' = [tx EXCEPT ![b] = Idle]
  /\ UNCHANGED <<clock, ledger, pauses, serial, tier, lock, asOf>>

(* Mutant: created_at left out of the insert.                              *)
RowUndated(kind, id, ref, delta, at, exp) ==
  [kind |-> kind, id |-> id, ref |-> ref, delta |-> delta, at |-> Null, exp |-> exp]

Row(kind, id, ref, delta, at, exp) ==
  [kind |-> kind, id |-> id, ref |-> ref, delta |-> delta, at |-> at, exp |-> exp]

Month(t) == t \div MonthLength

FreeMintRow == Row("free", serial, Month(clock), FreeAllowance, clock,
                   (Month(clock) + 1) * MonthLength)

(* Mutant: minted at every read.                                           *)
FreeMintAgain == IF tier = "free" /\ ~HasOpenPause THEN {FreeMintRow} ELSE {}

(* mintFreeAllowanceIfDue: the row it inserts, if any.                     *)
FreeMint ==
  IF /\ tier = "free"
     /\ ~HasOpenPause
     /\ FreeAllowance > 0
     /\ ~\E r \in ledger : r.kind = "free" /\ r.ref = Month(clock)
  THEN {FreeMintRow} ELSE {}

(* The expiry rows that close the lots a fold at the clock finds crossed.  *)
ExpiryRows(rows) ==
  {Row("expiry", l.id, l.id, -l.remaining, clock, Null) :
     l \in ExpiryCandidates(FoldLedger(rows, pauses, clock), clock)}

(* deriveBalanceInTx: what it writes.                                      *)
Derived == FreeMint \cup ExpiryRows(ledger \cup FreeMint)

(* The instant refundCredits gives the lot it returns; Null: it throws.    *)
RefundExpiry(rows, debit) ==
  LET fold     == FoldLedger(rows, pauses, clock)
      consumed == {l \in fold.lots : \E t \in fold.trace : t.debit = debit /\ t.lot = l.id}
      dated    == {l.eff.at : l \in consumed} \ {Null}
  IN  IF dated = {} THEN Null ELSE Max(dated)

(* The one reference column of a refund row holds its debit or the claim   *)
(* that debit paid for, which is another number.                           *)
ClaimOf(debit) == -1 - debit

DebitOf(ref) == IF ref < 0 THEN -1 - ref ELSE ref

RefundsUnder(rows, refs) == {r \in rows : r.kind = "refund" /\ r.ref \in refs}

(* Mutant: a budget that forgets refunds.                                  *)
RefundedForgotten(rows, debit, ref) == 0

(* pointsAtDebit: a call sees the refunds by the debit and those under its *)
(* own reference; the refunds under the other one are not in its budget.   *)
Refunded(rows, debit, ref) ==
  SumOf(LAMBDA r : r.delta, RefundsUnder(rows, {debit, ref}))

Stage(b, rows, added) ==
  /\ serial + added <= MaxRows + 1
  /\ tx' = [tx EXCEPT ![b] = Session("worked", tx[b].req, tx[b].began, clock, rows, {})]
  /\ asOf' = clock
  /\ serial' = serial + added
  /\ UNCHANGED <<clock, ledger, pauses, tier, lock>>

NextId == IF FreeMint = {} THEN serial ELSE serial + 1

WorkRead(b) ==
  /\ tx[b].req.op = "read"
  /\ Stage(b, Derived, NextId - serial)

(* Mutant: the spend is stamped with the transaction's start.              *)
WorkSpendAtBegin(b) ==
  LET rows == ledger \cup Derived
  IN  /\ tx[b].req.op \in Spends
      /\ BalanceAt(rows, pauses, clock) >= tx[b].req.amount
      /\ Stage(b, Derived \cup {Row("debit", NextId, Null, -tx[b].req.amount,
                                    tx[b].began, Null)},
               NextId + 1 - serial)

(* debitCredits and the negative half of adjustCredits.                    *)
WorkSpend(b) ==
  LET cost == tx[b].req.amount
      rows == ledger \cup Derived
      kind == IF tx[b].req.op = "debit" THEN "debit" ELSE "adjust"
  IN  /\ tx[b].req.op \in Spends
      /\ BalanceAt(rows, pauses, clock) >= cost
      /\ Stage(b, Derived \cup {Row(kind, NextId, Null, -cost, clock, Null)},
               NextId + 1 - serial)

(* refundCredits without a reference of the caller's, and with the claim's *)
(* as the settlement passes it; credit_ledger_autopsy_refund_uq admits one *)
(* row of the latter.                                                      *)
WorkRefund(b) ==
  LET amount == tx[b].req.amount
      rows   == ledger \cup Derived
  IN  /\ tx[b].req.op \in Refunds
      /\ \E d \in rows :
           LET exp == RefundExpiry(rows, d.id)
               ref == IF tx[b].req.op = "settle" THEN ClaimOf(d.id) ELSE d.id
           IN  /\ d.kind = "debit"
               /\ tx[b].req.op = "settle" => RefundsUnder(rows, {ref}) = {}
               /\ amount + Refunded(rows, d.id, ref) <= -d.delta
               /\ exp # Null
               /\ Stage(b, Derived \cup {Row("refund", NextId, ref, amount, clock, exp)},
                        NextId + 1 - serial)

(* grantCredits, purchasePackCredits and the positive half of adjustCredits*)
WorkLot(b) ==
  /\ tx[b].req.op \in Lots
  /\ Stage(b, {Row(tx[b].req.op, serial, Null, tx[b].req.amount, clock, tx[b].req.exp)}, 1)

(* recordPauseStart and recordPauseEnd: the pause_periods they leave.      *)
Repaused(periods, op, at) ==
  IF op = "pause" THEN periods \cup {[started |-> at, ended |-> Null]}
  ELSE {IF p.ended = Null THEN [started |-> p.started, ended |-> at] ELSE p : p \in periods}

(* The pause instant is the clock assertWriteClock read, not a later one.  *)
WorkPause(b) ==
  /\ tx[b].req.op \in {"pause", "resume"}
  /\ tx[b].req.op = "pause" => Cardinality(pauses) < MaxPauses
  /\ tx' = [tx EXCEPT ![b] = Session("worked", tx[b].req, tx[b].began, tx[b].stamp, {},
                                      Repaused(pauses, tx[b].req.op, tx[b].stamp))]
  /\ UNCHANGED <<clock, ledger, pauses, serial, tier, lock, asOf>>

Work(b) ==
  /\ tx[b].step = "locked"
  /\ \/ WorkRead(b) \/ WorkSpend(b) \/ WorkRefund(b) \/ WorkLot(b) \/ WorkPause(b)

Commit(b) ==
  /\ tx[b].step = "worked"
  /\ ledger' = ledger \cup tx[b].rows
  /\ pauses' = IF tx[b].req.op \in {"pause", "resume"} THEN tx[b].periods ELSE pauses
  /\ lock' = Nobody
  /\ tx' = [tx EXCEPT ![b] = Idle]
  /\ UNCHANGED <<clock, serial, tier, asOf>>

(* A thrown refusal, a lost connection or a crash: nothing is kept.        *)
Rollback(b) ==
  /\ tx[b].step \in {"locked", "worked"}
  /\ lock' = Nobody
  /\ tx' = [tx EXCEPT ![b] = Idle]
  /\ UNCHANGED <<clock, ledger, pauses, serial, tier, asOf>>

Next ==
  \/ Tick
  \/ ChangeTier
  \/ \E b \in Backends :
       \/ \E req \in Requests : Begin(b, req)
       \/ TakeLock(b) \/ Refuse(b) \/ Work(b) \/ Commit(b) \/ Rollback(b)

Spec == Init /\ [][Next]_vars
-----------------------------------------------------------------------------
(* Properties                                                              *)

Staged == UNION {tx[b].rows : b \in Backends}

(* The shape of the state: who may hold the lock, and rows that belong to  *)
(* a transaction which does.                                               *)
TypeOK ==
  /\ clock \in 0..MaxTime /\ asOf \in 0..clock
  /\ serial \in 1..(MaxRows + 1)
  /\ tier \in Tiers
  /\ lock \in Backends \cup {Nobody}
  /\ \A r \in ledger : r.kind \in RowKinds /\ r.at \in 0..asOf
  /\ \A p \in pauses : p.started \in 0..asOf /\ p.ended \in {Null} \cup 0..asOf
  /\ DOMAIN tx = Backends
  /\ \A b \in Backends :
       /\ tx[b].step \in {"idle", "waiting", "locked", "worked"}
       /\ tx[b].step \in {"locked", "worked"} <=> lock = b
       /\ tx[b].req \in Requests \cup {NoRequest}
       /\ tx[b].began \in 0..clock /\ tx[b].stamp \in 0..clock

(* No ledger the writers can produce makes a replay throw: not now, and    *)
(* not with the rows a lock holder is about to commit.  A throw would be   *)
(* permanent, the rows being immutable (fold.ts, LedgerIntegrityError).    *)
ReplayNeverThrows == FoldLedger(ledger \cup Staged, pauses, clock).sound

(* Whenever a transaction has derived the balance, the plain sum of every  *)
(* row equals it: expiry is materialised lazily, but never late, early or  *)
(* twice (balance.ts, deriveBalanceInTx).                                  *)
SumIsBalance ==
  \A b \in Backends :
    tx[b].step = "worked" /\ tx[b].req.op \in Spends \cup {"read"} =>
      LET rows == ledger \cup tx[b].rows
      IN  SumOf(LAMBDA r : r.delta, rows)
            = BalanceAt(rows, pauses, tx[b].stamp)

(* History holds: it can always be replayed, and replaying it gives what   *)
(* its rows add up to, so that no reader of the sum and no reader of the   *)
(* replay ever disagree on what a workspace may spend.                     *)
HistoryReplays == ReplayNeverThrows /\ SumIsBalance

(* What refundCredits bounds of a debit is each budget, not their sum: the *)
(* refunds by the debit stay within it, and so does the one refund its     *)
(* claim may have, with those by the debit that came before.  Only a refund*)
(* by the debit after the claim's escapes (ledger.ts, RefundParams.ref).   *)
RefundsWithinBudget ==
  \A d \in ledger : d.kind = "debit" =>
    LET byDebit == RefundsUnder(ledger, {d.id})
        byClaim == RefundsUnder(ledger, {ClaimOf(d.id)})
        earlier == {r \in byDebit : \A c \in byClaim : r.id < c.id}
    IN  /\ SumOf(LAMBDA r : r.delta, byDebit) <= -d.delta
        /\ SumOf(LAMBDA r : r.delta, earlier \cup byClaim) <= -d.delta
        /\ \A q, r \in byClaim : q = r

(* A refund never outlives the credits it returns: at the instant it is    *)
(* written it expires with the latest of the lots its debit consumed, so   *)
(* no pause before it is counted twice.                                    *)
RefundExpiresWithItsSource ==
  \A b \in Backends : \A r \in tx[b].rows : r.kind = "refund" =>
    LET fold == FoldLedger(ledger \cup tx[b].rows, pauses, tx[b].stamp)
        lot  == CHOOSE l \in fold.lots : l.id = r.id
    IN  lot.eff.at # Null =>
          \E l \in fold.lots : /\ \E t \in fold.trace : t.debit = DebitOf(r.ref) /\ t.lot = l.id
                               /\ l.eff.at >= lot.eff.at

(* A refund keeps to its budget, the claim's seeing the debit's, and gives *)
(* back no credits that live longer than those taken.                      *)
RefundsAreFair == RefundsWithinBudget /\ RefundExpiresWithItsSource

(* The free allowance is minted at most once for a month, whatever the     *)
(* tier did in between, and never into a pause, where it would not expire. *)
FreeAllowanceOncePerMonth ==
  /\ \A q, r \in ledger : q.kind = "free" /\ r.kind = "free" /\ q.ref = r.ref => q = r
  /\ \A r \in ledger : r.kind = "free" => Month(r.at) = r.ref

FreeNeverInPause ==
  \A r \in ledger : r.kind = "free" =>
    ~\E p \in pauses : p.started < r.at /\ (p.ended = Null \/ r.at < p.ended)

(* The free allowance comes once a month and runs out: no race, rollback,  *)
(* change of tier or pause gives a second one or one that never expires.   *)
FreeMintedOnce == FreeAllowanceOncePerMonth /\ FreeNeverInPause

(* Pause periods are well formed: never two at once, at most one open.     *)
PausesDisjoint ==
  \A p, q \in pauses : p # q =>
    \/ p.ended # Null /\ p.ended <= q.started
    \/ q.ended # Null /\ q.ended <= p.started

(* What was true stays true: no later commit changes the balance of any    *)
(* instant before the one already looked at, neither by a row stamped into *)
(* the past nor by a pause that reaches back.                              *)
PastBalancesAreFixed ==
  [][ ledger' # ledger \/ pauses' # pauses =>
        \A t \in 0..(asOf - 1) :
          BalanceAt(ledger', pauses', t) = BalanceAt(ledger, pauses, t) ]_vars
=============================================================================
