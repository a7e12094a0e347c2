----------------------------- MODULE LedgerFold -----------------------------
(***************************************************************************)
(* The pure half of the Respin credit ledger: replaying the append-only    *)
(* credit_ledger rows of one workspace against its pause history           *)
(* (packages/credits/src/fold.ts).                                         *)
(*                                                                         *)
(* A row is a record                                                       *)
(*   [kind, id, ref, delta, at, exp]                                       *)
(* whose `at` is created_at, `exp` is expires_at and `ref` is ref_id.  An  *)
(* expiry row carries the id of the lot it closes both as id and as ref:   *)
(* the partial unique index allows one per lot.  A pause period is         *)
(*   [started, ended].  `Null` stands for SQL NULL in every column.        *)
(***************************************************************************)
EXTENDS Integers, FiniteSets, FiniteSetsExt, Folds

Null == -1

LotKinds  == {"grant", "free", "pack", "refund", "adjust"}
RowKinds  == LotKinds \cup {"debit", "expiry"}

(* Rows that add credits.  A negative adjust allocates like a debit.       *)
IsLotRow(r) == r.kind \in LotKinds /\ r.delta > 0

-----------------------------------------------------------------------------
(* Pause-shifted expiry                                                    *)

LatestStarted(pauses) ==
  CHOOSE p \in pauses : \A q \in pauses : q.started <= p.started

(* Coalesce the pause p with the merged periods before it: an open period  *)
(* swallows whatever follows, a touching or overlapping one is extended.   *)
Absorb(p, merged) ==
  LET touching == {m \in merged : m.ended = Null \/ m.ended >= p.started}
  IN  IF touching = {} THEN merged \cup {p}
      ELSE LET m == CHOOSE m \in touching : TRUE
               end == IF m.ended = Null \/ p.ended = Null THEN Null
                      ELSE Max({m.ended, p.ended})
           IN  (merged \ {m}) \cup {[m EXCEPT !.ended = end]}

MergePauses(pauses) ==
  MapThenFoldSet(Absorb, {}, LAMBDA p : p, LatestStarted, pauses)

(* Mutants: the overlap not clamped to the lot's birth, and an open pause  *)
(* that freezes nothing.                                                   *)
ShiftByWholePause(p, born, eff) ==
  IF eff.frozen \/ p.started >= eff.at THEN eff
  ELSE IF p.ended = Null THEN [at |-> Null, frozen |-> TRUE]
  ELSE IF p.ended <= born THEN eff
  ELSE [eff EXCEPT !.at = @ + (p.ended - p.started)]

ShiftByClosedPause(p, born, eff) ==
  IF Max({p.started, born}) >= eff.at \/ p.ended = Null \/ p.ended <= born THEN eff
  ELSE [eff EXCEPT !.at = @ + (p.ended - Max({p.started, born}))]

(* One merged pause moves the expiry by the part of it that overlaps the   *)
(* lot's own lifetime; an open one freezes the clock.                      *)
ShiftBy(p, born, eff) ==
  LET overlapStart == Max({p.started, born})
  IN  IF eff.frozen \/ overlapStart >= eff.at THEN eff
      ELSE IF p.ended = Null THEN [at |-> Null, frozen |-> TRUE]
      ELSE IF p.ended <= born THEN eff
      ELSE [eff EXCEPT !.at = @ + (p.ended - overlapStart)]

EffectiveExpiry(exp, pauses, born) ==
  IF exp = Null THEN [at |-> Null, frozen |-> FALSE]
  ELSE MapThenFoldSet(LAMBDA p, eff : ShiftBy(p, born, eff),
                      [at |-> exp, frozen |-> FALSE],
                      LAMBDA p : p, LatestStarted, MergePauses(pauses))

-----------------------------------------------------------------------------
(* Lots and allocation                                                     *)

KindRank(k) == CASE k \in {"grant", "free"} -> 0 [] k = "pack" -> 1
                 [] k = "refund" -> 2 [] OTHER -> 3

IsLive(lot, t) ==
  /\ lot.remaining > 0
  /\ ~lot.closed
  /\ lot.eff.at = Null \/ lot.eff.at > t

(* Soonest effective expiry first, never-expiring and frozen lots last,    *)
(* then the older, then grants before packs; the id makes it total.        *)
SpentBefore(a, b) ==
  LET key(l) == << IF l.eff.at = Null THEN 1 ELSE 0,
                   IF l.eff.at = Null THEN 0 ELSE l.eff.at,
                   l.at, KindRank(l.kind), l.id >>
  IN  \E i \in 1..5 : /\ key(a)[i] < key(b)[i]
                      /\ \A j \in 1..(i - 1) : key(a)[j] = key(b)[j]

SumOf(f(_), S) == MapThenSumSet(f, S)

(* What an allocating row of the given amount takes from each lot live at  *)
(* t, the lots being emptied one after the other.                          *)
Allocation(lots, amount, t) ==
  LET live == {l \in lots : IsLive(l, t)}
      ahead(l) == SumOf(LAMBDA m : m.remaining,
                        {m \in live : SpentBefore(m, l)})
  IN  [l \in live |-> Max({0, Min({l.remaining, amount - ahead(l)})})]

-----------------------------------------------------------------------------
(* The replay                                                              *)

(* Mutant: rows of one instant replay spends first.                        *)
ReplayRankSpendsFirst(r) == IF IsLotRow(r) THEN 2 ELSE IF r.kind = "expiry" THEN 1 ELSE 0

(* Rows of one instant replay in causal order: lots, expiries, spends.     *)
ReplayRank(r) == IF IsLotRow(r) THEN 0 ELSE IF r.kind = "expiry" THEN 1 ELSE 2

ReplaysBefore(a, b) ==
  \/ a.at < b.at
  \/ a.at = b.at /\ ReplayRank(a) < ReplayRank(b)
  \/ a.at = b.at /\ ReplayRank(a) = ReplayRank(b) /\ a.id < b.id

LastReplayed(rows) ==
  CHOOSE r \in rows : \A q \in rows \ {r} : ReplaysBefore(q, r)

NewLot(r, pauses) ==
  [id |-> r.id, kind |-> r.kind, at |-> r.at, remaining |-> r.delta,
   closed |-> FALSE, eff |-> EffectiveExpiry(r.exp, pauses, r.at)]

(* The state of a replay: the lots, what each spend took from which lot,   *)
(* and whether no LedgerIntegrityError was thrown.                         *)
EmptyReplay == [lots |-> {}, trace |-> {}, sound |-> TRUE]

ReplayExpiry(r, s) ==
  LET named == {l \in s.lots : l.id = r.ref}
  IN  [s EXCEPT !.sound = @ /\ \E l \in named : l.remaining = -r.delta,
                !.lots = {IF l \in named
                          THEN [l EXCEPT !.remaining = 0, !.closed = TRUE]
                          ELSE l : l \in @}]

ReplaySpend(r, s) ==
  LET take == Allocation(s.lots, -r.delta, r.at)
      taken(l) == IF l \in DOMAIN take THEN take[l] ELSE 0
  IN  [s EXCEPT !.sound = @ /\ SumOf(taken, s.lots) = -r.delta,
                !.lots = {[l EXCEPT !.remaining = @ - taken(l)] : l \in s.lots},
                !.trace = @ \cup {[debit |-> r.id, lot |-> l.id, amount |-> taken(l)]
                                    : l \in {k \in s.lots : taken(k) > 0}}]

Replay(r, s, pauses) ==
  CASE IsLotRow(r)       -> [s EXCEPT !.lots = @ \cup {NewLot(r, pauses)}]
    [] r.kind = "expiry" -> ReplayExpiry(r, s)
    [] OTHER             -> ReplaySpend(r, s)

ReplayAll(rows, pauses) ==
  MapThenFoldSet(LAMBDA r, s : Replay(r, s, pauses), EmptyReplay,
                 LAMBDA r : r, LastReplayed, rows)

RowsUpTo(rows, t) == {r \in rows : r.at <= t}

FoldLedger(rows, pauses, asOf) == ReplayAll(RowsUpTo(rows, asOf), pauses)

Balance(fold, asOf) ==
  SumOf(LAMBDA l : l.remaining, {l \in fold.lots : IsLive(l, asOf)})

BalanceAt(rows, pauses, t) == Balance(FoldLedger(rows, pauses, t), t)

ExpiryCandidates(fold, asOf) ==
  {l \in fold.lots : /\ l.remaining > 0
                     /\ ~l.closed
                     /\ ~l.eff.frozen
                     /\ l.eff.at # Null
                     /\ l.eff.at <= asOf}
=============================================================================
