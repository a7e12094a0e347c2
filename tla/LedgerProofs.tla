---------------------------- MODULE LedgerProofs ----------------------------
(***************************************************************************)
(* The credits of a workspace, for every number of sessions and every      *)
(* history.  First the transactions: rows are only ever added at or after  *)
(* the last instant a lock holder looked at, pauses never overlap, the free*)
(* allowance is minted once a month and never into a pause, and a refund   *)
(* keeps to the budget it sees.  Then what replaying it gives, by what     *)
(* LedgerFoldProofs.tla says of replays: history always replays, its plain *)
(* sum is the balance when it should be, the past is read the same for     *)
(* ever, no refund outlives the lots it pays back, and the ledger          *)
(* implements the abstract account.                                        *)
(***************************************************************************)
EXTENDS LedgerAccount, LedgerFoldProofs

-----------------------------------------------------------------------------
(***************************************************************************)
(* Transactions.                                                           *)
(***************************************************************************)

(* What a lock holder has read and staged is dated at the last observation.*)
StagedInv ==
  \A b \in Backends :
    /\ tx[b].step # "worked" => tx[b].rows = {}
    /\ lock = b => tx[b].stamp = asOf
    /\ \A r \in tx[b].rows : r.kind \in RowKinds /\ r.at = asOf

(* A transaction that opens or closes a pause found it closed or open.     *)
PeriodInv ==
  \A b \in Backends :
    /\ lock = b /\ tx[b].req.op = "pause" => ~HasOpenPause
    /\ lock = b /\ tx[b].req.op = "resume" =>
         \E p \in pauses : p.ended = Null /\ p.started < asOf
    /\ tx[b].step = "worked" /\ tx[b].req.op \in {"pause", "resume"} =>
         tx[b].rows = {} /\ tx[b].periods = Repaused(pauses, tx[b].req.op, asOf)

(* A staged free row is the only one of its month, and no pause is open.   *)
FreeInv ==
  \A b \in Backends : \A r \in tx[b].rows : r.kind = "free" =>
    /\ r.ref = Month(r.at)
    /\ ~HasOpenPause
    /\ \A q \in ledger : q.kind = "free" => q.ref # r.ref
    /\ \A q \in tx[b].rows : q.kind = "free" => q = r

IInv ==
  /\ TypeOK
  /\ StagedInv
  /\ PeriodInv
  /\ PausesDisjoint
  /\ FreeInv
  /\ FreeAllowanceOncePerMonth
  /\ FreeNeverInPause

-----------------------------------------------------------------------------
(* What a request asks for, by its operation.                              *)
LEMMA RequestOps ==
  ASSUME NEW req \in Requests \cup {NoRequest}
  PROVE  req.op \in Spends \cup Refunds \cup Lots \cup {"read", "pause", "resume", "none"}
BY LedgerAssumption DEF RequestSpace, NoRequest

(* What a balance derivation writes: rows of this instant, of which at     *)
(* most one is a free grant, and that one is due.                          *)
LEMMA DerivedRows ==
  /\ \A r \in Derived : r.kind \in {"free", "expiry"} /\ r.at = clock
  /\ \A r \in Derived : r.kind = "free" =>
       /\ r = FreeMintRow
       /\ r.ref = Month(r.at)
       /\ ~HasOpenPause
       /\ \A q \in ledger : q.kind = "free" => q.ref # r.ref
<1>1. \A r \in ExpiryRows(ledger \cup FreeMint) : r.kind = "expiry" /\ r.at = clock
  BY DEF ExpiryRows, Row
<1>2. \A r \in FreeMint :
        /\ r = FreeMintRow /\ ~HasOpenPause
        /\ \A q \in ledger : q.kind = "free" => q.ref # Month(clock)
  BY DEF FreeMint
<1>3. FreeMintRow.kind = "free" /\ FreeMintRow.at = clock /\ FreeMintRow.ref = Month(clock)
  BY DEF FreeMintRow, Row
<1> QED BY <1>1, <1>2, <1>3 DEF Derived

(* Every transaction that is not about pauses stages rows of this instant. *)
LEMMA WorkStages ==
  ASSUME TypeOK, NEW b \in Backends, Work(b), ~WorkPause(b)
  PROVE  \E rows : \E added \in 0..2 :
           /\ Stage(b, rows, added)
           /\ tx[b].req.op \notin {"pause", "resume", "none"}
           /\ \A r \in rows : r.kind \in RowKinds /\ r.at = clock
           /\ \A r \in rows : r.kind = "free" => r \in Derived
<1>0. serial \in Nat /\ NextId \in {serial, serial + 1}
  BY DEF TypeOK, NextId
<1>1. \A r \in Derived : r.kind \in RowKinds /\ r.at = clock
  BY DerivedRows DEF RowKinds, LotKinds
<1>2. CASE WorkRead(b)
  <2>1. NextId - serial \in 0..2
    BY <1>0
  <2> QED BY <1>1, <1>2, <2>1 DEF WorkRead
<1>3. CASE WorkSpend(b)
  <2>1. NextId + 1 - serial \in 0..2
    BY <1>0
  <2> DEFINE kind == IF tx[b].req.op = "debit" THEN "debit" ELSE "adjust"
             row  == Row(kind, NextId, Null, -tx[b].req.amount, clock, Null)
  <2>2. row.kind \in {"debit", "adjust"} /\ row.at = clock
    BY DEF Row
  <2>3. Stage(b, Derived \cup {row}, NextId + 1 - serial) /\ tx[b].req.op \in Spends
    BY <1>3 DEF WorkSpend
  <2> HIDE DEF row, kind
  <2> QED BY <1>1, <2>1, <2>2, <2>3 DEF Spends, RowKinds, LotKinds
<1>4. CASE WorkRefund(b)
  <2>1. NextId + 1 - serial \in 0..2
    BY <1>0
  <2>2. PICK ref, exp : Stage(b, Derived \cup {Row("refund", NextId, ref, tx[b].req.amount, clock, exp)},
                              NextId + 1 - serial)
    BY <1>4 DEF WorkRefund
  <2> DEFINE row == Row("refund", NextId, ref, tx[b].req.amount, clock, exp)
  <2>3. row.kind = "refund" /\ row.at = clock
    BY DEF Row
  <2>4. Stage(b, Derived \cup {row}, NextId + 1 - serial) /\ tx[b].req.op \in Refunds
    BY <1>4, <2>2 DEF WorkRefund
  <2> HIDE DEF row
  <2> QED BY <1>1, <2>1, <2>3, <2>4 DEF Refunds, RowKinds, LotKinds
<1>5. CASE WorkLot(b)
  <2> DEFINE row == Row(tx[b].req.op, serial, Null, tx[b].req.amount, clock, tx[b].req.exp)
  <2>1. row.kind \in Lots /\ row.at = clock /\ Stage(b, {row}, 1) /\ tx[b].req.op \in Lots
    BY <1>5 DEF WorkLot, Row
  <2> HIDE DEF row
  <2> QED BY <2>1 DEF RowKinds, LotKinds, Lots
<1> QED BY <1>2, <1>3, <1>4, <1>5 DEF Work

-----------------------------------------------------------------------------
(* The invariant holds of an empty ledger.                                 *)
LEMMA InitIInv == Init => IInv
BY LedgerAssumption, SMTT(30)
   DEF Init, IInv, TypeOK, StagedInv, PeriodInv, FreeInv, PausesDisjoint,
       FreeAllowanceOncePerMonth, FreeNeverInPause, HasOpenPause, Session, Idle, NoRequest

(* Time passes, a tier changes, a session begins or is refused: what is    *)
(* committed and what the lock holder staged stay as they are.             *)
LEMMA QuietStep ==
  ASSUME IInv, Tick \/ ChangeTier
  PROVE  IInv'
<1>1. CASE Tick
  <2>1. TypeOK'
    <3>1. /\ clock \in Nat /\ clock' = clock + 1 /\ clock' \in 0..MaxTime
          /\ asOf \in Nat /\ asOf' \in Nat /\ asOf <= asOf' /\ asOf' <= clock'
      <4>1. asOf \in 0..clock /\ clock \in 0..MaxTime /\ MaxTime \in Nat
        BY LedgerAssumption DEF IInv, TypeOK
      <4>2. clock < MaxTime /\ clock' = clock + 1 /\ asOf' \in {asOf, clock + 1}
        BY <1>1 DEF Tick
      <4> QED BY <4>1, <4>2
    <3>2. 0..asOf \subseteq 0..asOf' /\ 0..clock \subseteq 0..clock' /\ asOf' \in 0..clock'
      BY <3>1
    <3> QED BY <1>1, <3>1, <3>2 DEF IInv, TypeOK, Tick
  <2>2. StagedInv'
    BY <1>1, LedgerAssumption DEF IInv, TypeOK, StagedInv, Tick
  <2>3. PeriodInv'
    <3>1. HasOpenPause' = HasOpenPause
      BY <1>1 DEF Tick, HasOpenPause
    <3>2. lock # Nobody => asOf' = asOf
      BY <1>1 DEF Tick
    <3> QED BY <1>1, <3>1, <3>2, LedgerAssumption DEF IInv, TypeOK, PeriodInv, Tick
  <2>4. FreeInv'
    BY <1>1 DEF IInv, FreeInv, Tick, HasOpenPause, Month
  <2>5. PausesDisjoint' /\ FreeAllowanceOncePerMonth' /\ FreeNeverInPause'
    BY <1>1 DEF IInv, Tick, PausesDisjoint, FreeAllowanceOncePerMonth, FreeNeverInPause, Month
  <2> QED BY <2>1, <2>2, <2>3, <2>4, <2>5 DEF IInv
<1>2. CASE ChangeTier
  BY <1>2 DEF IInv, TypeOK, StagedInv, PeriodInv, PausesDisjoint, FreeInv, ChangeTier,
              FreeAllowanceOncePerMonth, FreeNeverInPause, HasOpenPause, Month
<1> QED BY <1>1, <1>2

(* A session's own bookkeeping: nothing committed changes, and it ends up  *)
(* with nothing staged.                                                    *)
LEMMA SessionStep ==
  ASSUME IInv, NEW b \in Backends,
         \/ \E req \in Requests : Begin(b, req)
         \/ TakeLock(b) \/ Refuse(b) \/ Rollback(b)
  PROVE  IInv'
<1> DEFINE Kept == UNCHANGED <<clock, ledger, pauses, serial, tier>>
<1>1. PICK step, req, began, stamp :
        /\ Kept
        /\ tx' = [tx EXCEPT ![b] = Session(step, req, began, stamp, {}, {})]
        /\ req \in Requests \cup {NoRequest}
        /\ began \in 0..clock /\ stamp \in 0..clock
        /\ \/ /\ step \in {"idle", "waiting"} /\ lock # b
              /\ lock' = lock /\ asOf' = asOf
           \/ /\ step = "idle" /\ lock = b
              /\ lock' = Nobody /\ asOf' = asOf
           \/ /\ step = "locked" /\ lock = Nobody /\ stamp = clock
              /\ lock' = b /\ asOf' = clock
              /\ req = tx[b].req /\ Admitted(b)
  <2>1. ASSUME NEW req \in Requests, Begin(b, req)
        PROVE  /\ Kept /\ lock # b /\ lock' = lock /\ asOf' = asOf
               /\ tx' = [tx EXCEPT ![b] = Session("waiting", req, clock, 0, {}, {})]
    BY <2>1 DEF Begin, IInv, TypeOK
  <2>2. ASSUME TakeLock(b)
        PROVE  /\ Kept /\ lock = Nobody /\ lock' = b /\ asOf' = clock /\ Admitted(b)
               /\ tx' = [tx EXCEPT ![b] = Session("locked", tx[b].req, tx[b].began, clock, {}, {})]
    BY <2>2 DEF TakeLock
  <2>3. ASSUME Refuse(b)
        PROVE  /\ Kept /\ lock # b /\ lock' = lock /\ asOf' = asOf
               /\ tx' = [tx EXCEPT ![b] = Session("idle", NoRequest, 0, 0, {}, {})]
    BY <2>3 DEF Refuse, IInv, TypeOK, Idle
  <2>4. ASSUME Rollback(b)
        PROVE  /\ Kept /\ lock = b /\ lock' = Nobody /\ asOf' = asOf
               /\ tx' = [tx EXCEPT ![b] = Session("idle", NoRequest, 0, 0, {}, {})]
    BY <2>4 DEF Rollback, IInv, TypeOK, Idle
  <2>5. /\ clock \in Nat /\ tx[b].req \in Requests \cup {NoRequest}
        /\ tx[b].began \in 0..clock
    BY LedgerAssumption DEF IInv, TypeOK
  <2> HIDE DEF Kept
  <2>6. CASE \E req \in Requests : Begin(b, req)
    BY <2>1, <2>5, <2>6
  <2>7. CASE TakeLock(b)
    BY <2>2, <2>5, <2>7
  <2>8. CASE Refuse(b)
    BY <2>3, <2>5, <2>8
  <2>9. CASE Rollback(b)
    BY <2>4, <2>5, <2>9
  <2> QED BY <2>6, <2>7, <2>8, <2>9
<1>2. /\ DOMAIN tx' = Backends
      /\ tx'[b] = Session(step, req, began, stamp, {}, {})
      /\ \A c \in Backends \ {b} : tx'[c] = tx[c]
  BY <1>1 DEF IInv, TypeOK
<1>3. asOf \in Nat /\ asOf' \in Nat /\ asOf <= asOf' /\ asOf' <= clock
  BY <1>1, LedgerAssumption DEF IInv, TypeOK
<1>4. TypeOK'
  BY <1>1, <1>2, <1>3, LedgerAssumption DEF IInv, TypeOK, Session
<1>5. StagedInv'
  BY <1>1, <1>2, LedgerAssumption DEF IInv, TypeOK, StagedInv, Session
<1>6. PeriodInv'
  <2>1. HasOpenPause' = HasOpenPause /\ pauses' = pauses
    BY <1>1 DEF HasOpenPause
  <2>2. \A c \in Backends \ {b} : lock' = c \/ tx'[c].step = "worked"
                                 => lock' = lock /\ lock = c /\ asOf' = asOf
    BY <1>1, <1>2, LedgerAssumption DEF IInv, TypeOK
  <2>3. lock' = b => /\ asOf' = clock
                     /\ req.op = "pause" => ~HasOpenPause
                     /\ req.op = "resume" => \E p \in pauses : p.ended = Null /\ p.started < clock
    BY <1>1, LedgerAssumption DEF Admitted, Spends
  <2>4. step # "worked"
    BY <1>1
  <2>5. ASSUME NEW c \in Backends \ {b}
        PROVE  /\ lock' = c /\ tx'[c].req.op = "pause" => ~HasOpenPause'
               /\ lock' = c /\ tx'[c].req.op = "resume" =>
                    \E p \in pauses' : p.ended = Null /\ p.started < asOf'
               /\ tx'[c].step = "worked" /\ tx'[c].req.op \in {"pause", "resume"} =>
                    tx'[c].rows = {} /\ tx'[c].periods = Repaused(pauses', tx'[c].req.op, asOf')
    BY <1>2, <2>1, <2>2, <2>5 DEF IInv, PeriodInv
  <2> QED BY <1>2, <2>1, <2>3, <2>4, <2>5 DEF PeriodInv, Session
<1>7. FreeInv'
  BY <1>1, <1>2 DEF IInv, FreeInv, Session, HasOpenPause, Month
<1>8. PausesDisjoint' /\ FreeAllowanceOncePerMonth' /\ FreeNeverInPause'
  BY <1>1 DEF IInv, PausesDisjoint, FreeAllowanceOncePerMonth, FreeNeverInPause, Month
<1> QED BY <1>4, <1>5, <1>6, <1>7, <1>8 DEF IInv

(* Work under the lock keeps the invariant.                                *)
LEMMA WorkStep ==
  ASSUME IInv, NEW b \in Backends, Work(b)
  PROVE  IInv'
<1>1. lock = b /\ tx[b].step = "locked" /\ tx[b].stamp = asOf
  BY DEF Work, IInv, TypeOK, StagedInv
<1>2. /\ clock \in Nat /\ asOf \in 0..clock /\ serial \in 1..(MaxRows + 1)
      /\ tx[b].req \in Requests \cup {NoRequest} /\ tx[b].began \in 0..clock
  BY LedgerAssumption DEF IInv, TypeOK
<1>3. CASE WorkPause(b)
  <2>1. /\ UNCHANGED <<clock, ledger, pauses, serial, tier, lock, asOf>>
        /\ DOMAIN tx' = Backends
        /\ tx'[b] = Session("worked", tx[b].req, tx[b].began, asOf, {},
                            Repaused(pauses, tx[b].req.op, asOf))
        /\ \A c \in Backends \ {b} : tx'[c] = tx[c]
    BY <1>1, <1>3 DEF WorkPause, IInv, TypeOK
  <2>2. TypeOK'
    BY <1>1, <1>2, <2>1 DEF IInv, TypeOK, Session
  <2>3. StagedInv'
    BY <1>1, <2>1 DEF IInv, StagedInv, Session
  <2>4. PeriodInv'
    BY <1>1, <2>1 DEF IInv, PeriodInv, Session, HasOpenPause
  <2>5. FreeInv'
    BY <2>1 DEF IInv, FreeInv, Session, HasOpenPause, Month
  <2>6. PausesDisjoint' /\ FreeAllowanceOncePerMonth' /\ FreeNeverInPause'
    BY <2>1 DEF IInv, PausesDisjoint, FreeAllowanceOncePerMonth, FreeNeverInPause, Month
  <2> QED BY <2>2, <2>3, <2>4, <2>5, <2>6 DEF IInv
<1>4. CASE ~WorkPause(b)
  <2>1. PICK rows, added :
          /\ added \in 0..2
          /\ Stage(b, rows, added)
          /\ tx[b].req.op \notin {"pause", "resume", "none"}
          /\ \A r \in rows : r.kind \in RowKinds /\ r.at = clock
          /\ \A r \in rows : r.kind = "free" => r \in Derived
    BY <1>4, WorkStages DEF IInv
  <2>2. /\ UNCHANGED <<clock, ledger, pauses, tier, lock>>
        /\ asOf' = clock
        /\ serial' = serial + added /\ serial + added <= MaxRows + 1
        /\ DOMAIN tx' = Backends
        /\ tx'[b] = Session("worked", tx[b].req, tx[b].began, clock, rows, {})
        /\ \A c \in Backends \ {b} : tx'[c] = tx[c]
    BY <2>1 DEF Stage, IInv, TypeOK
  <2>3. 0..asOf \subseteq 0..asOf' /\ asOf' \in 0..clock
    BY <1>2, <2>2
  <2>4. serial' \in 1..(MaxRows + 1)
    BY <1>2, <2>1, <2>2, LedgerAssumption
  <2>5. TypeOK'
    BY <1>1, <1>2, <2>2, <2>3, <2>4 DEF IInv, TypeOK, Session
  <2>6. \A c \in Backends \ {b} : /\ tx[c].rows = {} /\ tx[c].step # "worked" /\ lock' # c
    BY <1>1, <2>2 DEF IInv, TypeOK, StagedInv
  <2>7. StagedInv'
    BY <2>1, <2>2, <2>6 DEF IInv, StagedInv, Session
  <2>8. PeriodInv'
    BY <2>1, <2>2, <2>6 DEF PeriodInv, Session
  <2>9. FreeInv'
    <3>1. \A r \in rows : r.kind = "free" =>
            /\ r = FreeMintRow /\ r.ref = Month(r.at) /\ ~HasOpenPause
            /\ \A q \in ledger : q.kind = "free" => q.ref # r.ref
      BY <2>1, DerivedRows
    <3>2. HasOpenPause' = HasOpenPause /\ tx'[b].rows = rows
      BY <2>2 DEF HasOpenPause, Session
    <3>3. \A c \in Backends : \A r \in tx'[c].rows : c = b /\ r \in rows
      BY <2>2, <2>6, <3>2
    <3> QED BY <2>2, <3>1, <3>2, <3>3 DEF FreeInv, Month
  <2>10. PausesDisjoint' /\ FreeAllowanceOncePerMonth' /\ FreeNeverInPause'
    BY <2>2 DEF IInv, PausesDisjoint, FreeAllowanceOncePerMonth, FreeNeverInPause, Month
  <2> QED BY <2>5, <2>7, <2>8, <2>9, <2>10 DEF IInv
<1> QED BY <1>3, <1>4

(* Opening a pause now, or closing the open one, keeps pauses disjoint and *)
(* puts no free grant inside one.                                          *)
LEMMA RepausedIsWellFormed ==
  ASSUME IInv, NEW op \in {"pause", "resume"},
         op = "pause" => ~HasOpenPause,
         op = "resume" => \E p \in pauses : p.ended = Null /\ p.started < asOf,
         pauses' = Repaused(pauses, op, asOf), asOf' = asOf, ledger' = ledger,
         UNCHANGED clock
  PROVE  /\ \A p \in pauses' : p.started \in 0..asOf /\ p.ended \in {Null} \cup 0..asOf
         /\ PausesDisjoint' /\ FreeNeverInPause'
<1>1. asOf \in Nat /\ Null = -1
  BY LedgerAssumption DEF IInv, TypeOK, Null
<1>2. \A p \in pauses : p.started \in 0..asOf /\ p.ended \in {Null} \cup 0..asOf
  BY DEF IInv, TypeOK
<1>3. \A r \in ledger : r.at \in 0..asOf
  BY DEF IInv, TypeOK
<1>4. CASE op = "pause"
  <2> DEFINE new == [started |-> asOf, ended |-> Null]
  <2>1. pauses' = pauses \cup {new} /\ new.started = asOf /\ new.ended = Null
    BY <1>4 DEF Repaused
  <2>2. \A p \in pauses : p.ended # Null /\ p.ended <= asOf
    BY <1>1, <1>2, <1>4 DEF HasOpenPause
  <2> HIDE DEF new
  <2>3. PausesDisjoint'
    BY <2>1, <2>2 DEF IInv, PausesDisjoint
  <2>4. FreeNeverInPause'
    BY <1>1, <1>3, <2>1 DEF IInv, FreeNeverInPause
  <2> QED BY <1>1, <1>2, <2>1, <2>3, <2>4
<1>5. CASE op = "resume"
  <2> DEFINE close(p) == IF p.ended = Null THEN [started |-> p.started, ended |-> asOf] ELSE p
  <2>1. pauses' = {close(p) : p \in pauses}
    BY <1>5 DEF Repaused
  <2>2. \A p \in pauses : /\ close(p).started = p.started
                          /\ p.ended # Null => close(p) = p
                          /\ p.ended = Null => close(p).ended = asOf
    OBVIOUS
  <2> HIDE DEF close
  <2>3. \A p \in pauses : close(p).started \in 0..asOf /\ close(p).ended \in {Null} \cup 0..asOf
    BY <1>1, <1>2, <2>2
  <2>4. ASSUME NEW p \in pauses, NEW q \in pauses, close(p) # close(q)
        PROVE  \/ close(p).ended # Null /\ close(p).ended <= close(q).started
               \/ close(q).ended # Null /\ close(q).ended <= close(p).started
    <3>1. \/ p.ended # Null /\ p.ended <= q.started
          \/ q.ended # Null /\ q.ended <= p.started
      BY <2>4 DEF IInv, PausesDisjoint
    <3> QED BY <2>2, <3>1
  <2>5. PausesDisjoint'
    BY <2>1, <2>4 DEF PausesDisjoint
  <2>6. FreeNeverInPause'
    BY <1>1, <1>3, <2>1, <2>2 DEF IInv, FreeNeverInPause
  <2> QED BY <2>1, <2>3, <2>5, <2>6
<1> QED BY <1>4, <1>5

(* What a commit adds is dated at the last observation.                    *)
LEMMA CommitAdds ==
  ASSUME IInv, NEW b \in Backends, Commit(b)
  PROVE  \E rows : ledger' = ledger \cup rows /\ \A r \in rows : r.at = asOf
BY DEF Commit, IInv, StagedInv

(* A commit keeps the invariant.                                           *)
LEMMA CommitStep ==
  ASSUME IInv, NEW b \in Backends, Commit(b)
  PROVE  IInv'
<1> DEFINE rows == tx[b].rows
           op   == tx[b].req.op
<1>1. /\ UNCHANGED <<clock, serial, tier, asOf>> /\ lock' = Nobody /\ lock = b
      /\ ledger' = ledger \cup rows
      /\ DOMAIN tx' = Backends /\ tx'[b] = Idle
      /\ \A c \in Backends \ {b} : tx'[c] = tx[c]
  BY DEF Commit, IInv, TypeOK
<1>2. /\ clock \in Nat /\ asOf \in 0..clock /\ Nobody \notin Backends
      /\ \A r \in rows : r.kind \in RowKinds /\ r.at = asOf
  BY LedgerAssumption DEF IInv, TypeOK, StagedInv
<1>3. /\ \A p \in pauses' : p.started \in 0..asOf /\ p.ended \in {Null} \cup 0..asOf
      /\ PausesDisjoint' /\ FreeNeverInPause'
  <2>1. CASE op \in {"pause", "resume"}
    <3>1. /\ op = "pause" => ~HasOpenPause
          /\ op = "resume" => \E p \in pauses : p.ended = Null /\ p.started < asOf
          /\ rows = {} /\ pauses' = Repaused(pauses, op, asOf)
      BY <1>1, <2>1 DEF Commit, IInv, PeriodInv
    <3> QED BY <1>1, <2>1, <3>1, RepausedIsWellFormed
  <2>2. CASE op \notin {"pause", "resume"}
    <3>1. pauses' = pauses
      BY <2>2 DEF Commit
    <3>2. \A p \in pauses : p.ended # Null => p.ended <= asOf
      BY <1>2 DEF IInv, TypeOK
    <3>3. \A r \in rows : r.kind = "free" => /\ \A p \in pauses : p.ended # Null
                                            /\ r.at = asOf
      BY <1>2 DEF IInv, FreeInv, HasOpenPause
    <3>4. \A p \in pauses : p.ended # Null => p.ended \in Nat
      BY DEF IInv, TypeOK
    <3>5. FreeNeverInPause'
      BY <1>1, <1>2, <3>1, <3>2, <3>3, <3>4 DEF IInv, FreeNeverInPause
    <3> QED BY <3>1, <3>5 DEF IInv, TypeOK, PausesDisjoint
  <2> QED BY <2>1, <2>2
<1>4. TypeOK'
  <2>1. \A c \in Backends \ {b} : tx'[c].step \notin {"locked", "worked"}
    BY <1>1 DEF IInv, TypeOK
  <2>2. /\ tx'[b].step = "idle" /\ tx'[b].req = NoRequest
        /\ tx'[b].began = 0 /\ tx'[b].stamp = 0
    BY <1>1 DEF Idle, Session
  <2>3. \A r \in ledger' : r.kind \in RowKinds /\ r.at \in 0..asOf
    BY <1>1, <1>2 DEF IInv, TypeOK
  <2> HIDE DEF rows, op
  <2> QED BY <1>1, <1>2, <1>3, <2>1, <2>2, <2>3 DEF IInv, TypeOK
<1>5. \A c \in Backends : tx'[c].rows = {} /\ lock' # c /\ tx'[c].step # "worked"
  BY <1>1, <1>2 DEF IInv, TypeOK, StagedInv, Idle, Session
<1>6. StagedInv' /\ PeriodInv' /\ FreeInv'
  BY <1>5 DEF StagedInv, PeriodInv, FreeInv
<1>7. FreeAllowanceOncePerMonth'
  <2>1. \A r \in rows : r.kind = "free" =>
          /\ r.ref = Month(r.at)
          /\ \A q \in ledger : q.kind = "free" => q.ref # r.ref
          /\ \A q \in rows : q.kind = "free" => q = r
    BY DEF IInv, FreeInv
  <2> HIDE DEF rows, op
  <2> QED BY <1>1, <2>1 DEF IInv, FreeAllowanceOncePerMonth, Month
<1> QED BY <1>3, <1>4, <1>6, <1>7 DEF IInv

(* Every step keeps the invariant.                                         *)
LEMMA StepIInv == IInv /\ [Next]_vars => IInv'
<1> SUFFICES ASSUME IInv, [Next]_vars PROVE IInv'
  OBVIOUS
<1>1. CASE Tick \/ ChangeTier
  BY <1>1, QuietStep
<1>2. ASSUME NEW b \in Backends,
             (\E req \in Requests : Begin(b, req)) \/ TakeLock(b) \/ Refuse(b) \/ Rollback(b)
      PROVE  IInv'
  BY <1>2, SessionStep
<1>3. ASSUME NEW b \in Backends, Work(b) PROVE IInv'
  BY <1>3, WorkStep
<1>4. ASSUME NEW b \in Backends, Commit(b) PROVE IInv'
  BY <1>4, CommitStep
<1>5. CASE UNCHANGED vars
  BY <1>5 DEF vars, IInv, TypeOK, StagedInv, PeriodInv, PausesDisjoint, FreeInv,
              FreeAllowanceOncePerMonth, FreeNeverInPause, HasOpenPause, Month
<1> QED BY <1>1, <1>2, <1>3, <1>4, <1>5 DEF Next

(* The invariant always holds.                                             *)
LEMMA IInvHolds == Spec => []IInv
BY InitIInv, StepIInv, PTL DEF Spec

-----------------------------------------------------------------------------
(* Type correctness; only the lock holder is at work.                      *)
THEOREM LedgerTypeOK == Spec => []TypeOK
BY IInvHolds, PTL DEF IInv

(* recordPauseStart, recordPauseEnd: pauses never overlap, one at most open*)
THEOREM LedgerPausesDisjoint == Spec => []PausesDisjoint
BY IInvHolds, PTL DEF IInv

(* mintFreeAllowanceIfDue: one free grant a month, whatever sessions race, *)
(* roll back or change tier.                                               *)
THEOREM LedgerFreeOncePerMonth == Spec => []FreeAllowanceOncePerMonth
BY IInvHolds, PTL DEF IInv

(* mintFreeAllowanceIfDue: never into a pause, the grant not being dated   *)
(* inside one that is recorded later either.                               *)
THEOREM LedgerFreeNeverInPause == Spec => []FreeNeverInPause
BY IInvHolds, PTL DEF IInv

(* mintFreeAllowanceIfDue: one free grant a month, and none that a pause   *)
(* keeps alive.                                                            *)
THEOREM LedgerFreeMintedOnce == Spec => []FreeMintedOnce
BY LedgerFreeOncePerMonth, LedgerFreeNeverInPause, PTL DEF FreeMintedOnce

(* The write clock rule of ledger.ts: no step ever adds to, or takes from, *)
(* the rows that a replay at an instant already looked at reads.           *)
THEOREM LedgerWriteClock ==
  Spec => [][\A t \in Int : t < asOf => RowsUpTo(ledger', t) = RowsUpTo(ledger, t)]_vars
<1> DEFINE Fixed == \A t \in Int : t < asOf => RowsUpTo(ledger', t) = RowsUpTo(ledger, t)
<1>1. IInv /\ Next => Fixed
  <2> SUFFICES ASSUME IInv, Next PROVE Fixed
    OBVIOUS
  <2>1. asOf \in Int
    BY LedgerAssumption DEF IInv, TypeOK
  <2>2. ASSUME NEW b \in Backends, Commit(b) PROVE Fixed
    <3>1. PICK rows : ledger' = ledger \cup rows /\ \A r \in rows : r.at = asOf
      BY <2>2, CommitAdds
    <3> QED BY <2>1, <3>1 DEF RowsUpTo
  <2>3. ASSUME NEW b \in Backends, Work(b) PROVE ledger' = ledger
    BY <2>3 DEF Work, WorkRead, WorkSpend, WorkRefund, WorkLot, WorkPause, Stage
  <2>4. (\A b \in Backends : ~Commit(b)) => ledger' = ledger
    BY <2>3 DEF Next, Tick, ChangeTier, Begin, TakeLock, Refuse, Rollback
  <2> QED BY <2>2, <2>4 DEF RowsUpTo
<1>2. IInv /\ [Next]_vars => [Fixed]_vars
  BY <1>1
<1> QED BY <1>2, IInvHolds, PTL DEF Spec

-----------------------------------------------------------------------------
(***************************************************************************)
(* Refunds keep to their budgets.  Debits and refunds are numbered by the  *)
(* serial, so a debit has its number to itself and rows are numbered in the*)
(* order they come; and what a lock holder staged is one of them at most,  *)
(* new to the ledger, and a refund among it still fits its debit.          *)
(***************************************************************************)
MoneyKinds == {"debit", "refund"}

Numbered(r) == r.id \in Nat /\ r.id < serial /\ r.delta \in Int

(* The refunds by a debit's own reference, and those by its claim's.       *)
ByDebit(rows, debit) == RefundsUnder(rows, {debit})
ByClaim(rows, debit) == RefundsUnder(rows, {ClaimOf(debit)})

(* The refunds the claim's budget counts: its own and those before it.     *)
ByClaimAndEarlier(rows, debit) ==
  {r \in ByDebit(rows, debit) : \A c \in ByClaim(rows, debit) : r.id < c.id}
    \cup ByClaim(rows, debit)

(* What a set of rows adds up to.                                          *)
Given(S) == SumOf(LAMBDA r : r.delta, S)

WithinBudget(rows, d) ==
  /\ Given(ByDebit(rows, d.id)) <= -d.delta
  /\ Given(ByClaimAndEarlier(rows, d.id)) <= -d.delta
  /\ \A q, r \in ByClaim(rows, d.id) : q = r

GivenWithinBudget == \A d \in ledger : d.kind = "debit" => WithinBudget(ledger, d)

(* A refund's reference leads to a debit numbered before the serial.       *)
RefersBack(r) == r.ref \in Int /\ DebitOf(r.ref) \in Nat /\ DebitOf(r.ref) < serial

BookedInv ==
  /\ IsFiniteSet({r \in ledger : r.kind = "refund"})
  /\ \A r \in ledger : r.kind \in MoneyKinds => Numbered(r)
  /\ \A r \in ledger : r.kind = "refund" => RefersBack(r)
  /\ \A d, e \in ledger : d.kind = "debit" /\ e.kind = "debit" /\ d.id = e.id => d = e

(* A refund that joins keeps to the budget it sees.                        *)
FitsDebit(rows, m, d) ==
  /\ m.ref \in {d.id, ClaimOf(d.id)}
  /\ m.ref = ClaimOf(d.id) => ByClaim(rows, d.id) = {}
  /\ m.delta + Given(ByDebit(rows, d.id)) <= -d.delta

FitsIn(rows, m) ==
  /\ Numbered(m)
  /\ \A r \in rows : r.kind \in MoneyKinds => r = m
  /\ \A r \in ledger : r.kind \in MoneyKinds => r.id < m.id
  /\ m.kind = "debit" => /\ m.delta <= 0
                         /\ \A r \in ledger : r.kind = "refund" => DebitOf(r.ref) # m.id
  /\ m.kind = "refund" =>
       /\ RefersBack(m)
       /\ \A d \in ledger : d.kind = "debit" /\ d.id = DebitOf(m.ref) => FitsDebit(ledger, m, d)

MoneyInv == \A b \in Backends : \A m \in tx[b].rows : m.kind \in MoneyKinds =>
              FitsIn(tx[b].rows, m)

RefundInv == BookedInv /\ MoneyInv /\ GivenWithinBudget

(* A debit is referred to by its number and by its claim, and by nothing   *)
(* else.                                                                   *)
LEMMA ReferencesOfDebit ==
  ASSUME NEW id \in Nat
  PROVE  /\ ClaimOf(id) \in Int /\ ClaimOf(id) # id
         /\ DebitOf(id) = id /\ DebitOf(ClaimOf(id)) = id
         /\ \A ref \in Int : DebitOf(ref) = id => ref \in {id, ClaimOf(id)}
BY DEF ClaimOf, DebitOf

(* What the budgets say, as sums of rows.                                  *)
LEMMA BudgetsAreGiven == GivenWithinBudget => RefundsWithinBudget
BY DEF Given, ByDebit, ByClaim, ByClaimAndEarlier, WithinBudget, GivenWithinBudget,
       RefundsWithinBudget

(* The sum of rows as a total of their weights.                            *)
LEMMA GivenIsTotal ==
  ASSUME NEW S, IsFiniteSet(S), NEW w, \A r \in S : w[r] = r.delta
  PROVE  Given(S) = Total(w, S)
<1> DEFINE Iter == CHOOSE F : F = [s \in SUBSET S |->
               IF s = {} THEN 0
               ELSE (CHOOSE x \in s : TRUE).delta + F[s \ {CHOOSE x \in s : TRUE}]]
           v == [r \in S |-> r.delta]
<1>1. Given(S) = Iter[S]
  BY DEF Given, SumOf, MapThenSumSet, MapThenFoldSet
<1>2. PICK F : Sums(v, S, F)
  BY SumsExist
<1>3. \A s \in SUBSET S : s # {} => v[LastOf(s)] = LastOf(s).delta
  BY Smaller
<1>4. F = [s \in SUBSET S |->
               IF s = {} THEN 0
               ELSE (CHOOSE x \in s : TRUE).delta + F[s \ {CHOOSE x \in s : TRUE}]]
  <2>1. F = [s \in SUBSET S |-> IF s = {} THEN 0 ELSE LastOf(s).delta + F[s \ {LastOf(s)}]]
    <3> HIDE DEF v
    <3> QED BY <1>2, <1>3 DEF Sums, SumAt
  <2> QED BY <2>1, Zenon DEF LastOf
<1>5. Iter = [s \in SUBSET S |->
               IF s = {} THEN 0
               ELSE (CHOOSE x \in s : TRUE).delta + Iter[s \ {CHOOSE x \in s : TRUE}]]
  BY <1>4, Zenon
<1>6. Sums(v, S, Iter)
  <2>1. Iter = [s \in SUBSET S |-> IF s = {} THEN 0 ELSE LastOf(s).delta + Iter[s \ {LastOf(s)}]]
    <3> HIDE DEF Iter
    <3> QED BY <1>5, Zenon DEF LastOf
  <2> HIDE DEF Iter, v
  <2> QED BY <1>3, <2>1 DEF Sums, SumAt
<1>7. PICK G : Sums(w, S, G) /\ Total(w, S) = G[S]
  BY TotalUnfolds
<1>8. \A x \in S : v[x] = w[x]
  OBVIOUS
<1> HIDE DEF Iter, v
<1>9. G[S] = Iter[S]
  BY <1>6, <1>7, <1>8, SumsAgree
<1> QED BY <1>1, <1>7, <1>9

(* A row that joins adds its delta.                                        *)
LEMMA GivenAdds ==
  ASSUME NEW S, IsFiniteSet(S), NEW m, m \notin S, m.delta \in Int,
         \A r \in S : r.delta \in Int
  PROVE  Given(S \cup {m}) = Given(S) + m.delta /\ Given(S) \in Int
<1> DEFINE w == [r \in S \cup {m} |-> r.delta]
<1>1. IsFiniteSet(S \cup {m})
  BY FS_AddElement
<1>2. /\ \A r \in S \cup {m} : w[r] = r.delta /\ w[r] \in Int
      /\ \A r \in S : w[r] = r.delta
      /\ w[m] = m.delta
  OBVIOUS
<1> HIDE DEF w
<1>3. Total(w, S \cup {m}) = Total(w, S) + w[m] /\ Total(w, S) \in Int
  BY <1>2, SumsAdd
<1>4. Given(S) = Total(w, S)
  BY <1>2, GivenIsTotal
<1>5. Given(S \cup {m}) = Total(w, S \cup {m})
  BY <1>1, <1>2, GivenIsTotal
<1> QED BY <1>2, <1>3, <1>4, <1>5

(* No rows give nothing.                                                   *)
LEMMA NothingGiven == Given({}) = 0
<1> DEFINE w == [r \in {} |-> r.delta]
<1>1. IsFiniteSet({}) /\ \A r \in {} : w[r] = r.delta /\ w[r] = 0
  BY FS_EmptySet
<1> HIDE DEF w
<1>2. Total(w, {}) = 0
  BY <1>1, SumsOfNothing
<1>3. Given({}) = Total(w, {})
  BY <1>1, GivenIsTotal
<1> QED BY <1>2, <1>3

(* Steps that add no row keep what was booked and staged.                  *)
LEMMA MoneyKept ==
  ASSUME IInv, RefundInv, ledger' = ledger, serial' = serial,
         \A b \in Backends : tx'[b].rows = tx[b].rows \/ tx'[b].rows = {}
  PROVE  RefundInv'
<1>1. \A r : Numbered(r)' <=> Numbered(r)
  BY DEF Numbered
<1>2. BookedInv'
  BY DEF RefundInv, BookedInv, Numbered, RefersBack
<1>3. \A rows, m : FitsIn(rows, m)' <=> FitsIn(rows, m)
  BY DEF FitsIn, Numbered, RefersBack
<1>4. MoneyInv'
  BY <1>3 DEF RefundInv, MoneyInv
<1>5. GivenWithinBudget'
  BY DEF RefundInv, GivenWithinBudget
<1> QED BY <1>2, <1>4, <1>5 DEF RefundInv

(* What a debit or a refund stages of either kind is one row, numbered     *)
(* next; a refund of it fits its debit.                                    *)
LEMMA WorkMoney ==
  ASSUME IInv, RefundInv, NEW b \in Backends, Work(b), ~WorkPause(b)
  PROVE  \E rows : \E added \in 0..2 :
           /\ Stage(b, rows, added)
           /\ \/ \A r \in rows : r.kind \notin MoneyKinds
              \/ \E m \in rows :
                   /\ \A r \in rows : r.kind \in MoneyKinds => r = m
                   /\ m.id \in Nat /\ serial <= m.id /\ m.id < serial + added
                   /\ m.delta \in Int
                   /\ \/ m.kind = "debit" /\ m.delta <= 0
                      \/ /\ m.kind = "refund"
                         /\ \E d \in ledger : d.kind = "debit" /\ FitsDebit(ledger, m, d)
<1>0. serial \in Nat /\ NextId \in {serial, serial + 1} /\ NextId \in Nat
  BY DEF IInv, TypeOK, NextId
<1>1. \A r \in Derived : r.kind \notin MoneyKinds
  BY DerivedRows DEF MoneyKinds
<1>2. CASE WorkRead(b)
  <2>1. NextId - serial \in 0..2
    BY <1>0
  <2> QED BY <1>1, <1>2, <2>1 DEF WorkRead
<1>3. CASE WorkSpend(b)
  <2> DEFINE kind == IF tx[b].req.op = "debit" THEN "debit" ELSE "adjust"
             row  == Row(kind, NextId, Null, -tx[b].req.amount, clock, Null)
             rows == Derived \cup {row}
             added == NextId + 1 - serial
  <2>1. added \in 0..2 /\ NextId < serial + added /\ serial <= NextId
    BY <1>0
  <2>2. tx[b].req.amount \in Nat
    <3>1. tx[b].req \in Requests \cup {NoRequest} /\ tx[b].req.op \in Spends
      BY <1>3 DEF WorkSpend, IInv, TypeOK
    <3> QED BY <3>1, LedgerAssumption DEF RequestSpace, NoRequest, Spends, Lots
  <2>3. Stage(b, rows, added)
    BY <1>3 DEF WorkSpend
  <2>4. /\ row \in rows /\ row.id = NextId /\ row.kind \in {"debit", "adjust"}
        /\ row.delta \in Int /\ row.delta <= 0
    BY <2>2 DEF Row
  <2>5. \A r \in rows : r.kind \in MoneyKinds => r = row
    BY <1>1
  <2> HIDE DEF row, kind, rows, added
  <2>6. CASE row.kind = "debit"
    BY <1>0, <2>1, <2>3, <2>4, <2>5, <2>6
  <2>7. CASE row.kind = "adjust"
    <3>1. \A r \in rows : r.kind \notin MoneyKinds
      BY <2>5, <2>7 DEF MoneyKinds
    <3> QED BY <2>1, <2>3, <3>1
  <2> QED BY <2>4, <2>6, <2>7
<1>4. CASE WorkRefund(b)
  <2> DEFINE added == NextId + 1 - serial
  <2>1. added \in 0..2 /\ NextId < serial + added /\ serial <= NextId
    BY <1>0
  <2>2. PICK d, exp, ref :
          /\ d \in ledger \cup Derived
          /\ d.kind = "debit"
          /\ ref = IF tx[b].req.op = "settle" THEN ClaimOf(d.id) ELSE d.id
          /\ tx[b].req.op = "settle" => RefundsUnder(ledger \cup Derived, {ref}) = {}
          /\ tx[b].req.amount + Refunded(ledger \cup Derived, d.id, ref) <= -d.delta
          /\ Stage(b, Derived \cup {Row("refund", NextId, ref, tx[b].req.amount, clock, exp)},
                   added)
    BY <1>4, Zenon DEF WorkRefund
  <2> DEFINE row  == Row("refund", NextId, ref, tx[b].req.amount, clock, exp)
             rows == Derived \cup {row}
  <2>3. tx[b].req.amount \in Nat
    <3>1. tx[b].req \in Requests \cup {NoRequest} /\ tx[b].req.op \in Refunds
      BY <1>4 DEF WorkRefund, IInv, TypeOK
    <3> QED BY <3>1, LedgerAssumption DEF RequestSpace, NoRequest, Spends, Refunds, Lots
  <2>4. d \in ledger
    BY <1>1, <2>2 DEF MoneyKinds
  <2>5. \A refs : RefundsUnder(ledger \cup Derived, refs) = RefundsUnder(ledger, refs)
    BY <1>1 DEF RefundsUnder, MoneyKinds
  <2>6. /\ row \in rows /\ row.id = NextId /\ row.kind = "refund" /\ row.ref = ref
        /\ row.delta = tx[b].req.amount
    BY DEF Row
  <2>7. \A r \in rows : r.kind \in MoneyKinds => r = row
    BY <1>1
  <2>8. /\ ref = ClaimOf(d.id) /\ ref # d.id => ByClaim(ledger, d.id) = {}
        /\ tx[b].req.amount + Given(ByDebit(ledger, d.id)) <= -d.delta
    <3>1. ref # d.id => tx[b].req.op = "settle" /\ ref = ClaimOf(d.id)
      BY <2>2
    <3>2. ref # d.id => ByClaim(ledger, d.id) = {}
      BY <2>2, <2>5, <3>1 DEF ByClaim
    <3>3. RefundsUnder(ledger, {d.id, ref}) = ByDebit(ledger, d.id)
      BY <2>2, <3>2 DEF ByClaim, ByDebit, RefundsUnder
    <3>4. Refunded(ledger \cup Derived, d.id, ref) = Given(ByDebit(ledger, d.id))
      BY <2>5, <3>3 DEF Refunded, Given
    <3> QED BY <2>2, <3>2, <3>4
  <2>9. Stage(b, rows, added)
    BY <2>2
  <2>10. FitsDebit(ledger, row, d)
    <3>1. d.id # ClaimOf(d.id)
      BY <2>2, <2>4, ReferencesOfDebit DEF RefundInv, BookedInv, Numbered, MoneyKinds
    <3>2. row.ref \in {d.id, ClaimOf(d.id)}
      BY <2>2, <2>6
    <3> QED BY <2>6, <2>8, <3>1, <3>2 DEF FitsDebit
  <2> HIDE DEF row, rows, added
  <2> QED BY <1>0, <2>1, <2>2, <2>3, <2>4, <2>6, <2>7, <2>9, <2>10
<1>5. CASE WorkLot(b)
  <2> DEFINE row == Row(tx[b].req.op, serial, Null, tx[b].req.amount, clock, tx[b].req.exp)
  <2>1. row.kind \in Lots /\ Stage(b, {row}, 1)
    BY <1>5 DEF WorkLot, Row
  <2>2. \A r \in {row} : r.kind \notin MoneyKinds
    BY <2>1 DEF Lots, MoneyKinds
  <2> HIDE DEF row
  <2> QED BY <2>1, <2>2
<1> QED BY <1>2, <1>3, <1>4, <1>5 DEF Work

(* Work under the lock keeps refunds within their budgets.                 *)
LEMMA WorkKeepsMoney ==
  ASSUME IInv, RefundInv, NEW b \in Backends, Work(b)
  PROVE  RefundInv'
<1>1. lock = b /\ serial \in Nat
  BY DEF Work, IInv, TypeOK
<1>2. CASE WorkPause(b)
  <2>1. /\ ledger' = ledger /\ serial' = serial
        /\ \A c \in Backends : tx'[c].rows = tx[c].rows \/ tx'[c].rows = {}
    BY <1>2 DEF WorkPause, Session, IInv, TypeOK
  <2> QED BY <2>1, MoneyKept
<1>3. CASE ~WorkPause(b)
  <2>1. PICK rows, added :
          /\ added \in 0..2 /\ Stage(b, rows, added)
          /\ \/ \A r \in rows : r.kind \notin MoneyKinds
             \/ \E m \in rows :
                  /\ \A r \in rows : r.kind \in MoneyKinds => r = m
                  /\ m.id \in Nat /\ serial <= m.id /\ m.id < serial + added
                  /\ m.delta \in Int
                  /\ \/ m.kind = "debit" /\ m.delta <= 0
                     \/ /\ m.kind = "refund"
                        /\ \E d \in ledger : d.kind = "debit" /\ FitsDebit(ledger, m, d)
    BY <1>3, WorkMoney
  <2>2. /\ ledger' = ledger /\ serial' = serial + added /\ tx'[b].rows = rows
        /\ \A c \in Backends \ {b} : tx'[c] = tx[c]
    BY <2>1 DEF Stage, Session, IInv, TypeOK
  <2>3. \A c \in Backends \ {b} : tx'[c].rows = {}
    BY <1>1, <2>2 DEF IInv, TypeOK, StagedInv
  <2>4. serial' \in Nat /\ serial <= serial'
    BY <1>1, <2>1, <2>2
  <2>5. \A r : Numbered(r) => Numbered(r)'
    BY <1>1, <2>4 DEF Numbered
  <2>6. BookedInv'
    <3>1. \A r \in ledger : r.kind = "refund" => RefersBack(r)'
      BY <1>1, <2>4 DEF RefundInv, BookedInv, RefersBack
    <3> QED BY <2>2, <2>5, <3>1 DEF RefundInv, BookedInv
  <2>7. GivenWithinBudget'
    BY <2>2 DEF RefundInv, GivenWithinBudget
  <2>8. ASSUME NEW m \in rows, m.kind \in MoneyKinds PROVE FitsIn(rows, m)'
    <3>1. /\ \A r \in rows : r.kind \in MoneyKinds => r = m
          /\ m.id \in Nat /\ serial <= m.id /\ m.id < serial'
          /\ m.delta \in Int
          /\ \/ m.kind = "debit" /\ m.delta <= 0
             \/ /\ m.kind = "refund"
                /\ \E d \in ledger : d.kind = "debit" /\ FitsDebit(ledger, m, d)
      BY <2>1, <2>2, <2>8
    <3>2. Numbered(m)'
      BY <3>1 DEF Numbered
    <3>3. \A r \in ledger : r.kind \in MoneyKinds => r.id < m.id
      BY <1>1, <3>1 DEF RefundInv, BookedInv, Numbered
    <3>4. \A r \in ledger : r.kind = "refund" => DebitOf(r.ref) # m.id
      BY <1>1, <3>1 DEF RefundInv, BookedInv, RefersBack
    <3>5. m.kind = "refund" =>
            /\ RefersBack(m)'
            /\ \A d \in ledger : d.kind = "debit" /\ d.id = DebitOf(m.ref) => FitsDebit(ledger, m, d)
      <4>1. SUFFICES ASSUME m.kind = "refund"
                     PROVE  /\ RefersBack(m)'
                            /\ \A d \in ledger : d.kind = "debit" /\ d.id = DebitOf(m.ref) =>
                                 FitsDebit(ledger, m, d)
        OBVIOUS
      <4>2. PICK d \in ledger : d.kind = "debit" /\ FitsDebit(ledger, m, d)
        BY <3>1, <4>1
      <4>3. d.id \in Nat /\ d.id < serial /\ m.ref \in {d.id, ClaimOf(d.id)}
        BY <4>2 DEF RefundInv, BookedInv, Numbered, MoneyKinds, FitsDebit
      <4>4. m.ref \in Int /\ DebitOf(m.ref) = d.id
        BY <4>3, ReferencesOfDebit
      <4>5. \A e \in ledger : e.kind = "debit" /\ e.id = d.id => e = d
        BY <4>2 DEF RefundInv, BookedInv
      <4>6. RefersBack(m)'
        BY <1>1, <2>4, <4>3, <4>4 DEF RefersBack
      <4> QED BY <4>2, <4>4, <4>5, <4>6
    <3> QED BY <2>2, <3>1, <3>2, <3>3, <3>4, <3>5 DEF FitsIn
  <2>9. MoneyInv'
    BY <2>2, <2>3, <2>8 DEF MoneyInv
  <2> QED BY <2>6, <2>7, <2>9 DEF RefundInv
<1> QED BY <1>2, <1>3

(* A commit keeps refunds within their budgets.                            *)
LEMMA CommitKeepsMoney ==
  ASSUME IInv, RefundInv, NEW b \in Backends, Commit(b)
  PROVE  RefundInv'
<1> DEFINE rows == tx[b].rows
<1>1. /\ ledger' = ledger \cup rows /\ serial' = serial
      /\ \A c \in Backends : tx'[c].rows = {}
  <2>1. lock = b /\ DOMAIN tx = Backends /\ \A c \in Backends \ {b} : tx[c].rows = {}
    BY DEF Commit, IInv, TypeOK, StagedInv
  <2> QED BY <2>1 DEF Commit, Idle, Session
<1>2. \A m \in rows : m.kind \in MoneyKinds => FitsIn(rows, m)
  BY DEF RefundInv, MoneyInv
<1> HIDE DEF rows
<1>3. MoneyInv'
  BY <1>1 DEF MoneyInv
<1>4. BookedInv'
  <2>1. IsFiniteSet({r \in ledger' : r.kind = "refund"})
    <3>1. CASE \E m \in rows : m.kind = "refund"
      <4>1. PICK m \in rows : m.kind = "refund"
        BY <3>1
      <4>2. {r \in ledger' : r.kind = "refund"} = {r \in ledger : r.kind = "refund"} \cup {m}
        BY <1>1, <1>2, <4>1 DEF FitsIn, MoneyKinds
      <4> QED BY <4>2, FS_AddElement DEF RefundInv, BookedInv
    <3>2. CASE ~\E m \in rows : m.kind = "refund"
      <4>1. {r \in ledger' : r.kind = "refund"} = {r \in ledger : r.kind = "refund"}
        BY <1>1, <3>2
      <4> QED BY <4>1 DEF RefundInv, BookedInv
    <3> QED BY <3>1, <3>2
  <2>2. \A r \in ledger' : r.kind \in MoneyKinds => Numbered(r)'
    BY <1>1, <1>2 DEF RefundInv, BookedInv, FitsIn, Numbered
  <2>3. \A r \in ledger' : r.kind = "refund" => RefersBack(r)'
    BY <1>1, <1>2 DEF RefundInv, BookedInv, FitsIn, MoneyKinds, RefersBack
  <2>4. \A d, e \in ledger' : d.kind = "debit" /\ e.kind = "debit" /\ d.id = e.id => d = e
    <3>1. \A r \in ledger : \A m \in rows : r.kind \in MoneyKinds /\ m.kind \in MoneyKinds =>
            r.id # m.id
      BY <1>2 DEF RefundInv, BookedInv, FitsIn, Numbered
    <3> QED BY <1>1, <1>2, <3>1 DEF RefundInv, BookedInv, FitsIn, MoneyKinds
  <2> QED BY <2>1, <2>2, <2>3, <2>4 DEF BookedInv
<1>5. ASSUME NEW d \in ledger', d.kind = "debit"
      PROVE  WithinBudget(ledger', d)
  <2>0. d.id \in Nat /\ d.id # ClaimOf(d.id) /\ d.delta \in Int
    BY <1>4, <1>5, ReferencesOfDebit DEF BookedInv, Numbered, MoneyKinds
  <2>1. CASE d \in rows
    <3>1. \A r \in ledger : r.kind = "refund" => r.ref \notin {d.id, ClaimOf(d.id)}
      BY <1>2, <1>5, <2>0, <2>1, ReferencesOfDebit DEF FitsIn, MoneyKinds
    <3>2. ByDebit(ledger', d.id) = {} /\ ByClaim(ledger', d.id) = {}
      BY <1>1, <1>2, <1>5, <2>1, <3>1 DEF ByDebit, ByClaim, RefundsUnder, FitsIn, MoneyKinds
    <3>3. ByClaimAndEarlier(ledger', d.id) = {}
      BY <3>2 DEF ByClaimAndEarlier
    <3>4. d.delta <= 0
      BY <1>2, <1>5, <2>1 DEF FitsIn, MoneyKinds
    <3> QED BY <2>0, <3>2, <3>3, <3>4, NothingGiven DEF WithinBudget
  <2>2. CASE d \in ledger /\ \E m \in rows : m.kind = "refund" /\ DebitOf(m.ref) = d.id
    <3>1. PICK m \in rows : m.kind = "refund" /\ DebitOf(m.ref) = d.id
      BY <2>2
    <3>2. /\ m.delta \in Int /\ m.id \in Nat
          /\ \A r \in rows : r.kind = "refund" => r = m
          /\ \A r \in ledger : r.kind = "refund" => r.id \in Nat /\ r.id < m.id
          /\ m.ref \in {d.id, ClaimOf(d.id)}
          /\ m.ref = ClaimOf(d.id) => ByClaim(ledger, d.id) = {}
          /\ m.delta + Given(ByDebit(ledger, d.id)) <= -d.delta
      BY <1>2, <1>5, <2>2, <3>1 DEF FitsIn, FitsDebit, MoneyKinds, Numbered, RefundInv, BookedInv
    <3>3. m \notin ledger
      BY <3>1, <3>2
    <3>4. WithinBudget(ledger, d)
      BY <1>5, <2>2 DEF RefundInv, GivenWithinBudget
    <3>5. Given(ByDebit(ledger, d.id) \cup {m}) <= -d.delta
      <4>1. ByDebit(ledger, d.id) \in SUBSET {r \in ledger : r.kind = "refund"}
        BY DEF ByDebit, RefundsUnder
      <4>2. IsFiniteSet(ByDebit(ledger, d.id))
        BY <4>1, FS_Subset DEF RefundInv, BookedInv
      <4>3. \A r \in ByDebit(ledger, d.id) : r.delta \in Int
        BY <4>1 DEF RefundInv, BookedInv, Numbered, MoneyKinds
      <4>4. m \notin ByDebit(ledger, d.id)
        BY <3>3, <4>1
      <4>5. /\ Given(ByDebit(ledger, d.id) \cup {m}) = Given(ByDebit(ledger, d.id)) + m.delta
            /\ Given(ByDebit(ledger, d.id)) \in Int
        BY <3>2, <4>2, <4>3, <4>4, GivenAdds
      <4> QED BY <2>0, <3>2, <4>5
    <3>6. CASE m.ref = d.id
      <4>1. /\ ByDebit(ledger', d.id) = ByDebit(ledger, d.id) \cup {m}
            /\ ByClaim(ledger', d.id) = ByClaim(ledger, d.id)
        BY <1>1, <2>0, <3>1, <3>2, <3>6 DEF ByDebit, ByClaim, RefundsUnder
      <4>2. CASE ByClaim(ledger, d.id) = {}
        <5>1. ByClaimAndEarlier(ledger', d.id) = ByDebit(ledger', d.id)
          BY <4>1, <4>2 DEF ByClaimAndEarlier
        <5> QED BY <3>5, <4>1, <4>2, <5>1 DEF WithinBudget
      <4>3. CASE ByClaim(ledger, d.id) # {}
        <5>1. PICK c \in ByClaim(ledger, d.id) : c.id \in Nat /\ c.id < m.id
          BY <3>2, <4>3 DEF ByClaim, RefundsUnder
        <5>2. ByClaimAndEarlier(ledger', d.id) = ByClaimAndEarlier(ledger, d.id)
          <6>1. ~(m.id < c.id)
            BY <3>2, <5>1
          <6> QED BY <4>1, <5>1, <6>1 DEF ByClaimAndEarlier
        <5> QED BY <3>4, <3>5, <4>1, <5>2 DEF WithinBudget
      <4> QED BY <4>2, <4>3
    <3>7. CASE m.ref = ClaimOf(d.id)
      <4>1. /\ ByDebit(ledger', d.id) = ByDebit(ledger, d.id)
            /\ ByClaim(ledger', d.id) = {m}
        <5>1. ByClaim(ledger', d.id) = ByClaim(ledger, d.id) \cup {m}
          BY <1>1, <3>1, <3>2, <3>7 DEF ByClaim, RefundsUnder
        <5>2. ByDebit(ledger', d.id) = ByDebit(ledger, d.id)
          BY <1>1, <2>0, <3>2, <3>7 DEF ByDebit, RefundsUnder
        <5> QED BY <3>2, <3>7, <5>1, <5>2
      <4>2. \A r \in ByDebit(ledger, d.id) : r.id < m.id
        BY <3>2 DEF ByDebit, RefundsUnder
      <4>3. ByClaimAndEarlier(ledger', d.id) = ByDebit(ledger, d.id) \cup {m}
        BY <4>1, <4>2 DEF ByClaimAndEarlier
      <4> QED BY <3>4, <3>5, <4>1, <4>3 DEF WithinBudget
    <3> QED BY <3>2, <3>6, <3>7
  <2>3. CASE d \in ledger /\ ~\E m \in rows : m.kind = "refund" /\ DebitOf(m.ref) = d.id
    <3>1. \A m \in rows : m.kind = "refund" => m.ref \notin {d.id, ClaimOf(d.id)}
      BY <2>0, <2>3, ReferencesOfDebit
    <3>2. /\ ByDebit(ledger', d.id) = ByDebit(ledger, d.id)
          /\ ByClaim(ledger', d.id) = ByClaim(ledger, d.id)
      BY <1>1, <3>1 DEF ByDebit, ByClaim, RefundsUnder
    <3>3. ByClaimAndEarlier(ledger', d.id) = ByClaimAndEarlier(ledger, d.id)
      BY <3>2 DEF ByClaimAndEarlier
    <3>4. WithinBudget(ledger, d)
      BY <1>5, <2>3 DEF RefundInv, GivenWithinBudget
    <3> QED BY <3>2, <3>3, <3>4 DEF WithinBudget
  <2> QED BY <1>1, <2>1, <2>2, <2>3
<1>6. GivenWithinBudget'
  BY <1>5 DEF GivenWithinBudget
<1> QED BY <1>3, <1>4, <1>6 DEF RefundInv

(* An empty ledger refunds nothing.                                        *)
LEMMA RefundInitially == Init => RefundInv
<1> SUFFICES ASSUME Init PROVE RefundInv
  OBVIOUS
<1>1. ledger = {} /\ \A b \in Backends : tx[b].rows = {}
  BY DEF Init, Idle, Session
<1>2. {r \in ledger : r.kind = "refund"} = {}
  BY <1>1
<1>3. BookedInv
  BY <1>1, <1>2, FS_EmptySet DEF BookedInv
<1> QED BY <1>1, <1>3 DEF RefundInv, MoneyInv, GivenWithinBudget

(* Every step keeps refunds within their budgets.                          *)
LEMMA RefundStep == IInv /\ RefundInv /\ [Next]_vars => RefundInv'
<1> SUFFICES ASSUME IInv, RefundInv, [Next]_vars PROVE RefundInv'
  OBVIOUS
<1>1. CASE Tick \/ ChangeTier \/ UNCHANGED vars
  <2>1. ledger' = ledger /\ serial' = serial /\ tx' = tx
    BY <1>1 DEF Tick, ChangeTier, vars
  <2> QED BY <2>1, MoneyKept
<1>2. ASSUME NEW b \in Backends,
             (\E req \in Requests : Begin(b, req)) \/ TakeLock(b) \/ Refuse(b) \/ Rollback(b)
      PROVE  RefundInv'
  <2>1. /\ ledger' = ledger /\ serial' = serial
        /\ \A c \in Backends : tx'[c].rows = tx[c].rows \/ tx'[c].rows = {}
    BY <1>2 DEF Begin, TakeLock, Refuse, Rollback, Session, Idle, IInv, TypeOK
  <2> QED BY <2>1, MoneyKept
<1>3. ASSUME NEW b \in Backends, Work(b) PROVE RefundInv'
  BY <1>3, WorkKeepsMoney
<1>4. ASSUME NEW b \in Backends, Commit(b) PROVE RefundInv'
  BY <1>4, CommitKeepsMoney
<1> QED BY <1>1, <1>2, <1>3, <1>4 DEF Next

(* refundCredits: however sessions race, roll back and retry, the refunds  *)
(* by a debit never exceed it, and a claim is refunded once, within what   *)
(* the debit still had to give (ledger.ts, refundCredits).                 *)
THEOREM LedgerRefundsWithinBudget == Spec => []RefundsWithinBudget
<1>1. RefundInv => RefundsWithinBudget
  BY BudgetsAreGiven DEF RefundInv
<1> QED BY RefundInitially, RefundStep, IInvHolds, <1>1, PTL DEF Spec

(* The past is read the same for ever, pauses apart: a step that records   *)
(* no pause leaves every balance of an instant already looked at.          *)
LEMMA LedgerPastBalances ==
  Spec => [][pauses' = pauses =>
               \A t \in 0..(asOf - 1) :
                 BalanceAt(ledger', pauses', t) = BalanceAt(ledger, pauses, t)]_vars
<1> DEFINE Fixed == \A t \in Int : t < asOf => RowsUpTo(ledger', t) = RowsUpTo(ledger, t)
           Kept == pauses' = pauses =>
                     \A t \in 0..(asOf - 1) :
                       BalanceAt(ledger', pauses', t) = BalanceAt(ledger, pauses, t)
<1>1. IInv /\ [Fixed]_vars => [Kept]_vars
  <2> SUFFICES ASSUME IInv, Fixed, pauses' = pauses, NEW t \in 0..(asOf - 1)
               PROVE  BalanceAt(ledger', pauses', t) = BalanceAt(ledger, pauses, t)
    OBVIOUS
  <2>1. RowsUpTo(ledger', t) = RowsUpTo(ledger, t)
    BY LedgerAssumption DEF IInv, TypeOK
  <2> QED BY <2>1 DEF BalanceAt, FoldLedger
<1> HIDE DEF Fixed, Kept
<1>2. Spec => [][Fixed]_vars
  BY LedgerWriteClock DEF Fixed
<1>3. Spec => [][Kept]_vars
  BY <1>1, <1>2, IInvHolds, PTL
<1> QED BY <1>3 DEF Kept

-----------------------------------------------------------------------------
(***************************************************************************)
(* History: every transaction extends one that replays.                    *)
(***************************************************************************)

(* An expiry row closes a lot that is over when it is written.             *)
ClosesOver(R, P) ==
  \A e \in R : e.kind = "expiry" =>
    \A r \in LotRows(R) : r.id = e.ref => Over(Eff(r, P), e.at)

(* History as the writers keep it: numbered below s, dated by t.           *)
Kept(R, P, s, t) ==
  /\ RowsOK(R)
  /\ \A r \in R : r.at <= t /\ (r.kind # "expiry" => r.id < s)
  /\ ClosesOver(R, P)
  /\ Sound(R, P)

(* History dated by t holds at every later instant.                        *)
LEMMA KeptHolds ==
    ASSUME NEW R, NEW P, InOrder(P), NEW s \in Nat, NEW t \in Nat, NEW u \in Nat, t <= u, Kept(R, P, s, t)
    PROVE  Holds(R, P, u) /\ \A r \in R : r.at <= u /\ r.at \in Nat
<1>1. RowsOK(R) /\ Sound(R, P) /\ ClosesOver(R, P)
  BY DEF Kept
<1>2. \A r \in R : r.at \in Nat /\ r.at <= u
  <2>1. \A r \in R : r.at \in Nat
    BY <1>1 DEF RowsOK
  <2>2. \A r \in R : r.at <= t
    BY DEF Kept
  <2> QED BY <2>1, <2>2
<1>3. ASSUME NEW e \in R, e.kind = "expiry", NEW r \in LotRows(R), r.id = e.ref PROVE Over(Eff(r, P), u)
  <2>1. r \in R
    BY DEF LotRows
  <2>2. Eff(r, P).at \in Int
    BY <1>1, <2>1, EffType
  <2>3. Over(Eff(r, P), e.at)
    BY <1>1, <1>3 DEF ClosesOver
  <2> QED BY <1>2, <2>2, <2>3 DEF Over
<1> QED BY <1>1, <1>2, <1>3 DEF Holds, RowsBy

(* A lot, numbered next.                                                   *)
LEMMA LotKept ==
    ASSUME NEW R, NEW P, InOrder(P), NEW s \in Nat, NEW t \in Nat, NEW u \in Nat, t <= u, Kept(R, P, s, t),
           NEW x, x.kind \in LotKinds, x.delta \in Nat \ {0}, x.id = s, x.at = u, x.exp \in Instants
    PROVE  Kept(R \cup {x}, P, s + 1, u)
<1> DEFINE U == R \cup {x}
<1>1. /\ RowsOK(R) /\ Sound(R, P) /\ ClosesOver(R, P) /\ Holds(R, P, u)
      /\ \A r \in R : r.at <= u /\ (r.kind # "expiry" => r.id < s)
  BY KeptHolds DEF Kept
<1>2. x.kind # "expiry" /\ IsLotRow(x) /\ x.kind \in RowKinds /\ x \notin R
  BY <1>1 DEF IsLotRow, LotKinds, RowKinds
<1>3. RowsOK(U)
  <2>1. IsFiniteSet(U)
    BY <1>1, FS_AddElement DEF RowsOK
  <2>2. \A r \in R : ReplayRank(r) = ReplayRank(x) => r.kind # "expiry"
    BY <1>2 DEF ReplayRank, IsLotRow, LotKinds
  <2>3. \A r \in R : r.id \in Nat
    BY <1>1 DEF RowsOK
  <2>4. \A q, r \in U : ReplayRank(q) = ReplayRank(r) /\ q.id = r.id => q = r
    <3>1. \A q, r \in R : ReplayRank(q) = ReplayRank(r) /\ q.id = r.id => q = r
      BY <1>1 DEF RowsOK
    <3>2. \A r \in R : ReplayRank(r) = ReplayRank(x) => r.id # x.id
      BY <1>1, <2>2, <2>3
    <3> QED BY <3>1, <3>2
  <2>5. /\ x.kind \in RowKinds /\ x.id \in Nat /\ x.at \in Nat /\ x.delta \in Int
        /\ x.exp \in Instants /\ IsLotRow(x) /\ x.kind # "expiry"
    BY <1>2
  <2> QED BY <1>1, <2>1, <2>4, <2>5 DEF RowsOK
<1>4. Holds(U, P, u)
  BY <1>1, <1>2, <1>3, LotHolds
<1>5. ClosesOver(U, P)
  <2>1. ASSUME NEW e \in R, e.kind = "expiry" PROVE e.ref # x.id
    <3>1. PICK r \in LotRows(R) : r.id = e.ref
      BY <1>1, <2>1, ClosedIsEmpty DEF AllClosed
    <3>2. r \in R /\ r.kind # "expiry" /\ r.id \in Nat
      BY <1>1, <3>1 DEF LotRows, IsLotRow, LotKinds, RowsOK
    <3> QED BY <1>1, <3>1, <3>2
  <2>2. LotRows(U) = LotRows(R) \cup {x}
    BY <1>2, RowsGrow
  <2> HIDE DEF U
  <2>3. \A e \in U : e.kind = "expiry" => e \in R
    BY <1>2 DEF U
  <2> QED BY <1>1, <2>1, <2>2, <2>3 DEF ClosesOver
<1>6. \A r \in U : r.at <= u /\ (r.kind # "expiry" => r.id < s + 1)
  <2>1. \A r \in R : r.id \in Nat
    BY <1>1 DEF RowsOK
  <2> QED BY <1>1, <2>1
<1> HIDE DEF U
<1> QED BY <1>3, <1>4, <1>5, <1>6 DEF Kept, Holds, U

(* What closes the lots that are over.                                     *)
ClosingRows(R, P, t) ==
  {Row("expiry", l.id, l.id, -l.remaining, t, Null) : l \in ExpiryCandidates(ReplayAll(R, P), t)}

(* One row for each lot that is over with something left: it closes it.    *)
LEMMA ClosingRowsAre ==
    ASSUME NEW R, RowsOK(R), NEW P, InOrder(P), NEW t \in Nat
    PROVE  LET X == ClosingRows(R, P, t)
           IN  /\ IsFiniteSet(X)
               /\ \A e \in X : /\ e.kind = "expiry" /\ e.at = t /\ e.exp = Null /\ e.id = e.ref
                               /\ \E r \in ToClose(R, P, t) : e.ref = r.id /\ e.delta = -Left(R, P)[r]
               /\ \A r \in ToClose(R, P, t) : \E e \in X : e.ref = r.id
               /\ \A e, f \in X : e.ref = f.ref => e = f
<1> DEFINE X == ClosingRows(R, P, t)
           T == ToClose(R, P, t)
           left == Left(R, P)
<1>1. PICK h : /\ \A r \in T : h[r].id = r.id /\ h[r].remaining = left[r]
               /\ ExpiryCandidates(ReplayAll(R, P), t) = {h[r] : r \in T}
  BY CandidatesAre
<1> DEFINE g == [r \in T |-> Row("expiry", r.id, r.id, -left[r], t, Null)]
<1>2. X = {Row("expiry", l.id, l.id, -l.remaining, t, Null) : l \in {h[r] : r \in T}}
  BY <1>1 DEF ClosingRows
<1> HIDE DEF X
<1>3. X = {Row("expiry", h[r].id, h[r].id, -h[r].remaining, t, Null) : r \in T}
  BY <1>2
<1>4. \A r \in T : g[r] = Row("expiry", h[r].id, h[r].id, -h[r].remaining, t, Null)
  BY <1>1
<1>5. \A r \in T : /\ g[r].kind = "expiry" /\ g[r].id = r.id /\ g[r].ref = r.id
                   /\ g[r].delta = -left[r] /\ g[r].at = t /\ g[r].exp = Null
  BY DEF Row
<1>6. g \in [T -> X] /\ \A e \in X : \E r \in T : e = g[r]
  <2>1. DOMAIN g = T /\ g = [r \in T |-> g[r]]
    OBVIOUS
  <2> HIDE DEF g, T, left
  <2>2. \A r \in T : g[r] \in X
    BY <1>3, <1>4
  <2>3. \A e \in X : \E r \in T : e = g[r]
    BY <1>3, <1>4
  <2> QED BY <2>1, <2>2, <2>3
<1>7. T \subseteq LotRows(R) /\ IsFiniteSet(T)
  BY LotRowsFinite DEF ToClose
<1> HIDE DEF g, left, T
<1>8. IsFiniteSet(X)
  <2>1. g \in Surjection(T, X)
    BY <1>6 DEF Surjection
  <2> QED BY <1>7, <2>1, FS_Surjection
<1>9. \A e, f \in X : e.ref = f.ref => e = f
  <2> SUFFICES ASSUME NEW e \in X, NEW f \in X, e.ref = f.ref PROVE e = f
    OBVIOUS
  <2>1. PICK q \in T, r \in T : e = g[q] /\ f = g[r]
    BY <1>6
  <2>2. q.id = r.id
    BY <1>5, <2>1
  <2>3. q = r
    BY <1>7, <2>2, LotsNamed
  <2> QED BY <2>1, <2>3
<1>10. \A e \in X : /\ e.kind = "expiry" /\ e.at = t /\ e.exp = Null /\ e.id = e.ref
                    /\ \E r \in T : e.ref = r.id /\ e.delta = -left[r]
  BY <1>5, <1>6
<1>11. \A r \in T : \E e \in X : e.ref = r.id
  BY <1>5, <1>6
<1> QED BY <1>8, <1>9, <1>10, <1>11 DEF X, T, left

(* The lots that are over are closed, each once.                           *)
LEMMA ClosedKept ==
    ASSUME NEW R, NEW P, InOrder(P), NEW s \in Nat, NEW t \in Nat, NEW u \in Nat, t <= u, Kept(R, P, s, t)
    PROVE  /\ Kept(R \cup ClosingRows(R, P, u), P, s, u)
           /\ Clean(R \cup ClosingRows(R, P, u), P, u)
<1> DEFINE X == ClosingRows(R, P, u)
           U == R \cup X
           T == ToClose(R, P, u)
           left == Left(R, P)
<1>1. /\ RowsOK(R) /\ Sound(R, P) /\ ClosesOver(R, P) /\ Holds(R, P, u)
      /\ \A r \in R : r.at <= u /\ (r.kind # "expiry" => r.id < s)
  BY KeptHolds DEF Kept
<1>2. /\ IsFiniteSet(X)
      /\ \A e \in X : /\ e.kind = "expiry" /\ e.at = u /\ e.exp = Null /\ e.id = e.ref
                      /\ \E r \in T : e.ref = r.id /\ e.delta = -left[r]
      /\ \A r \in T : \E e \in X : e.ref = r.id
      /\ \A e, f \in X : e.ref = f.ref => e = f
  BY <1>1, ClosingRowsAre
<1> HIDE DEF X
<1>3. \A r \in T : r \in LotRows(R) /\ r \in R /\ left[r] \in Nat /\ left[r] > 0 /\ Over(Eff(r, P), u) /\ r.id \in Nat
  <2>1. left \in [LotRows(R) -> Nat]
    BY <1>1, LeftIs
  <2>2. \A r \in T : r \in LotRows(R) /\ left[r] > 0 /\ Over(Eff(r, P), u)
    BY DEF ToClose
  <2> HIDE DEF T, left
  <2> QED BY <1>1, <2>1, <2>2 DEF LotRows, RowsOK
<1> HIDE DEF T, left
<1>4. \A e \in X : /\ e.kind = "expiry" /\ e.kind \in RowKinds /\ ~IsLotRow(e) /\ e.at = u /\ e.id \in Nat
                   /\ e.delta \in Int /\ e.delta < 0 /\ e.exp \in Instants /\ e.id = e.ref
  BY <1>2, <1>3 DEF RowKinds, IsLotRow, LotKinds, Instants
<1>5. \A e \in X, q \in R : q.kind = "expiry" => q.id # e.id
  <2> SUFFICES ASSUME NEW e \in X, NEW q \in R, q.kind = "expiry", q.id = e.id PROVE FALSE
    OBVIOUS
  <2>1. PICK r \in T : e.ref = r.id
    BY <1>2
  <2>2. PICK p \in LotRows(R) : p.id = q.ref /\ left[p] = 0
    BY <1>1, ClosedIsEmpty DEF AllClosed, left
  <2>3. q.ref = q.id
    BY <1>1 DEF RowsOK
  <2>4. p.id = r.id
    BY <1>4, <2>1, <2>2, <2>3
  <2>5. p = r
    BY <1>1, <1>3, <2>4, LotsNamed
  <2> QED BY <1>3, <2>2, <2>5
<1>6. RowsOK(U)
  <2>1. IsFiniteSet(U)
    BY <1>1, <1>2, FS_Union DEF RowsOK
  <2>2. \A e \in X : ReplayRank(e) = 1
    BY <1>4 DEF ReplayRank
  <2>3. \A q \in R : ReplayRank(q) = 1 => q.kind = "expiry"
    BY DEF ReplayRank
  <2>4. \A q, r \in R : ReplayRank(q) = ReplayRank(r) /\ q.id = r.id => q = r
    BY <1>1 DEF RowsOK
  <2>5. \A q, r \in X : q.id = r.id => q = r
    BY <1>2
  <2>6. \A q, r \in U : ReplayRank(q) = ReplayRank(r) /\ q.id = r.id => q = r
    BY <1>5, <2>2, <2>3, <2>4, <2>5
  <2>7. \A r \in U : /\ r.kind \in RowKinds /\ r.id \in Nat /\ r.at \in Nat /\ r.delta \in Int
                     /\ r.exp \in Instants
                     /\ ~IsLotRow(r) => r.delta < 0
                     /\ r.kind = "expiry" => r.id = r.ref
    BY <1>1, <1>4 DEF RowsOK
  <2> QED BY <2>1, <2>6, <2>7 DEF RowsOK
<1>7. Holds(U, P, u) /\ Clean(U, P, u)
  BY <1>1, <1>2, <1>6, ClosingHolds DEF T, left
<1>8. ClosesOver(U, P)
  <2>1. LotRows(U) = LotRows(R)
    BY <1>4 DEF LotRows
  <2>2. ASSUME NEW e \in X, NEW r \in LotRows(R), r.id = e.ref PROVE Over(Eff(r, P), e.at)
    <3>1. PICK q \in T : e.ref = q.id
      BY <1>2
    <3>2. q = r
      BY <1>1, <1>3, <2>2, <3>1, LotsNamed
    <3> QED BY <1>3, <1>4, <3>2
  <2> QED BY <1>1, <2>1, <2>2 DEF ClosesOver
<1>9. \A r \in U : r.at <= u /\ (r.kind # "expiry" => r.id < s)
  BY <1>1, <1>4
<1> QED BY <1>6, <1>7, <1>8, <1>9 DEF Kept, Holds, X

(* A spend that the balance covers, numbered next.                         *)
LEMMA SpendKept ==
    ASSUME NEW R, NEW P, InOrder(P), NEW s \in Nat, NEW u \in Nat, Kept(R, P, s, u), Clean(R, P, u),
           NEW x, x.kind \in {"debit", "adjust"}, x.delta \in Int, x.delta < 0, x.id = s, x.at = u,
           x.exp = Null, -x.delta <= Balance(ReplayAll(R, P), u)
    PROVE  Kept(R \cup {x}, P, s + 1, u) /\ Clean(R \cup {x}, P, u)
<1> DEFINE U == R \cup {x}
<1>1. /\ RowsOK(R) /\ Sound(R, P) /\ ClosesOver(R, P) /\ Holds(R, P, u)
      /\ \A r \in R : r.at <= u /\ (r.kind # "expiry" => r.id < s)
  BY KeptHolds DEF Kept
<1>2. x.kind # "expiry" /\ ~IsLotRow(x) /\ x.kind \in RowKinds /\ x \notin R
  BY <1>1 DEF IsLotRow, LotKinds, RowKinds
<1>3. RowsOK(U)
  <2>1. IsFiniteSet(U)
    BY <1>1, FS_AddElement DEF RowsOK
  <2>2. \A r \in R : ReplayRank(r) = ReplayRank(x) => r.kind # "expiry"
    BY <1>2 DEF ReplayRank, IsLotRow, LotKinds
  <2>3. \A r \in R : r.id \in Nat
    BY <1>1 DEF RowsOK
  <2>4. \A q, r \in U : ReplayRank(q) = ReplayRank(r) /\ q.id = r.id => q = r
    <3>1. \A q, r \in R : ReplayRank(q) = ReplayRank(r) /\ q.id = r.id => q = r
      BY <1>1 DEF RowsOK
    <3>2. \A r \in R : ReplayRank(r) = ReplayRank(x) => r.id # x.id
      BY <1>1, <2>2, <2>3
    <3> QED BY <3>1, <3>2
  <2>5. /\ x.kind \in RowKinds /\ x.id \in Nat /\ x.at \in Nat /\ x.delta \in Int
        /\ x.exp \in Instants /\ x.delta < 0 /\ x.kind # "expiry"
    BY <1>2 DEF Instants
  <2> QED BY <1>1, <2>1, <2>4, <2>5 DEF RowsOK
<1>4. -x.delta <= Total(Left(R, P), Alive(R, P, u))
  BY <1>1, BalanceIs
<1>5. Holds(U, P, u) /\ Clean(U, P, u)
  BY <1>1, <1>2, <1>3, <1>4, SpendHolds
<1>6. ClosesOver(U, P)
  <2>1. LotRows(U) = LotRows(R)
    BY <1>2 DEF LotRows
  <2> QED BY <1>1, <1>2, <2>1 DEF ClosesOver
<1>7. \A r \in U : r.at <= u /\ (r.kind # "expiry" => r.id < s + 1)
  <2>1. \A r \in R : r.id \in Nat
    BY <1>1 DEF RowsOK
  <2> QED BY <1>1, <2>1
<1> HIDE DEF U
<1> QED BY <1>3, <1>5, <1>6, <1>7 DEF Kept, Holds, U

(* Pauses that agree so far read the same history the same way, now and at *)
(* every instant before.                                                   *)
LEMMA PausesAlike ==
    ASSUME NEW R, NEW P, InOrder(P), NEW Q, InOrder(Q), NEW s \in Nat, NEW t \in Nat,
           AgreeUntil(P, Q, t), Kept(R, P, s, t)
    PROVE  /\ Kept(R, Q, s, t)
           /\ \A u \in 0..t : Balance(ReplayAll(RowsUpTo(R, u), Q), u) = Balance(ReplayAll(RowsUpTo(R, u), P), u)
<1>1. /\ RowsOK(R) /\ Sound(R, P) /\ ClosesOver(R, P) /\ \A r \in R : r.at <= t
  BY DEF Kept
<1>2. \A r \in R : r.at \in 0..t /\ r.exp \in Instants /\ r.at \in Nat
  BY <1>1 DEF RowsOK
<1>3. \A r \in R : /\ Over(Eff(r, P), t) => Eff(r, Q) = Eff(r, P)
                   /\ Over(Eff(r, Q), t) => Over(Eff(r, P), t)
  BY <1>2 DEF AgreeUntil, Eff
<1>4. \A r \in R : Eff(r, P).at \in Int /\ Eff(r, Q).at \in Int
  BY <1>1, EffType
<1>5. ASSUME NEW S \in SUBSET R, NEW u \in 0..t, \A r \in S : r.at <= u PROVE Alike(S, P, Q, u)
  <2>1. RowsOK(S) /\ LotRows(S) \subseteq R /\ LotRows(S) \subseteq LotRows(R)
    BY <1>1, SomeRowsOK DEF LotRows
  <2>2. SameOver(S, P, Q, u)
    <3> SUFFICES ASSUME NEW r \in LotRows(S)
                 PROVE  /\ Over(Eff(r, P), u) => Eff(r, Q) = Eff(r, P)
                        /\ Over(Eff(r, Q), u) => Over(Eff(r, P), u)
      BY DEF SameOver
    <3>1. r \in R
      BY <2>1
    <3>2. (Over(Eff(r, P), u) => Over(Eff(r, P), t)) /\ (Over(Eff(r, Q), u) => Over(Eff(r, Q), t))
      BY <1>4, <3>1 DEF Over
    <3> QED BY <1>3, <3>1, <3>2
  <2>3. ASSUME NEW e \in S, e.kind = "expiry", NEW r \in LotRows(S), r.id = e.ref PROVE Over(Eff(r, P), u)
    <3>1. Over(Eff(r, P), e.at)
      BY <1>1, <2>1, <2>3 DEF ClosesOver
    <3> QED BY <1>2, <1>4, <1>5, <2>1, <3>1 DEF Over
  <2>4. u \in Nat
    OBVIOUS
  <2> QED BY <1>5, <2>1, <2>2, <2>3, <2>4, ReplaysAlike
<1>6. Sound(R, Q)
  BY <1>1, <1>5 DEF Alike
<1>7. ClosesOver(R, Q)
  <2> SUFFICES ASSUME NEW e \in R, e.kind = "expiry", NEW r \in LotRows(R), r.id = e.ref PROVE Over(Eff(r, Q), e.at)
    BY DEF ClosesOver
  <2>1. r \in R /\ Over(Eff(r, P), e.at)
    BY <1>1 DEF ClosesOver, LotRows
  <2>2. Over(Eff(r, P), t)
    BY <1>2, <1>4, <2>1 DEF Over
  <2> QED BY <1>3, <2>1, <2>2
<1>8. Kept(R, Q, s, t)
  BY <1>6, <1>7 DEF Kept
<1>9. ASSUME NEW u \in 0..t
      PROVE  Balance(ReplayAll(RowsUpTo(R, u), Q), u) = Balance(ReplayAll(RowsUpTo(R, u), P), u)
  <2> DEFINE S == RowsUpTo(R, u)
  <2>1. S \in SUBSET R /\ \A r \in S : r.at <= u
    BY DEF RowsUpTo
  <2>2. u \in Nat
    OBVIOUS
  <2> HIDE DEF S
  <2>3. Alike(S, P, Q, u) /\ RowsOK(S)
    BY <1>1, <1>5, <2>1, SomeRowsOK
  <2>4. Balance(ReplayAll(S, P), u) = Total(Left(S, P), Alive(S, P, u))
    BY <2>2, <2>3, BalanceIs
  <2>5. Balance(ReplayAll(S, Q), u) = Total(Left(S, Q), Alive(S, Q, u))
    BY <2>2, <2>3, BalanceIs
  <2> QED BY <2>3, <2>4, <2>5 DEF Alike, S
<1> QED BY <1>8, <1>9

(* History holds, with and without what a lock holder has staged; and what *)
(* a transaction derived its balance from has no lot left to close.        *)
KeptInv ==
  /\ InOrder(pauses)
  /\ Kept(ledger, pauses, serial, asOf)
  /\ \A b \in Backends : tx[b].step = "worked" =>
       /\ Kept(ledger \cup tx[b].rows, pauses, serial, asOf)
       /\ tx[b].req.op \in Spends \cup {"read"} => Clean(ledger \cup tx[b].rows, pauses, asOf)

(* History is kept as time passes and numbers are drawn.                   *)
LEMMA KeptLonger ==
    ASSUME NEW R, NEW P, NEW s \in Nat, NEW t \in Nat, NEW n \in Nat, NEW u \in Nat, s <= n, t <= u,
           Kept(R, P, s, t)
    PROVE  Kept(R, P, n, u)
<1>1. \A r \in R : r.at \in Nat /\ r.id \in Nat
  BY DEF Kept, RowsOK
<1>2. \A r \in R : r.at <= t /\ (r.kind # "expiry" => r.id < s)
  BY DEF Kept
<1>3. \A r \in R : r.at <= u /\ (r.kind # "expiry" => r.id < n)
  BY <1>1, <1>2
<1> QED BY <1>3 DEF Kept

(* Nothing is dated after the clock: a fold at the clock reads every row.  *)
LEMMA FoldReadsAll ==
    ASSUME NEW R, NEW P, NEW t, \A r \in R : r.at <= t
    PROVE  FoldLedger(R, P, t) = ReplayAll(R, P) /\ BalanceAt(R, P, t) = Balance(ReplayAll(R, P), t)
<1>1. RowsUpTo(R, t) = R
  BY DEF RowsUpTo
<1> QED BY <1>1 DEF FoldLedger, BalanceAt

(* The clock, the last observation and the row numbers.                    *)
LEMMA Counters ==
    ASSUME IInv
    PROVE  /\ clock \in Nat /\ asOf \in Nat /\ asOf <= clock /\ serial \in Nat
           /\ NextId \in Nat /\ NextId \in {serial, serial + 1}
           /\ Month(clock) \in Nat /\ (Month(clock) + 1) * MonthLength \in Nat
<1>1. clock \in Nat /\ asOf \in Nat /\ asOf <= clock /\ serial \in Nat
  BY LedgerAssumption DEF IInv, TypeOK
<1>2. NextId \in Nat /\ NextId \in {serial, serial + 1}
  BY <1>1 DEF NextId
<1>3. Month(clock) \in Nat
  BY <1>1, LedgerAssumption DEF Month
<1>4. \A m, n \in Nat : (m + 1) * n \in Nat
  OBVIOUS
<1>5. (Month(clock) + 1) * MonthLength \in Nat
  BY <1>3, <1>4, LedgerAssumption
<1> QED BY <1>1, <1>2, <1>3, <1>5

(* deriveBalanceInTx leaves a history that replays and has nothing to close*)
LEMMA DerivedKept ==
    ASSUME IInv, KeptInv
    PROVE  /\ Kept(ledger \cup Derived, pauses, NextId, clock)
           /\ Clean(ledger \cup Derived, pauses, clock)
<1> DEFINE R == ledger \cup FreeMint
<1>1. Kept(ledger, pauses, serial, asOf) /\ InOrder(pauses)
  BY DEF KeptInv
<1>2. Kept(R, pauses, NextId, clock)
  <2>1. CASE FreeMint = {}
    <3>1. R = ledger /\ NextId = serial
      BY <2>1 DEF NextId
    <3>2. Kept(ledger, pauses, serial, clock)
      BY <1>1, Counters, KeptLonger
    <3> QED BY <3>1, <3>2
  <2>2. CASE FreeMint # {}
    <3>1. FreeMint = {FreeMintRow} /\ FreeAllowance > 0 /\ NextId = serial + 1
      BY <2>2 DEF FreeMint, NextId
    <3>2. /\ FreeMintRow.kind \in LotKinds /\ FreeMintRow.delta \in Nat \ {0} /\ FreeMintRow.id = serial
          /\ FreeMintRow.at = clock /\ FreeMintRow.exp \in Instants
      BY <3>1, Counters, LedgerAssumption DEF FreeMintRow, Row, LotKinds, Instants
    <3>3. Kept(ledger \cup {FreeMintRow}, pauses, serial + 1, clock)
      BY <1>1, <3>2, Counters, LotKept
    <3> QED BY <3>1, <3>3
  <2> QED BY <2>1, <2>2
<1>3. ledger \cup Derived = R \cup ExpiryRows(R)
  BY DEF Derived
<1> HIDE DEF R
<1>4. ExpiryRows(R) = ClosingRows(R, pauses, clock)
  <2>1. \A r \in R : r.at <= clock
    BY <1>2 DEF Kept
  <2>2. FoldLedger(R, pauses, clock) = ReplayAll(R, pauses)
    BY <2>1, FoldReadsAll
  <2> QED BY <2>2 DEF ExpiryRows, ClosingRows
<1>5. clock <= clock
  BY Counters
<1>6. /\ Kept(R \cup ClosingRows(R, pauses, clock), pauses, NextId, clock)
      /\ Clean(R \cup ClosingRows(R, pauses, clock), pauses, clock)
  BY <1>1, <1>2, <1>5, Counters, ClosedKept
<1> QED BY <1>3, <1>4, <1>6

(* What is asked for is positive, and a date is one.                       *)
LEMMA RequestTypes ==
    ASSUME IInv, NEW b \in Backends
    PROVE  /\ tx[b].req.op \in Spends \cup Refunds => tx[b].req.amount \in Nat \ {0}
           /\ tx[b].req.op \in Lots => tx[b].req.amount \in Nat \ {0} /\ tx[b].req.exp \in Instants
<1>1. tx[b].req \in Requests \cup {NoRequest}
  BY DEF IInv, TypeOK
<1> QED BY <1>1, LedgerAssumption DEF RequestSpace, NoRequest, Spends, Refunds, Lots, Instants

(* The trace of a replay names the lot i for the spend n.                  *)
Traced(U, P, n, i) == \E e \in ReplayAll(U, P).trace : e.debit = n /\ e.lot = i

(* What the spend n took from has a lot that ends at e.                    *)
SourcedAt(U, P, n, e) == \E r \in LotRows(U) : Eff(r, P).at = e /\ Traced(U, P, n, r.id)

(* A refund is dated like one of the lots its debit consumed.              *)
LEMMA RefundSource ==
    ASSUME IInv, KeptInv, NEW d
    PROVE  LET e == RefundExpiry(ledger \cup Derived, d)
           IN  e = Null \/ (e \in Nat /\ SourcedAt(ledger \cup Derived, pauses, d, e))
<1> DEFINE R == ledger \cup Derived
           fold == FoldLedger(R, pauses, clock)
           dated == {l.eff.at : l \in {l \in fold.lots : \E t \in fold.trace : t.debit = d /\ t.lot = l.id}} \ {Null}
<1>1. RowsOK(R) /\ InOrder(pauses) /\ \A r \in R : r.at <= clock
  BY DerivedKept DEF Kept, KeptInv
<1> HIDE DEF R
<1>2. fold = ReplayAll(R, pauses)
  BY <1>1, FoldReadsAll
<1>3. PICK shut : LotsAre(ReplayAll(R, pauses).lots, R, pauses, Left(R, pauses), shut)
  BY <1>1, LeftIs
<1> DEFINE h == [r \in LotRows(R) |-> LotAs(r, pauses, Left(R, pauses)[r], shut[r])]
           D == {Eff(r, pauses).at : r \in LotRows(R)}
<1>4. /\ fold.lots = {h[r] : r \in LotRows(R)}
      /\ \A r \in LotRows(R) : h[r].eff = Eff(r, pauses) /\ h[r].id = r.id
  <2> DEFINE lots == ReplayAll(R, pauses).lots
             left == Left(R, pauses)
  <2>1. LotsAre(lots, R, pauses, left, shut) /\ h = [r \in LotRows(R) |-> LotAs(r, pauses, left[r], shut[r])]
    BY <1>3
  <2>2. fold.lots = lots
    BY <1>2
  <2> HIDE DEF lots, left, h, fold
  <2>3. /\ lots = {h[r] : r \in LotRows(R)}
        /\ \A r \in LotRows(R) :
             /\ h[r].remaining = left[r] /\ h[r].id = r.id /\ h[r].eff = Eff(r, pauses)
             /\ (h[r].closed => left[r] = 0) /\ left[r] \in Nat /\ h[r] \in lots
    BY <1>1, <2>1, LotsOfRows
  <2> QED BY <2>2, <2>3
<1> HIDE DEF h
<1>5. dated \subseteq D /\ dated \subseteq Nat /\ \A a \in dated : SourcedAt(R, pauses, d, a)
  <2>1. \A l \in fold.lots : \E r \in LotRows(R) : l.eff = Eff(r, pauses) /\ l.id = r.id
    BY <1>4
  <2>2. \A r \in LotRows(R) : Eff(r, pauses).at \in Instants
    BY <1>1, EffType DEF LotRows
  <2>3. ASSUME NEW a \in dated PROVE a \in D /\ a \in Nat /\ SourcedAt(R, pauses, d, a)
    <3>1. PICK l \in fold.lots : a = l.eff.at /\ \E t \in fold.trace : t.debit = d /\ t.lot = l.id
      BY <2>3
    <3>2. a # Null
      BY <2>3
    <3>3. PICK r \in LotRows(R) : l.eff = Eff(r, pauses) /\ l.id = r.id
      BY <2>1
    <3>4. Traced(R, pauses, d, r.id)
      BY <1>2, <3>1, <3>3 DEF Traced
    <3>5. SourcedAt(R, pauses, d, a)
      BY <3>1, <3>3, <3>4 DEF SourcedAt
    <3>6. a = Eff(r, pauses).at
      BY <3>1, <3>3
    <3>7. a \in D
      BY <3>6
    <3> QED BY <2>2, <3>2, <3>5, <3>6, <3>7 DEF Instants
  <2> QED BY <2>3
<1>6. IsFiniteSet(D)
  <2> DEFINE g == [r \in LotRows(R) |-> Eff(r, pauses).at]
  <2>1. g \in Surjection(LotRows(R), D)
    BY DEF Surjection
  <2>2. IsFiniteSet(LotRows(R))
    BY <1>1, LotRowsFinite
  <2> HIDE DEF g, D
  <2> QED BY <2>1, <2>2, FS_Surjection
<1>7. IsFiniteSet(dated)
  <2> HIDE DEF dated, D
  <2> QED BY <1>5, <1>6, FS_Subset
<1>8. RefundExpiry(R, d) = IF dated = {} THEN Null ELSE Max(dated)
  BY DEF RefundExpiry
<1> HIDE DEF dated, D
<1>9. CASE dated # {}
  <2> DEFINE O == {ab \in Nat \X Nat : ab[1] <= ab[2]}
  <2>1. \A a, c \in dated : a # c => <<a, c>> \in O \/ <<c, a>> \in O
    BY <1>5
  <2>2. \A a, c, e \in dated : <<a, c>> \in O /\ <<c, e>> \in O => <<a, e>> \in O
    BY <1>5
  <2> HIDE DEF O
  <2>3. \A s \in SUBSET dated : s # {} => \E m \in s : \A q \in s \ {m} : <<q, m>> \in O
    BY <1>7, <2>1, <2>2, LastExists
  <2>4. PICK m \in dated : \A q \in dated \ {m} : <<q, m>> \in O
    BY <1>9, <2>3
  <2>5. \A q \in dated : m >= q
    <3>1. \A a, c \in Nat : <<a, c>> \in O => a <= c
      BY DEF O
    <3>2. ASSUME NEW q \in dated PROVE m >= q
      <4>1. q \in Nat /\ m \in Nat
        BY <1>5
      <4>2. CASE q = m
        BY <4>1, <4>2
      <4>3. CASE q # m
        <5>1. <<q, m>> \in O
          BY <2>4, <4>3
        <5> QED BY <3>1, <4>1, <5>1
      <4> QED BY <4>2, <4>3
    <3> QED BY <3>2
  <2>6. Max(dated) \in dated
    BY <2>5 DEF Max
  <2> QED BY <1>5, <1>8, <1>9, <2>6 DEF R
<1> QED BY <1>8, <1>9 DEF R


(* What a transaction that is not about pauses stages extends history.     *)
LEMMA WorkKeeps ==
  ASSUME IInv, KeptInv, NEW b \in Backends, Work(b), ~WorkPause(b)
  PROVE  \E rows : \E added \in Nat :
           /\ Stage(b, rows, added)
           /\ Kept(ledger \cup rows, pauses, serial + added, clock)
           /\ tx[b].req.op \in Spends \cup {"read"} => Clean(ledger \cup rows, pauses, clock)
<1> DEFINE R == ledger \cup Derived
           amount == tx[b].req.amount
           added == NextId + 1 - serial
<1>1. /\ clock \in Nat /\ asOf \in Nat /\ asOf <= clock /\ serial \in Nat
      /\ NextId \in Nat /\ NextId \in {serial, serial + 1} /\ clock <= clock
  BY Counters
<1>2. InOrder(pauses) /\ Kept(ledger, pauses, serial, asOf)
  BY DEF KeptInv
<1>3. Kept(R, pauses, NextId, clock) /\ Clean(R, pauses, clock)
  BY DerivedKept
<1>4. added \in Nat /\ serial + added = NextId + 1 /\ NextId - serial \in Nat /\ serial + (NextId - serial) = NextId
  BY <1>1
<1> HIDE DEF R, added
<1>5. CASE WorkRead(b)
  <2>1. Stage(b, Derived, NextId - serial) /\ Kept(ledger \cup Derived, pauses, serial + (NextId - serial), clock)
    BY <1>3, <1>4, <1>5 DEF WorkRead, R
  <2>2. Clean(ledger \cup Derived, pauses, clock)
    BY <1>3 DEF R
  <2> QED BY <1>4, <2>1, <2>2
<1>6. CASE WorkSpend(b)
  <2> DEFINE kind == IF tx[b].req.op = "debit" THEN "debit" ELSE "adjust"
             row == Row(kind, NextId, Null, -amount, clock, Null)
             rows == Derived \cup {row}
  <2>1. amount \in Nat \ {0}
    BY <1>6, RequestTypes DEF WorkSpend
  <2>2. BalanceAt(R, pauses, clock) >= amount /\ Stage(b, rows, added)
    BY <1>6 DEF WorkSpend, R, added
  <2>3. /\ row.kind \in {"debit", "adjust"} /\ row.delta = -amount /\ row.id = NextId
        /\ row.at = clock /\ row.exp = Null
    BY DEF Row
  <2> HIDE DEF row, amount
  <2>4. row.delta \in Int /\ row.delta < 0 /\ -row.delta = amount
    BY <2>1, <2>3
  <2>5. Balance(ReplayAll(R, pauses), clock) \in Nat /\ BalanceAt(R, pauses, clock) = Balance(ReplayAll(R, pauses), clock)
    <3>1. RowsOK(R) /\ \A r \in R : r.at <= clock
      BY <1>3 DEF Kept
    <3>2. BalanceAt(R, pauses, clock) = Balance(ReplayAll(R, pauses), clock)
      BY <3>1, FoldReadsAll
    <3>3. Left(R, pauses) \in [LotRows(R) -> Nat] /\ Alive(R, pauses, clock) \in SUBSET LotRows(R)
      BY <1>2, <3>1, LeftIs DEF Alive
    <3>4. IsFiniteSet(Alive(R, pauses, clock))
      BY <3>1, <3>3, LotRowsFinite
    <3>5. \A r \in Alive(R, pauses, clock) : Left(R, pauses)[r] \in Nat
      BY <3>3
    <3>6. Total(Left(R, pauses), Alive(R, pauses, clock)) \in Nat
      BY <3>4, <3>5, TotalNat
    <3>7. Balance(ReplayAll(R, pauses), clock) = Total(Left(R, pauses), Alive(R, pauses, clock))
      BY <1>1, <1>2, <3>1, BalanceIs
    <3> QED BY <3>2, <3>6, <3>7
  <2>6. -row.delta <= Balance(ReplayAll(R, pauses), clock)
    BY <2>1, <2>2, <2>4, <2>5
  <2>7. Kept(R \cup {row}, pauses, NextId + 1, clock) /\ Clean(R \cup {row}, pauses, clock)
    BY <1>1, <1>2, <1>3, <2>3, <2>4, <2>6, SpendKept
  <2>8. R \cup {row} = ledger \cup rows
    BY DEF R
  <2> HIDE DEF rows
  <2> QED BY <1>4, <2>2, <2>7, <2>8
<1>7. CASE WorkRefund(b)
  <2>1. PICK d, exp, ref :
          /\ exp = RefundExpiry(R, d.id)
          /\ Stage(b, Derived \cup {Row("refund", NextId, ref, amount, clock, exp)}, added)
    BY <1>7 DEF WorkRefund, R, added
  <2> DEFINE row == Row("refund", NextId, ref, amount, clock, exp)
             rows == Derived \cup {row}
  <2>2. amount \in Nat \ {0} /\ tx[b].req.op \in Refunds
    BY <1>7, RequestTypes DEF WorkRefund
  <2>3. exp \in Instants
    BY <2>1, RefundSource DEF R, Instants
  <2>4. /\ row.kind \in LotKinds /\ row.delta \in Nat \ {0} /\ row.id = NextId
        /\ row.at = clock /\ row.exp \in Instants
    BY <2>2, <2>3 DEF Row, LotKinds
  <2> HIDE DEF row, amount
  <2>5. Kept(R \cup {row}, pauses, NextId + 1, clock)
    BY <1>1, <1>2, <1>3, <2>4, LotKept
  <2>6. R \cup {row} = ledger \cup rows /\ Stage(b, rows, added)
    BY <2>1 DEF R, row, amount
  <2>7. tx[b].req.op \notin Spends \cup {"read"}
    BY <2>2 DEF Spends, Refunds
  <2> HIDE DEF rows
  <2> QED BY <1>4, <2>5, <2>6, <2>7
<1>8. CASE WorkLot(b)
  <2> DEFINE row == Row(tx[b].req.op, serial, Null, amount, clock, tx[b].req.exp)
  <2>1. tx[b].req.op \in Lots /\ Stage(b, {row}, 1)
    BY <1>8 DEF WorkLot
  <2>2. amount \in Nat \ {0} /\ tx[b].req.exp \in Instants
    BY <2>1, RequestTypes
  <2>3. /\ row.kind \in LotKinds /\ row.delta \in Nat \ {0} /\ row.id = serial
        /\ row.at = clock /\ row.exp \in Instants
    BY <2>1, <2>2 DEF Row, LotKinds, Lots
  <2> HIDE DEF row, amount
  <2>4. Kept(ledger \cup {row}, pauses, serial + 1, clock)
    BY <1>1, <1>2, <2>3, LotKept
  <2>5. tx[b].req.op \notin Spends \cup {"read"}
    BY <2>1 DEF Spends, Lots
  <2> QED BY <2>1, <2>4, <2>5
<1> QED BY <1>5, <1>6, <1>7, <1>8 DEF Work

(* Whatever a lock holder stages, history is kept.                         *)
LEMMA WorkKeepsHistory ==
  ASSUME IInv, KeptInv, NEW b \in Backends, Work(b)
  PROVE  KeptInv'
<1>1. lock = b /\ DOMAIN tx = Backends /\ tx[b].step = "locked"
  BY DEF Work, IInv, TypeOK
<1>2. \A c \in Backends \ {b} : tx[c].step # "worked"
  BY <1>1 DEF IInv, TypeOK
<1>3. CASE WorkPause(b)
  <2>1. /\ UNCHANGED <<ledger, pauses, serial, asOf>>
        /\ tx'[b].rows = {} /\ tx'[b].req.op \in {"pause", "resume"}
        /\ \A c \in Backends \ {b} : tx'[c] = tx[c]
    BY <1>1, <1>3 DEF WorkPause, Session
  <2>2. ledger \cup {} = ledger
    OBVIOUS
  <2>3. \A c \in Backends : tx'[c].step = "worked" => tx'[c].rows = {} /\ tx'[c].req.op \notin Spends \cup {"read"}
    BY <1>2, <2>1 DEF Spends
  <2> QED BY <2>1, <2>2, <2>3 DEF KeptInv
<1>4. CASE ~WorkPause(b)
  <2>1. PICK rows, added :
           /\ added \in Nat /\ Stage(b, rows, added)
           /\ Kept(ledger \cup rows, pauses, serial + added, clock)
           /\ tx[b].req.op \in Spends \cup {"read"} => Clean(ledger \cup rows, pauses, clock)
    BY <1>4, WorkKeeps
  <2>2. /\ UNCHANGED <<ledger, pauses>> /\ asOf' = clock /\ serial' = serial + added
        /\ tx'[b].rows = rows /\ tx'[b].req = tx[b].req
        /\ \A c \in Backends \ {b} : tx'[c] = tx[c]
    BY <1>1, <2>1 DEF Stage, Session
  <2>3. Kept(ledger, pauses, serial', asOf')
    <3>1. serial \in Nat /\ serial' \in Nat /\ serial <= serial' /\ asOf \in Nat /\ asOf' \in Nat /\ asOf <= asOf'
      BY <2>1, <2>2, Counters
    <3> QED BY <3>1, KeptLonger DEF KeptInv
  <2>4. \A c \in Backends : tx'[c].step = "worked" => c = b
    BY <1>2, <2>2
  <2> QED BY <2>1, <2>2, <2>3, <2>4 DEF KeptInv
<1> QED BY <1>3, <1>4

(* A pause begins or ends at the last observation: what was read before it *)
(* is read the same after it.                                              *)
LEMMA RepausedKeeps ==
  ASSUME IInv, KeptInv, NEW op \in {"pause", "resume"},
         op = "pause" => ~HasOpenPause,
         op = "resume" => \E p \in pauses : p.ended = Null /\ p.started < asOf
  PROVE  InOrder(Repaused(pauses, op, asOf)) /\ AgreeUntil(pauses, Repaused(pauses, op, asOf), asOf)
<1>1. asOf \in Nat /\ InOrder(pauses)
  BY Counters DEF KeptInv
<1>2. \A p \in pauses : /\ p.started \in Nat /\ p.ended \in Nat \cup {Null} /\ p = [started |-> p.started, ended |-> p.ended]
                        /\ p.ended # Null => p.ended <= asOf
  <2>1. \A p \in pauses : p \in Period
    BY <1>1 DEF InOrder
  <2>2. \A p \in pauses : p.ended \in {Null} \cup 0..asOf
    BY DEF IInv, TypeOK
  <2> QED BY <1>1, <2>1, <2>2 DEF Period
<1>3. CASE op = "pause"
  <2>1. EndedBy(pauses, asOf)
    BY <1>2, <1>3 DEF EndedBy, HasOpenPause
  <2>2. Repaused(pauses, op, asOf) = pauses \cup {[started |-> asOf, ended |-> Null]}
    BY <1>3 DEF Repaused
  <2> QED BY <1>1, <2>1, <2>2, PauseBegins
<1>4. CASE op = "resume"
  <2>1. PICK p \in pauses : p.ended = Null /\ p.started < asOf
    BY <1>4
  <2> DEFINE s == p.started
             P == pauses \ {p}
             O == P \cup {[started |-> s, ended |-> Null]}
             Q == P \cup {[started |-> s, ended |-> asOf]}
  <2>2. p = [started |-> s, ended |-> Null] /\ s \in Nat
    BY <1>2, <2>1
  <2>3. \A q \in P : q.ended # Null /\ q.ended <= s
    BY <1>1, <2>1 DEF InOrder
  <2>4. O = pauses
    BY <2>2
  <2>5. Repaused(pauses, op, asOf) = Q
    <3>1. Repaused(pauses, op, asOf) =
            {IF q.ended = Null THEN [started |-> q.started, ended |-> asOf] ELSE q : q \in pauses}
      BY <1>4 DEF Repaused
    <3> QED BY <2>1, <2>3, <3>1
  <2>6. InOrder(P) /\ EndedBy(P, s)
    <3>1. IsFiniteSet(P)
      BY <1>1, FS_Subset DEF InOrder
    <3>2. InOrder(P)
      BY <1>1, <3>1 DEF InOrder
    <3> QED BY <2>3, <3>2 DEF EndedBy
  <2> HIDE DEF P, s
  <2>7. InOrder(Q) /\ AgreeUntil(O, Q, asOf)
    BY <1>1, <2>1, <2>2, <2>6, PauseEnds DEF s
  <2> QED BY <2>4, <2>5, <2>7
<1> QED BY <1>3, <1>4

(* A commit keeps history; and every balance before the last observation.  *)
LEMMA CommitKeepsHistory ==
  ASSUME IInv, KeptInv, NEW b \in Backends, Commit(b)
  PROVE  /\ KeptInv'
         /\ tx[b].req.op \in {"pause", "resume"} =>
              \A t \in 0..asOf : BalanceAt(ledger', pauses', t) = BalanceAt(ledger, pauses, t)
<1>1. /\ ledger' = ledger \cup tx[b].rows /\ asOf' = asOf /\ serial' = serial
      /\ pauses' = IF tx[b].req.op \in {"pause", "resume"} THEN tx[b].periods ELSE pauses
      /\ tx[b].step = "worked" /\ lock = b /\ DOMAIN tx = Backends
      /\ tx'[b] = Idle /\ \A c \in Backends \ {b} : tx'[c] = tx[c]
  BY DEF Commit, IInv, TypeOK
<1>2. \A c \in Backends : tx'[c].step # "worked"
  BY <1>1 DEF IInv, TypeOK, Idle, Session
<1>3. CASE tx[b].req.op \in {"pause", "resume"}
  <2> DEFINE op == tx[b].req.op
             Q == Repaused(pauses, op, asOf)
  <2>1. /\ op = "pause" => ~HasOpenPause
        /\ op = "resume" => \E p \in pauses : p.ended = Null /\ p.started < asOf
        /\ tx[b].rows = {} /\ tx[b].periods = Q
    BY <1>1, <1>3 DEF IInv, PeriodInv
  <2>2. op \in {"pause", "resume"}
    BY <1>3
  <2> HIDE DEF op
  <2>3. InOrder(Q) /\ AgreeUntil(pauses, Q, asOf)
    BY <2>1, <2>2, RepausedKeeps
  <2> HIDE DEF Q
  <2>4. /\ Kept(ledger, Q, serial, asOf)
        /\ \A u \in 0..asOf : Balance(ReplayAll(RowsUpTo(ledger, u), Q), u)
                                = Balance(ReplayAll(RowsUpTo(ledger, u), pauses), u)
    <3>1. InOrder(pauses) /\ Kept(ledger, pauses, serial, asOf) /\ serial \in Nat /\ asOf \in Nat
      BY Counters DEF KeptInv
    <3> QED BY <2>3, <3>1, PausesAlike
  <2>5. pauses' = Q /\ ledger' = ledger
    BY <1>1, <1>3, <2>1
  <2>6. KeptInv'
    BY <1>1, <1>2, <2>3, <2>4, <2>5 DEF KeptInv
  <2> QED BY <2>4, <2>5, <2>6 DEF BalanceAt, FoldLedger
<1>4. CASE tx[b].req.op \notin {"pause", "resume"}
  <2>1. pauses' = pauses /\ Kept(ledger', pauses, serial, asOf)
    BY <1>1, <1>4 DEF KeptInv
  <2>2. KeptInv'
    BY <1>1, <1>2, <2>1 DEF KeptInv
  <2> QED BY <1>4, <2>2
<1> QED BY <1>3, <1>4

(* An empty ledger is a history.                                           *)
LEMMA KeptInitially == Init => KeptInv
<1> SUFFICES ASSUME Init PROVE KeptInv
  OBVIOUS
<1>1. ledger = {} /\ pauses = {} /\ \A b \in Backends : tx[b].step # "worked"
  BY DEF Init, Idle, Session
<1>2. InOrder({}) /\ RowsOK({}) /\ ClosesOver({}, {})
  BY FS_EmptySet DEF InOrder, RowsOK, ClosesOver
<1>3. Kept({}, {}, serial, asOf)
  BY <1>2, NothingReplays DEF Kept
<1> QED BY <1>1, <1>2, <1>3 DEF KeptInv

(* Every step keeps history.                                               *)
LEMMA KeptStep == IInv /\ KeptInv /\ [Next]_vars => KeptInv'
<1> SUFFICES ASSUME IInv, KeptInv, [Next]_vars PROVE KeptInv'
  OBVIOUS
<1>1. ASSUME UNCHANGED <<ledger, pauses, serial>>, asOf' \in Nat, asOf <= asOf',
             \A b \in Backends : tx'[b].step = "worked" => tx'[b] = tx[b] /\ asOf' = asOf
      PROVE  KeptInv'
  <2>1. Kept(ledger, pauses, serial, asOf')
    <3>1. Kept(ledger, pauses, serial, asOf) /\ serial \in Nat /\ asOf \in Nat /\ serial <= serial
      BY Counters DEF KeptInv
    <3> QED BY <1>1, <3>1, KeptLonger
  <2> QED BY <1>1, <2>1 DEF KeptInv
<1>2. CASE Tick
  <2>1. /\ UNCHANGED <<ledger, pauses, serial, tx>>
        /\ asOf' = IF lock = Nobody THEN clock + 1 ELSE asOf
    BY <1>2 DEF Tick
  <2>2. asOf' \in Nat /\ asOf <= asOf'
    BY <2>1, Counters
  <2>3. \A b \in Backends : tx'[b].step = "worked" => tx'[b] = tx[b] /\ asOf' = asOf
    BY <2>1, LedgerAssumption DEF IInv, TypeOK
  <2> QED BY <1>1, <2>1, <2>2, <2>3
<1>3. CASE ChangeTier \/ UNCHANGED vars
  <2>1. UNCHANGED <<ledger, pauses, serial, tx, asOf>>
    BY <1>3 DEF ChangeTier, vars
  <2>2. asOf' \in Nat /\ asOf <= asOf'
    BY <2>1, Counters
  <2> QED BY <1>1, <2>1, <2>2
<1>4. ASSUME NEW b \in Backends,
             (\E req \in Requests : Begin(b, req)) \/ Refuse(b) \/ Rollback(b)
      PROVE  KeptInv'
  <2>1. /\ UNCHANGED <<ledger, pauses, serial, asOf>>
        /\ \A c \in Backends : tx'[c].step = "worked" => tx'[c] = tx[c]
    BY <1>4 DEF Begin, Refuse, Rollback, Session, Idle, IInv, TypeOK
  <2>2. asOf' \in Nat /\ asOf <= asOf'
    BY <2>1, Counters
  <2> QED BY <1>1, <2>1, <2>2
<1>5. ASSUME NEW b \in Backends, TakeLock(b) PROVE KeptInv'
  <2>1. /\ UNCHANGED <<ledger, pauses, serial>> /\ asOf' = clock /\ lock = Nobody
        /\ DOMAIN tx = Backends
        /\ \A c \in Backends : tx'[c].step = "worked" => tx'[c] = tx[c]
    BY <1>5 DEF TakeLock, Session, IInv, TypeOK
  <2>2. asOf' \in Nat /\ asOf <= asOf'
    BY <2>1, Counters
  <2>3. \A c \in Backends : tx'[c].step # "worked"
    BY <2>1, LedgerAssumption DEF IInv, TypeOK
  <2> QED BY <1>1, <2>1, <2>2, <2>3
<1>6. ASSUME NEW b \in Backends, Work(b) PROVE KeptInv'
  BY <1>6, WorkKeepsHistory
<1>7. ASSUME NEW b \in Backends, Commit(b) PROVE KeptInv'
  BY <1>7, CommitKeepsHistory
<1> QED BY <1>2, <1>3, <1>4, <1>5, <1>6, <1>7 DEF Next

(* History is always kept.                                                 *)
LEMMA KeptHistory == Spec => [](IInv /\ KeptInv)
BY InitIInv, StepIInv, KeptInitially, KeptStep, PTL DEF Spec

(* Kept history replays, with and without what is staged.                  *)
LEMMA KeptNeverThrows ==
  ASSUME IInv, KeptInv
  PROVE  ReplayNeverThrows
<1>1. \A b \in Backends : tx[b].step # "worked" => tx[b].rows = {}
  BY DEF IInv, StagedInv
<1>2. \A b, c \in Backends : tx[b].step = "worked" /\ tx[c].step = "worked" => b = c
  BY DEF IInv, TypeOK
<1>3. clock \in Nat /\ asOf \in Nat /\ asOf <= clock
  BY Counters
<1>4. Kept(ledger \cup Staged, pauses, serial, asOf)
  <2>1. CASE \E b \in Backends : tx[b].step = "worked"
    <3>1. PICK b \in Backends : tx[b].step = "worked"
      BY <2>1
    <3>2. Staged = tx[b].rows
      BY <1>1, <1>2, <3>1 DEF Staged
    <3> QED BY <3>1, <3>2 DEF KeptInv
  <2>2. CASE ~\E b \in Backends : tx[b].step = "worked"
    <3>1. ledger \cup Staged = ledger
      BY <1>1, <2>2 DEF Staged
    <3> QED BY <3>1 DEF KeptInv
  <2> QED BY <2>1, <2>2
<1>5. \A r \in ledger \cup Staged : r.at <= clock
  BY <1>3, <1>4 DEF Kept, RowsOK
<1>6. FoldLedger(ledger \cup Staged, pauses, clock) = ReplayAll(ledger \cup Staged, pauses)
  BY <1>5, FoldReadsAll
<1> QED BY <1>4, <1>6 DEF ReplayNeverThrows, Kept, Sound

(* With no lot left to close, the plain sum of the rows is the balance.    *)
LEMMA CleanSumIsBalance ==
    ASSUME NEW R, NEW P, InOrder(P), NEW s, NEW t \in Nat, Kept(R, P, s, t), Clean(R, P, t)
    PROVE  Given(R) = Balance(ReplayAll(R, P), t)
<1> DEFINE w == [r \in R |-> r.delta]
           left == Left(R, P)
<1>1. RowsOK(R) /\ Sound(R, P) /\ IsFiniteSet(R) /\ \A r \in R : w[r] = r.delta
  BY DEF Kept, RowsOK
<1> HIDE DEF w
<1>2. Given(R) = Total(w, R)
  BY <1>1, GivenIsTotal
<1>3. Total(w, R) = Total(left, LotRows(R))
  BY <1>1, LeftAddsUp
<1>4. left \in [LotRows(R) -> Nat] /\ Alive(R, P, t) \in SUBSET LotRows(R) /\ IsFiniteSet(LotRows(R))
  BY <1>1, LeftIs, LotRowsFinite DEF Alive
<1>5. \A r \in LotRows(R) \ Alive(R, P, t) : left[r] = 0
  BY DEF Clean, Alive
<1> HIDE DEF left
<1>6. Total(left, LotRows(R)) = Total(left, Alive(R, P, t))
  BY <1>4, <1>5, TotalOfSome
<1>7. Balance(ReplayAll(R, P), t) = Total(left, Alive(R, P, t))
  BY <1>1, BalanceIs DEF left
<1> QED BY <1>2, <1>3, <1>6, <1>7

(* ... which is what a spend and a read leave behind.                      *)
LEMMA KeptSumIsBalance ==
  ASSUME IInv, KeptInv
  PROVE  SumIsBalance
<1> SUFFICES ASSUME NEW b \in Backends, tx[b].step = "worked", tx[b].req.op \in Spends \cup {"read"}
             PROVE  SumOf(LAMBDA r : r.delta, ledger \cup tx[b].rows)
                      = BalanceAt(ledger \cup tx[b].rows, pauses, tx[b].stamp)
  BY DEF SumIsBalance
<1> DEFINE R == ledger \cup tx[b].rows
<1>1. tx[b].stamp = asOf /\ asOf \in Nat
  BY Counters DEF IInv, TypeOK, StagedInv
<1>2. InOrder(pauses) /\ Kept(R, pauses, serial, asOf) /\ Clean(R, pauses, asOf)
  BY DEF KeptInv
<1> HIDE DEF R
<1>3. BalanceAt(R, pauses, asOf) = Balance(ReplayAll(R, pauses), asOf)
  BY <1>2, FoldReadsAll DEF Kept
<1>4. Given(R) = Balance(ReplayAll(R, pauses), asOf)
  BY <1>1, <1>2, CleanSumIsBalance
<1> QED BY <1>1, <1>3, <1>4 DEF Given, R

(* However sessions race, roll back and retry, and whatever is paused and  *)
(* resumed: replaying the ledger never throws (no expiry row closes a lot  *)
(* with the wrong amount, no spend finds too little), not even with what a *)
(* lock holder has staged; and after a debit, an adjustment or a read the  *)
(* plain sum of the rows is the balance (fold.ts, foldLedger; ledger.ts,   *)
(* deriveBalanceInTx).                                                     *)
THEOREM LedgerHistoryReplays == Spec => []HistoryReplays
<1>1. IInv /\ KeptInv => HistoryReplays
  BY KeptNeverThrows, KeptSumIsBalance DEF HistoryReplays
<1> QED BY <1>1, KeptHistory, PTL

(* The balance of an instant already looked at never changes again: no row *)
(* is dated before it, and a pause that begins or ends shifts no lot that  *)
(* was over by then (fold.ts, foldLedger and effectiveExpiry).             *)
THEOREM LedgerPastBalancesAreFixed == Spec => PastBalancesAreFixed
<1> DEFINE Same == \A t \in 0..(asOf - 1) :
                     BalanceAt(ledger', pauses', t) = BalanceAt(ledger, pauses, t)
           Past == pauses' = pauses => Same
           Fixed == ledger' # ledger \/ pauses' # pauses => Same
<1>1. IInv /\ KeptInv /\ [Next]_vars /\ [Past]_vars => [Fixed]_vars
  <2> SUFFICES ASSUME IInv, KeptInv, Next, [Past]_vars, pauses' # pauses PROVE Same
    BY DEF vars
  <2>1. PICK b \in Backends : Commit(b)
    BY DEF Next, Tick, ChangeTier, Begin, TakeLock, Refuse, Rollback,
           Work, WorkRead, WorkSpend, WorkRefund, WorkLot, WorkPause, Stage
  <2>2. tx[b].req.op \in {"pause", "resume"}
    BY <2>1 DEF Commit
  <2>3. \A t \in 0..asOf : BalanceAt(ledger', pauses', t) = BalanceAt(ledger, pauses, t)
    BY <2>1, <2>2, CommitKeepsHistory
  <2>4. asOf \in Nat
    BY Counters
  <2> QED BY <2>3, <2>4
<1>2. Spec => [][Past]_vars
  BY LedgerPastBalances DEF Past, Same
<1> HIDE DEF Past, Fixed
<1>3. Spec => [][Fixed]_vars
  BY <1>1, <1>2, KeptHistory, PTL DEF Spec
<1> QED BY <1>3 DEF Fixed, Same, PastBalancesAreFixed

-----------------------------------------------------------------------------
(***************************************************************************)
(* Where a spend took from.  The trace of a replay, spend by spend; and    *)
(* what it becomes when a lot joins history that ends with one of the lots *)
(* the spend took from, as a refund does: the refund may itself be taken   *)
(* from by a spend of the same instant, and the lots of the debit may lose *)
(* what they gave, but never all those of the refund's date.               *)
(***************************************************************************)

(* What spends take from; who replays before a row.                        *)
Outlays(U)   == {x \in U : ~IsLotRow(x) /\ x.kind # "expiry"}
Before(U, d) == {q \in U : ReplaysBefore(q, d)}

(* The spend d takes from the lot i, of what the rows Q before it left.    *)
Eats(Q, P, d, i) ==
  \E r \in LotRows(Q) : r.id = i /\ Taken(Q, P, Left(Q, P), -d.delta, d.at)[r] > 0

(* Replaying one row more adds to the trace what that row takes, if it is a *)
(* spend.                                                                   *)
LEMMA TraceUnfolds ==
    ASSUME NEW U, RowsOK(U), NEW P, InOrder(P), NEW x \in U, \A q \in U \ {x} : ReplaysBefore(q, x),
           NEW n, NEW i
    PROVE  Traced(U, P, n, i) <=> \/ Traced(U \ {x}, P, n, i)
                                  \/ x \in Outlays(U) /\ n = x.id /\ Eats(U \ {x}, P, x, i)
<1> DEFINE Q == U \ {x}
           s == ReplayAll(Q, P)
           left == Left(Q, P)
<1>1. RowsOK(Q) /\ x \notin Q /\ Q \cup {x} = U
  BY SomeRowsOK
<1>2. ReplayAll(U, P) = Replay(x, s, P)
  <2>1. LastReplayed(U) = x
    BY LastIs
  <2>2. U # {}
    OBVIOUS
  <2> QED BY <2>1, <2>2, ReplayUnfolds
<1> HIDE DEF Q
<1>3. PICK shut : LotsAre(s.lots, Q, P, left, shut)
  BY <1>1, LeftIs
<1>4. Replayed(s)
  BY <1>1, LeftIs
<1>5. RowsOK(Q \cup {x})
  BY <1>1
<1> HIDE DEF s, left
<1>6. CASE IsLotRow(x)
  <2>1. Replay(x, s, P).trace = s.trace
    BY <1>1, <1>3, <1>4, <1>5, <1>6, LotReplays
  <2> QED BY <1>2, <1>6, <2>1 DEF Traced, Outlays, s, Q
<1>7. CASE ~IsLotRow(x) /\ x.kind = "expiry"
  <2>1. /\ Replayed(Replay(x, s, P))
        /\ Replay(x, s, P).sound <=> s.sound /\ Replays(x, Q, P, left)
        /\ Replay(x, s, P).trace = s.trace
        /\ \E c : LotsAre(Replay(x, s, P).lots, Q \cup {x}, P, NextLeft(x, Q, P, left), c)
    BY <1>1, <1>3, <1>4, <1>5, <1>7, ExpiryReplays
  <2> QED BY <1>2, <1>7, <2>1 DEF Traced, Outlays, s, Q
<1>8. CASE ~IsLotRow(x) /\ x.kind # "expiry"
  <2> DEFINE take == Allocation(s.lots, -x.delta, x.at)
             tk == Taken(Q, P, left, -x.delta, x.at)
  <2>1. -x.delta \in Nat /\ x.at \in Nat
    BY <1>8 DEF RowsOK
  <2>2. \A r \in LotRows(Q) : TakenFrom(take, LotAs(r, P, left[r], shut[r])) = tk[r]
    BY <1>1, <1>3, <2>1, AllocationIs
  <2>3. Replay(x, s, P) = ReplaySpend(x, s)
    BY <1>8 DEF Replay
  <2>4. ReplaySpend(x, s).trace =
          s.trace \cup {[debit |-> x.id, lot |-> l.id, amount |-> TakenFrom(take, l)]
                          : l \in {k \in s.lots : TakenFrom(take, k) > 0}}
    <3> DEFINE ok == s.sound /\ AllTaken(take, s.lots) = -x.delta
               rest == {[l EXCEPT !.remaining = @ - TakenFrom(take, l)] : l \in s.lots}
               trace == s.trace \cup {[debit |-> x.id, lot |-> l.id, amount |-> TakenFrom(take, l)]
                                        : l \in {k \in s.lots : TakenFrom(take, k) > 0}}
    <3>1. ReplaySpend(x, s) = [s EXCEPT !.sound = ok, !.lots = rest, !.trace = trace]
      BY Zenon DEF ReplaySpend, TakenFrom, AllTaken
    <3> HIDE DEF ok, rest, trace
    <3>2. [s EXCEPT !.sound = ok, !.lots = rest, !.trace = trace] = [lots |-> rest, trace |-> trace, sound |-> ok]
      <4>1. \A a, b, y : [s EXCEPT !.sound = y, !.lots = a, !.trace = b] = [lots |-> a, trace |-> b, sound |-> y]
        BY <1>4, ThreeFields
      <4> QED BY <4>1, Zenon
    <3> QED BY <3>1, <3>2 DEF trace
  <2> HIDE DEF take, tk
  <2>5. s.lots = {LotAs(r, P, left[r], shut[r]) : r \in LotRows(Q)}
    BY <1>3 DEF LotsAre
  <2>6. \A r \in LotRows(Q) : LotAs(r, P, left[r], shut[r]).id = r.id
    BY DEF LotAs
  <2>7. (\E l \in s.lots : TakenFrom(take, l) > 0 /\ l.id = i) <=> \E r \in LotRows(Q) : r.id = i /\ tk[r] > 0
    BY <2>2, <2>5, <2>6
  <2> DEFINE more == {[debit |-> x.id, lot |-> l.id, amount |-> TakenFrom(take, l)]
                        : l \in {k \in s.lots : TakenFrom(take, k) > 0}}
  <2>8. (\E e \in more : e.debit = n /\ e.lot = i) <=> n = x.id /\ \E l \in s.lots : TakenFrom(take, l) > 0 /\ l.id = i
    <3>1. ASSUME NEW e \in more, e.debit = n, e.lot = i
          PROVE  n = x.id /\ \E l \in s.lots : TakenFrom(take, l) > 0 /\ l.id = i
      <4>1. PICK l \in {k \in s.lots : TakenFrom(take, k) > 0} : e = [debit |-> x.id, lot |-> l.id, amount |-> TakenFrom(take, l)]
        BY <3>1
      <4> QED BY <3>1, <4>1
    <3>2. ASSUME n = x.id, NEW l \in s.lots, TakenFrom(take, l) > 0, l.id = i
          PROVE  \E e \in more : e.debit = n /\ e.lot = i
      <4> DEFINE e == [debit |-> x.id, lot |-> l.id, amount |-> TakenFrom(take, l)]
      <4>1. l \in {k \in s.lots : TakenFrom(take, k) > 0}
        BY <3>2
      <4>2. e \in more
        BY <4>1
      <4>3. e.debit = n /\ e.lot = i
        BY <3>2
      <4> HIDE DEF e, more
      <4> QED BY <4>2, <4>3
    <3> HIDE DEF more
    <3> QED BY <3>1, <3>2
  <2>9. ReplayAll(U, P).trace = s.trace \cup more
    BY <1>2, <2>3, <2>4
  <2> HIDE DEF more
  <2>10. Eats(Q, P, x, i) <=> \E r \in LotRows(Q) : r.id = i /\ tk[r] > 0
    BY DEF Eats, tk, left
  <2>11. x \in Outlays(U)
    BY <1>8 DEF Outlays
  <2> QED BY <2>7, <2>8, <2>9, <2>10, <2>11 DEF Traced, s, Q
<1> QED BY <1>6, <1>7, <1>8

(* The trace names what each spend takes of what the rows before it left.  *)
LEMMA TraceIs ==
    ASSUME NEW R, RowsOK(R), NEW P, InOrder(P)
    PROVE  \A n, i : Traced(R, P, n, i) <=> \E d \in Outlays(R) : d.id = n /\ Eats(Before(R, d), P, d, i)
<1> DEFINE T == {U \in SUBSET R :
                   \A n, i : Traced(U, P, n, i) <=> \E d \in Outlays(U) : d.id = n /\ Eats(Before(U, d), P, d, i)}
<1>1. {} \in T
  <2>1. RowsOK({})
    BY FS_EmptySet DEF RowsOK
  <2>2. ReplayAll({}, P) = EmptyReplay
    BY <2>1, ReplayUnfolds
  <2> QED BY <2>2 DEF Traced, EmptyReplay, Outlays
<1>2. ASSUME NEW U \in SUBSET R, NEW x \in U, \A q \in U \ {x} : ReplaysBefore(q, x), U \ {x} \in T
      PROVE  U \in T
  <2> DEFINE Q == U \ {x}
  <2>1. RowsOK(U)
    BY SomeRowsOK
  <2>2. ~ReplaysBefore(x, x) /\ \A q \in Q : ~ReplaysBefore(x, q)
    <3>1. ~ReplaysBefore(x, x) /\ \A a, b \in U : ~(ReplaysBefore(a, b) /\ ReplaysBefore(b, a))
      BY <2>1, ReplayOrder
    <3> QED BY <1>2, <3>1
  <2>3. Before(U, x) = Q
    BY <1>2, <2>2 DEF Before
  <2>4. \A d \in Q : Before(U, d) = Before(Q, d)
    BY <2>2 DEF Before
  <2>5. Outlays(Q) = Outlays(U) \ {x}
    BY DEF Outlays
  <2>6. \A n, i : Traced(Q, P, n, i) <=> \E d \in Outlays(Q) : d.id = n /\ Eats(Before(Q, d), P, d, i)
    BY <1>2
  <2>7. \A n, i : Traced(U, P, n, i) <=> Traced(Q, P, n, i) \/ (x \in Outlays(U) /\ n = x.id /\ Eats(Q, P, x, i))
    BY <1>2, <2>1, TraceUnfolds
  <2> HIDE DEF Q
  <2>8. \A d \in Outlays(Q) : Before(U, d) = Before(Q, d)
    BY <2>4 DEF Outlays
  <2>9. Outlays(U) \subseteq Outlays(Q) \cup {x} /\ Outlays(Q) \subseteq Outlays(U)
    BY <2>5
  <2> QED BY <2>3, <2>6, <2>7, <2>8, <2>9
<1> HIDE DEF T
<1>3. \A U \in SUBSET R : U \in T
  BY <1>1, <1>2, ReplayInduction
<1> QED BY <1>3 DEF T

(* The living lots that end before n: they are spent before the others.    *)
Dated(Q, P, t, n) == {r \in Alive(Q, P, t) : Eff(r, P).at # Null /\ Eff(r, P).at < n}

(* The lots that end before n are spent together, and before the others.    *)
LEMMA DatedTogether ==
    ASSUME NEW Q, RowsOK(Q), NEW P, InOrder(P), NEW t \in Nat, NEW n \in Nat
    PROVE  /\ SpentTogether(Dated(Q, P, t, n), Q, P, t)
           /\ Dated(Q, P, t, n) \in SUBSET LotRows(Q)
           /\ \A q \in Dated(Q, P, t, n), r \in Alive(Q, P, t) : r \notin Dated(Q, P, t, n) => SpentFirst(q, r, P)
<1> DEFINE D == Dated(Q, P, t, n)
<1>1. \A r \in Alive(Q, P, t) : r \in LotRows(Q) /\ r \in Q
  BY DEF Alive, LotRows
<1>2. \A r \in Alive(Q, P, t) : Eff(r, P).at \in Int
  BY <1>1, EffType
<1>3. ASSUME NEW a \in Alive(Q, P, t), NEW b \in Alive(Q, P, t), SpentFirst(a, b, P), b \in D
      PROVE  a \in D
  <2> DEFINE x == LotAs(a, P, 0, FALSE)
             y == LotAs(b, P, 0, FALSE)
  <2>1. DateRank(x) < DateRank(y) \/ (DateRank(x) = DateRank(y) /\ Date(x) <= Date(y))
    <3>1. DateRank(x) \in Int /\ DateRank(y) \in Int /\ Date(x) \in Int /\ Date(y) \in Int
      BY <1>2 DEF DateRank, Date, LotAs
    <3> HIDE DEF x, y
    <3>2. \/ DateRank(x) < DateRank(y)
          \/ DateRank(x) = DateRank(y) /\ Date(x) < Date(y)
          \/ DateRank(x) = DateRank(y) /\ Date(x) = Date(y)
      BY <1>3, SpentFirstIs DEF x, y
    <3> QED BY <3>1, <3>2
  <2>2. x.eff = Eff(a, P) /\ y.eff = Eff(b, P)
    BY DEF LotAs
  <2>3. Eff(b, P).at # Null /\ Eff(b, P).at < n
    BY <1>3 DEF Dated
  <2> HIDE DEF x, y
  <2>4. Eff(a, P).at # Null /\ Eff(a, P).at <= Eff(b, P).at
    BY <2>1, <2>2, <2>3 DEF DateRank, Date
  <2> QED BY <1>2, <2>3, <2>4 DEF Dated
<1>4. SpentTogether(D, Q, P, t)
  <2>1. D \subseteq Alive(Q, P, t)
    BY DEF Dated
  <2> HIDE DEF D
  <2> QED BY <1>3, <2>1 DEF SpentTogether
<1>5. D \in SUBSET LotRows(Q)
  BY DEF Dated, Alive
<1>6. ASSUME NEW q \in D, NEW r \in Alive(Q, P, t), r \notin D PROVE SpentFirst(q, r, P)
  <2>1. q \in Alive(Q, P, t) /\ q # r
    BY <1>6 DEF Dated
  <2>2. SpentFirst(q, r, P) \/ SpentFirst(r, q, P)
    BY <1>1, <2>1, SpendOrder
  <2> HIDE DEF D
  <2> QED BY <1>3, <1>6, <2>1, <2>2
<1> QED BY <1>4, <1>5, <1>6

(* A spend leaves of lots that are spent first what it does not ask.       *)
LEMMA SegmentLeft ==
    ASSUME NEW Q, RowsOK(Q), NEW P, InOrder(P), NEW left \in [LotRows(Q) -> Nat], NEW a \in Nat, NEW t \in Nat,
           NEW W, SpentTogether(W, Q, P, t), NEW m, m = [r \in LotRows(Q) |-> left[r] - Taken(Q, P, left, a, t)[r]]
    PROVE  /\ Total(m, W) = Total(left, W) - AtMost(a, Total(left, W))
           /\ Total(left, W) \in Nat
<1> DEFINE tk == Taken(Q, P, left, a, t)
<1>1. W \in SUBSET LotRows(Q) /\ IsFiniteSet(W)
  <2>1. W \in SUBSET LotRows(Q)
    BY DEF SpentTogether, Alive
  <2> QED BY <2>1, LotRowsFinite
<1>2. \A q \in LotRows(Q) : tk[q] \in Nat /\ left[q] \in Nat
  BY TakenWithin
<1>3. Total(tk, W) = AtMost(a, Total(left, W)) /\ Total(left, W) \in Nat
  BY TakenTotals
<1> HIDE DEF tk
<1>4. \A y \in W : left[y] \in Int /\ tk[y] \in Int /\ m[y] = left[y] - tk[y]
  BY <1>1, <1>2 DEF tk
<1>5. Total(m, W) = Total(left, W) - Total(tk, W)
  BY <1>1, <1>4, TotalMinus
<1> QED BY <1>3, <1>5

(* What is left of the lots that end before M is the same with a lot beside*)
(* them that ends at M; and there is no less of those that end by M.       *)
Beside(U, x, P, t, M) ==
  /\ Total(Left(U \cup {x}, P), Dated(U, P, t, M)) = Total(Left(U, P), Dated(U, P, t, M))
  /\ Total(Left(U, P), Dated(U, P, t, M + 1)) <= Total(Left(U \cup {x}, P), Dated(U, P, t, M + 1) \cup {x})

(* A lot that joins history at t, after the lots before it.                *)
Joins(x, R, P, t) ==
  /\ RowsBy(R, P, t)
  /\ x \notin R /\ IsLotRow(x) /\ x.at = t /\ RowsOK(R \cup {x})
  /\ \A r \in R : r.kind # "expiry" => r.id < x.id
  /\ \A e \in R : e.kind = "expiry" => e.ref # x.id

(* A lot that ends at M > t joins those that end by M, not those that end   *)
(* before.                                                                  *)
LEMMA DatedGrows ==
    ASSUME NEW Q, NEW x, IsLotRow(x), NEW P, NEW t \in Nat, NEW M \in Nat, M > t, Eff(x, P).at = M
    PROVE  /\ Dated(Q \cup {x}, P, t, M) = Dated(Q, P, t, M) \ {x}
           /\ Dated(Q \cup {x}, P, t, M + 1) = Dated(Q, P, t, M + 1) \cup {x}
<1>1. ~Over(Eff(x, P), t) /\ M # Null
  BY DEF Over, Null
<1>2. Alive(Q \cup {x}, P, t) = Alive(Q, P, t) \cup {x}
  BY <1>1, AliveGrows
<1> QED BY <1>1, <1>2 DEF Dated

(* However much of history has been replayed, that is what a lot beside the *)
(* others leaves.                                                           *)
LEMMA LotBeside ==
    ASSUME NEW R, NEW P, InOrder(P), NEW t \in Nat, NEW x, Joins(x, R, P, t),
           NEW M \in Nat, M > t, Eff(x, P).at = M
    PROVE  \A U \in SUBSET R : Beside(U, x, P, t, M)
<1> DEFINE T == {U \in SUBSET R : Beside(U, x, P, t, M)}
<1>0. /\ RowsOK(R) /\ RowsOK(R \cup {x}) /\ x \notin R /\ IsLotRow(x) /\ x.at = t
      /\ \A r \in R : r.at <= t /\ r.at \in Nat /\ r.id \in Nat
      /\ \A r \in R : r.kind # "expiry" => r.id < x.id
      /\ \A e \in R : e.kind = "expiry" => e.ref # x.id
      /\ \A e \in R : e.kind = "expiry" => \A r \in LotRows(R) : r.id = e.ref => Over(Eff(r, P), t)
  BY DEF Joins, RowsBy, RowsOK
<1>1. ASSUME NEW U \in SUBSET R, \A r \in U : ReplaysBefore(r, x) PROVE U \in T
  <2> DEFINE V == U \cup {x}
             l == Left(U, P)
             m == Left(V, P)
  <2>1. RowsOK(U) /\ RowsOK(V) /\ x \notin U
    <3>1. U \in SUBSET R /\ V \in SUBSET (R \cup {x}) /\ x \notin U
      BY <1>0
    <3> HIDE DEF V
    <3> QED BY <1>0, <3>1, SomeRowsOK
  <2>2. V \ {x} = U /\ x \in V
    BY <2>1
  <2>3. \A q \in V \ {x} : ReplaysBefore(q, x)
    BY <1>1
  <2>4. m = NextLeft(x, U, P, l)
    <3> HIDE DEF V
    <3> QED BY <2>1, <2>2, <2>3, LeftUnfolds
  <2>5. l \in [LotRows(U) -> Nat]
    BY <2>1, LeftIs
  <2>6. Dated(U, P, t, M) \in SUBSET LotRows(U) /\ Dated(U, P, t, M + 1) \in SUBSET LotRows(U)
    BY DEF Dated, Alive
  <2> HIDE DEF V, l, m
  <2>7. /\ NextLeft(x, U, P, l)[x] = x.delta /\ x.delta \in Nat
        /\ \A r \in LotRows(U) : NextLeft(x, U, P, l)[r] = l[r]
        /\ \A W \in SUBSET LotRows(U) :
             /\ Total(NextLeft(x, U, P, l), W \cup {x}) = Total(l, W) + x.delta
             /\ Total(NextLeft(x, U, P, l), W) = Total(l, W)
             /\ Total(l, W) \in Nat
    <3>1. x \notin U /\ RowsOK(U \cup {x}) /\ IsLotRow(x)
      BY <1>0, <2>1 DEF V
    <3> QED BY <2>5, <3>1, LotAddsTo
  <2>8. /\ Total(m, Dated(U, P, t, M)) = Total(l, Dated(U, P, t, M))
        /\ Total(m, Dated(U, P, t, M + 1) \cup {x}) = Total(l, Dated(U, P, t, M + 1)) + x.delta
        /\ Total(l, Dated(U, P, t, M + 1)) \in Nat /\ x.delta \in Nat
    BY <2>4, <2>6, <2>7
  <2>9. Total(l, Dated(U, P, t, M + 1)) <= Total(m, Dated(U, P, t, M + 1) \cup {x})
    BY <2>8
  <2> QED BY <2>8, <2>9 DEF Beside, V, l, m
<1>2. ASSUME NEW U \in SUBSET R, NEW y \in U, \A q \in U \ {y} : ReplaysBefore(q, y), U \ {y} \in T,
             ~\A r \in U : ReplaysBefore(r, x)
      PROVE  U \in T
  <2> DEFINE Q == U \ {y}
             Qx == Q \cup {x}
             Ux == U \cup {x}
             l == Left(Q, P)
             m == Left(Qx, P)
  <2>1. /\ RowsOK(Q) /\ RowsOK(Qx) /\ RowsOK(U) /\ RowsOK(Ux) /\ x \notin U /\ x \notin Q /\ y \notin Qx
        /\ Q \cup {y} = U /\ Qx \cup {y} = Ux /\ Ux \ {y} = Qx /\ y \in Ux /\ Q \in SUBSET R
    <3>1. U \in SUBSET R /\ Q \in SUBSET R /\ Ux \in SUBSET (R \cup {x}) /\ Qx \in SUBSET (R \cup {x}) /\ x \notin U
      BY <1>0
    <3>2. RowsOK(U) /\ RowsOK(Q) /\ RowsOK(Ux) /\ RowsOK(Qx)
      <4> HIDE DEF Q, Qx, Ux
      <4> QED BY <1>0, <3>1, SomeRowsOK
    <3> QED BY <3>1, <3>2
  <2>2. ReplaysBefore(x, y) /\ x # y
    <3>1. PICK r \in U : ~ReplaysBefore(r, x)
      BY <1>2
    <3>2. \A a, b \in R \cup {x} : a # b => ReplaysBefore(a, b) \/ ReplaysBefore(b, a)
      BY <1>0, ReplayOrder
    <3>3. \A a, b, c \in R \cup {x} : ReplaysBefore(a, b) /\ ReplaysBefore(b, c) => ReplaysBefore(a, c)
      BY <1>0, ReplayOrder
    <3>4. ReplaysBefore(x, r) /\ r # x
      BY <1>0, <3>1, <3>2
    <3> QED BY <1>0, <1>2, <3>3, <3>4
  <2>3. \A q \in Qx : ReplaysBefore(q, y)
    BY <1>2, <2>2
  <2>4. y.at = t /\ ~IsLotRow(y)
    <3>1. y.at <= t /\ y.at \in Nat /\ x.at = t /\ ReplayRank(x) = 0
      BY <1>0 DEF ReplayRank
    <3>2. y.at = t
      BY <2>2, <3>1 DEF ReplaysBefore
    <3>3. ASSUME IsLotRow(y) PROVE FALSE
      <4>1. ReplayRank(y) = 0 /\ y.id < x.id /\ y.id \in Nat
        BY <1>0, <3>3 DEF ReplayRank, IsLotRow, LotKinds
      <4>2. x.id \in Nat
        BY <1>0 DEF RowsOK
      <4> QED BY <2>2, <3>1, <3>2, <4>1, <4>2 DEF ReplaysBefore
    <3> QED BY <3>2, <3>3
  <2>5. Left(U, P) = NextLeft(y, Q, P, l)
    <3>1. y \in U /\ \A q \in U \ {y} : ReplaysBefore(q, y)
      BY <1>2
    <3> QED BY <2>1, <3>1, LeftUnfolds
  <2>6. Left(Ux, P) = NextLeft(y, Qx, P, m)
    <3>1. y \in Ux /\ \A q \in Ux \ {y} : ReplaysBefore(q, y)
      BY <2>1, <2>3
    <3>2. Left(Ux, P) = NextLeft(y, Ux \ {y}, P, Left(Ux \ {y}, P))
      <4> HIDE DEF Ux, Qx
      <4> QED BY <2>1, <3>1, LeftUnfolds
    <3> QED BY <2>1, <3>2
  <2>7. l \in [LotRows(Q) -> Nat] /\ m \in [LotRows(Qx) -> Nat]
    BY <2>1, LeftIs
  <2>8. LotRows(U) = LotRows(Q) /\ LotRows(Qx) = LotRows(Q) \cup {x} /\ Alive(U, P, t) = Alive(Q, P, t)
    BY <1>0, <2>1, <2>4 DEF LotRows, Alive
  <2> DEFINE E == Dated(Q, P, t, M)
             F == Dated(Q, P, t, M + 1)
  <2>9. /\ Dated(U, P, t, M) = E /\ Dated(U, P, t, M + 1) = F
        /\ Dated(Qx, P, t, M) = E /\ Dated(Qx, P, t, M + 1) = F \cup {x}
    <3>1. Dated(U, P, t, M) = E /\ Dated(U, P, t, M + 1) = F
      BY <2>8 DEF Dated
    <3>2. x \notin E
      BY <2>1 DEF Dated, Alive, LotRows
    <3>3. Dated(Qx, P, t, M) = E \ {x} /\ Dated(Qx, P, t, M + 1) = F \cup {x}
      <4> HIDE DEF Q
      <4>1. /\ Dated(Q \cup {x}, P, t, M) = Dated(Q, P, t, M) \ {x}
            /\ Dated(Q \cup {x}, P, t, M + 1) = Dated(Q, P, t, M + 1) \cup {x}
        <5>1. ~Over(Eff(x, P), t) /\ M # Null
          BY DEF Over, Null
        <5>2. Alive(Q \cup {x}, P, t) = Alive(Q, P, t) \cup {x}
          BY <1>0, <5>1, AliveGrows
        <5> HIDE DEF T, Qx, Ux, l, m, E, F
        <5> QED BY <5>1, <5>2 DEF Dated
      <4> QED BY <4>1
    <3> QED BY <3>1, <3>2, <3>3
  <2>10. Total(m, E) = Total(l, E) /\ Total(l, F) <= Total(m, F \cup {x})
    BY <1>2 DEF Beside
  <2>11. E \in SUBSET LotRows(Q) /\ F \in SUBSET LotRows(Q) /\ E \subseteq Alive(Q, P, t) /\ F \subseteq Alive(Q, P, t)
    BY DEF Dated, Alive
  <2> HIDE DEF E, F, Q, Qx, Ux, l, m
  <2>12. CASE y.kind = "expiry"
    <3>1. \A r \in F \cup {x} \cup E : r.id # y.ref
      <4>1. \A r \in Alive(Q, P, t) : r \in LotRows(R) /\ ~Over(Eff(r, P), t)
        BY <2>1 DEF Alive, LotRows
      <4> QED BY <1>0, <2>11, <2>12, <4>1
    <3> DEFINE nl == NextLeft(y, Q, P, l)
               nm == NextLeft(y, Qx, P, m)
    <3>2. nl = [r \in LotRows(Q) |-> IF r.id = y.ref THEN 0 ELSE l[r]]
      BY <2>4, <2>12 DEF NextLeft
    <3>3. nm = [r \in LotRows(Qx) |-> IF r.id = y.ref THEN 0 ELSE m[r]]
      BY <2>4, <2>12 DEF NextLeft
    <3> HIDE DEF nl, nm
    <3>4. (\A r \in E : nl[r] = l[r]) /\ (\A r \in F : nl[r] = l[r])
      BY <2>11, <3>1, <3>2
    <3>5. (\A r \in E : nm[r] = m[r]) /\ (\A r \in F \cup {x} : nm[r] = m[r])
      BY <2>8, <2>11, <3>1, <3>3
    <3>6. IsFiniteSet(E) /\ IsFiniteSet(F) /\ IsFiniteSet(F \cup {x})
      <4>1. IsFiniteSet(E) /\ IsFiniteSet(F)
        BY <2>1, <2>11, LotRowsFinite
      <4> QED BY <4>1, FS_AddElement
    <3>7. Total(nl, E) = Total(l, E) /\ Total(nl, F) = Total(l, F)
      BY <3>4, <3>6, TotalSame
    <3>8. Total(nm, E) = Total(m, E) /\ Total(nm, F \cup {x}) = Total(m, F \cup {x})
      BY <3>5, <3>6, TotalSame
    <3>9. Left(U, P) = nl /\ Left(Ux, P) = nm
      BY <2>5, <2>6 DEF nl, nm
    <3> QED BY <2>9, <2>10, <3>7, <3>8, <3>9 DEF Beside, Ux
  <2>13. CASE y.kind # "expiry"
    <3> DEFINE a == -y.delta
               nl == NextLeft(y, Q, P, l)
               nm == NextLeft(y, Qx, P, m)
    <3>1. a \in Nat
      BY <1>0, <2>4 DEF RowsOK
    <3>2. nl = [r \in LotRows(Q) |-> l[r] - Taken(Q, P, l, a, t)[r]]
      BY <2>4, <2>13 DEF NextLeft
    <3>3. nm = [r \in LotRows(Qx) |-> m[r] - Taken(Qx, P, m, a, t)[r]]
      BY <2>4, <2>13 DEF NextLeft
    <3> HIDE DEF a, nl, nm
    <3>4. M + 1 \in Nat
      OBVIOUS
    <3>5. SpentTogether(E, Q, P, t) /\ SpentTogether(F, Q, P, t)
      BY <2>1, <3>4, DatedTogether DEF E, F
    <3>6. SpentTogether(E, Qx, P, t) /\ SpentTogether(F \cup {x}, Qx, P, t)
      <4>1. SpentTogether(Dated(Qx, P, t, M), Qx, P, t) /\ SpentTogether(Dated(Qx, P, t, M + 1), Qx, P, t)
        BY <2>1, <3>4, DatedTogether
      <4> QED BY <2>9, <4>1
    <3>7. Total(nl, E) = Total(l, E) - AtMost(a, Total(l, E)) /\ Total(l, E) \in Nat
      BY <2>1, <2>7, <3>1, <3>2, <3>5, SegmentLeft
    <3>8. Total(nl, F) = Total(l, F) - AtMost(a, Total(l, F)) /\ Total(l, F) \in Nat
      BY <2>1, <2>7, <3>1, <3>2, <3>5, SegmentLeft
    <3>9. Total(nm, E) = Total(m, E) - AtMost(a, Total(m, E)) /\ Total(m, E) \in Nat
      BY <2>1, <2>7, <3>1, <3>3, <3>6, SegmentLeft
    <3>10. /\ Total(nm, F \cup {x}) = Total(m, F \cup {x}) - AtMost(a, Total(m, F \cup {x}))
           /\ Total(m, F \cup {x}) \in Nat
      BY <2>1, <2>7, <3>1, <3>3, <3>6, SegmentLeft
    <3>11. Total(nl, F) <= Total(nm, F \cup {x})
      BY <2>10, <3>1, <3>8, <3>10 DEF AtMost
    <3>12. Total(nm, E) = Total(nl, E)
      BY <2>10, <3>7, <3>9
    <3>13. Left(U, P) = nl /\ Left(Ux, P) = nm
      BY <2>5, <2>6 DEF nl, nm
    <3> QED BY <2>9, <3>11, <3>12, <3>13 DEF Beside, Ux
  <2> QED BY <2>12, <2>13
<1>3. {} \in T
  <2>1. \A r \in {} : ReplaysBefore(r, x)
    OBVIOUS
  <2> HIDE DEF T
  <2> QED BY <1>1, <2>1
<1>4. ASSUME NEW U \in SUBSET R, NEW y \in U, \A q \in U \ {y} : ReplaysBefore(q, y), U \ {y} \in T
      PROVE  U \in T
  <2> HIDE DEF T
  <2> QED BY <1>1, <1>2, <1>4
<1>5. \A U \in SUBSET R : U \in T
  <2> HIDE DEF T
  <2>1. \A U \in SUBSET R : \A y \in U :
             (\A q \in U \ {y} : ReplaysBefore(q, y)) /\ U \ {y} \in T => U \in T
    BY <1>4
  <2> QED BY <1>0, <1>3, <2>1, ReplayInduction
<1> QED BY <1>5

(* A total exceeds that of a part when something outside it weighs.        *)
LEMMA TotalExceeds ==
    ASSUME NEW U, IsFiniteSet(U), NEW V \in SUBSET U, NEW w, \A y \in U : w[y] \in Nat
    PROVE  Total(w, V) < Total(w, U) <=> \E y \in U \ V : w[y] > 0
<1> DEFINE W == U \ V
<1>1. /\ Total(w, U) = Total(w, V) + Total(w, W)
      /\ Total(w, U) \in Int /\ Total(w, V) \in Int /\ Total(w, W) \in Int
  BY TotalSplit
<1>2. ASSUME NEW y \in W, w[y] > 0 PROVE Total(w, W) > 0
  <2> DEFINE s == W \ {y}
  <2>1. IsFiniteSet(s) /\ IsFiniteSet(W) /\ s \in SUBSET W /\ y \notin s /\ s \cup {y} = W
    BY FS_Subset
  <2>2. (\A z \in W : w[z] \in Int) /\ \A z \in s : w[z] \in Nat
    OBVIOUS
  <2> HIDE DEF s, W
  <2>3. Total(w, s \cup {y}) = Total(w, s) + w[y]
    BY <2>1, <2>2, TotalAdds
  <2>4. Total(w, s) \in Nat
    BY <2>1, <2>2, TotalNat
  <2>5. w[y] \in Int
    BY <2>2
  <2>6. Total(w, W) = Total(w, s) + w[y]
    BY <2>1, <2>3
  <2> QED BY <1>2, <2>4, <2>5, <2>6
<1>3. ASSUME \A y \in W : ~(w[y] > 0) PROVE Total(w, U) = Total(w, V)
  <2>1. (\A y \in U : w[y] \in Int) /\ \A y \in U \ V : w[y] = 0
    BY <1>3
  <2> QED BY <2>1, TotalOfSome
<1> HIDE DEF W
<1>4. Total(w, V) < Total(w, U) <=> Total(w, W) > 0
  BY <1>1
<1>5. (\E y \in W : w[y] > 0) => Total(w, W) > 0
  BY <1>2
<1>6. ~(\E y \in W : w[y] > 0) => Total(w, U) = Total(w, V)
  BY <1>3
<1> QED BY <1>1, <1>4, <1>5, <1>6 DEF W

(* ... of some lot that ends at M.                                         *)
EatsSome(V, Q, P, d, M) == \E y \in LotRows(V) : Eff(y, P).at = M /\ Eats(Q, P, d, y.id)

(* A lot that ends at M is spent beside the others that do: what took from *)
(* one of them takes from one of them still.                               *)
LEMMA StillEats ==
    ASSUME NEW R, NEW P, NEW t, NEW x, NEW M, NEW d, NEW r,
           t \in Nat, M \in Nat, d \in Outlays(R), r \in LotRows(R), InOrder(P), Joins(x, R, P, t), M > t, Eff(x, P).at = M,
           d.at = t, Eff(r, P).at = M, Eats(Before(R, d), P, d, r.id)
    PROVE  EatsSome(R \cup {x}, Before(R, d) \cup {x}, P, d, M)
<1> DEFINE Q == Before(R, d)
           Qx == Q \cup {x}
           l == Left(Q, P)
           m == Left(Qx, P)
           a == -d.delta
           E == Dated(Q, P, t, M)
           F == Dated(Q, P, t, M + 1)
           tk == Taken(Q, P, l, a, t)
           tx2 == Taken(Qx, P, m, a, t)
<1>0. RowsOK(R) /\ RowsOK(R \cup {x}) /\ x \notin R /\ IsLotRow(x)
  BY DEF Joins, RowsBy
<1>1. Q \in SUBSET R /\ Qx \in SUBSET (R \cup {x}) /\ x \notin Q
  BY <1>0 DEF Before
<1>2. RowsOK(Q) /\ RowsOK(Qx)
  <2> HIDE DEF Q, Qx
  <2> QED BY <1>0, <1>1, SomeRowsOK
<1>3. a \in Nat
  BY <1>0 DEF RowsOK, Outlays
<1>4. Total(m, E) = Total(l, E) /\ Total(l, F) <= Total(m, F \cup {x})
  <2>1. Beside(Q, x, P, t, M)
    <3> HIDE DEF Q
    <3> QED BY <1>1, LotBeside
  <2> QED BY <2>1 DEF Beside
<1>5. r \in LotRows(Q) /\ tk[r] > 0
  <2>1. PICK q \in LotRows(Q) : q.id = r.id /\ tk[q] > 0
    BY DEF Eats
  <2>2. q \in LotRows(R)
    BY <1>1 DEF LotRows
  <2>3. q = r
    BY <1>0, <2>1, <2>2, LotsNamed
  <2> QED BY <2>1, <2>3
<1>6. l \in [LotRows(Q) -> Nat] /\ m \in [LotRows(Qx) -> Nat]
  BY <1>2, LeftIs
<1>7. r \in Alive(Q, P, t)
  <2>1. tk[r] = IF r \in Alive(Q, P, t) THEN Clip(l[r], a - AheadOf(r, Q, P, l, t)) ELSE 0
    BY <1>5 DEF Taken
  <2> HIDE DEF tk
  <2> QED BY <1>5, <2>1
<1>8. \A q \in LotRows(Q) : Eff(q, P).at \in Int
  BY <1>2, EffType DEF LotRows
<1>9. r \in F /\ r \notin E /\ E \subseteq F /\ F \in SUBSET LotRows(Q)
  <2>1. M # Null
    BY DEF Null
  <2>2. r \in F /\ r \notin E
    BY <1>7, <2>1 DEF Dated
  <2>3. E \subseteq Alive(Q, P, t) /\ F \subseteq Alive(Q, P, t) /\ Alive(Q, P, t) \subseteq LotRows(Q)
    BY DEF Dated, Alive
  <2>4. \A q \in LotRows(Q) : Eff(q, P).at < M => Eff(q, P).at < M + 1
    BY <1>8
  <2>5. E \subseteq F
    BY <2>3, <2>4 DEF Dated
  <2> QED BY <2>2, <2>3, <2>5
<1>10. /\ Dated(Qx, P, t, M) = E /\ Dated(Qx, P, t, M + 1) = F \cup {x}
  <2>1. ~Over(Eff(x, P), t) /\ M # Null
    BY DEF Over, Null
  <2>2. Alive(Qx, P, t) = Alive(Q, P, t) \cup {x}
    BY <1>0, <2>1, AliveGrows
  <2>3. x \notin E
    BY <1>1 DEF Dated, Alive, LotRows
  <2> HIDE DEF Qx
  <2>4. Dated(Qx, P, t, M) = E \ {x} /\ Dated(Qx, P, t, M + 1) = F \cup {x}
    BY <2>1, <2>2 DEF Dated
  <2> QED BY <2>3, <2>4
<1>11. SpentTogether(E, Q, P, t) /\ SpentTogether(F, Q, P, t) /\ SpentTogether(E, Qx, P, t) /\ SpentTogether(F \cup {x}, Qx, P, t)
  <2>1. M + 1 \in Nat
    OBVIOUS
  <2>2. SpentTogether(E, Q, P, t) /\ SpentTogether(F, Q, P, t)
    BY <1>2, <2>1, DatedTogether
  <2> HIDE DEF Qx
  <2>3. SpentTogether(Dated(Qx, P, t, M), Qx, P, t) /\ SpentTogether(Dated(Qx, P, t, M + 1), Qx, P, t)
    BY <1>2, <2>1, DatedTogether
  <2> QED BY <1>10, <2>2, <2>3
<1> HIDE DEF Q, Qx, l, m, a, E, F, tk, tx2
<1>12. /\ Total(tk, E) = AtMost(a, Total(l, E)) /\ Total(l, E) \in Nat
       /\ Total(tk, F) = AtMost(a, Total(l, F)) /\ Total(l, F) \in Nat
  BY <1>2, <1>3, <1>6, <1>11, TakenTotals DEF tk
<1>13. /\ Total(tx2, E) = AtMost(a, Total(m, E)) /\ Total(m, E) \in Nat
       /\ Total(tx2, F \cup {x}) = AtMost(a, Total(m, F \cup {x})) /\ Total(m, F \cup {x}) \in Nat
  BY <1>2, <1>3, <1>6, <1>11, TakenTotals DEF tx2
<1>14. (\A q \in LotRows(Q) : tk[q] \in Nat) /\ (\A q \in LotRows(Qx) : tx2[q] \in Nat)
  BY <1>2, <1>3, <1>6, TakenWithin DEF tk, tx2
<1>15. F \cup {x} \in SUBSET LotRows(Qx)
  BY <1>0, <1>9, RowsGrow DEF Qx
<1>16. IsFiniteSet(F) /\ IsFiniteSet(F \cup {x})
  BY <1>2, <1>9, <1>15, LotRowsFinite
<1>17. Total(tk, E) < Total(tk, F)
  <2>1. E \in SUBSET F /\ \A y \in F : tk[y] \in Nat
    BY <1>9, <1>14
  <2>2. Total(tk, E) < Total(tk, F) <=> \E y \in F \ E : tk[y] > 0
    BY <1>16, <2>1, TotalExceeds
  <2> QED BY <1>5, <1>9, <2>2
<1>18. Total(tx2, E) < Total(tx2, F \cup {x})
  BY <1>3, <1>4, <1>12, <1>13, <1>17 DEF AtMost
<1>19. PICK y \in (F \cup {x}) \ E : tx2[y] > 0
  <2>1. E \in SUBSET (F \cup {x}) /\ \A y \in F \cup {x} : tx2[y] \in Nat
    BY <1>9, <1>14, <1>15
  <2>2. Total(tx2, E) < Total(tx2, F \cup {x}) <=> \E y \in (F \cup {x}) \ E : tx2[y] > 0
    BY <1>16, <2>1, TotalExceeds
  <2> QED BY <1>18, <2>2
<1>20. Eff(y, P).at = M
  <2>1. CASE y = x
    BY <2>1
  <2>2. CASE y # x
    <3>1. y \in F /\ y \notin E /\ Eff(y, P).at \in Int
      BY <1>8, <1>9, <1>19, <2>2
    <3>2. Eff(y, P).at < M + 1 /\ ~(Eff(y, P).at < M)
      BY <3>1 DEF E, F, Dated
    <3> QED BY <3>1, <3>2
  <2> QED BY <2>1, <2>2
<1>21. y \in LotRows(Qx) /\ y \in LotRows(R \cup {x})
  BY <1>1, <1>15, <1>19 DEF LotRows
<1>22. Eats(Qx, P, d, y.id)
  BY <1>19, <1>21 DEF Eats, tx2, m, a
<1> QED BY <1>20, <1>21, <1>22 DEF EatsSome, Qx, Q

(* A lot that is over when it joins changes nothing for the others.        *)
LEMMA TakenAside ==
    ASSUME NEW Q, NEW x, NEW P, NEW t, NEW a, NEW l, NEW m,
           x \notin Q, RowsOK(Q \cup {x}), IsLotRow(x), Over(Eff(x, P), t),
           \A r \in LotRows(Q) : m[r] = l[r]
    PROVE  \A r \in LotRows(Q) : Taken(Q \cup {x}, P, m, a, t)[r] = Taken(Q, P, l, a, t)[r]
<1> SUFFICES ASSUME NEW r \in LotRows(Q) PROVE Taken(Q \cup {x}, P, m, a, t)[r] = Taken(Q, P, l, a, t)[r]
  OBVIOUS
<1> DEFINE Qx == Q \cup {x}
           V == {q \in Alive(Q, P, t) : SpentFirst(q, r, P)}
<1>1. Alive(Qx, P, t) = Alive(Q, P, t)
  BY DEF Alive, LotRows
<1>2. V \in SUBSET LotRows(Q) /\ V \in SUBSET LotRows(Qx) /\ r \in LotRows(Qx)
  BY DEF Alive, LotRows
<1>3. IsFiniteSet(V)
  <2>1. RowsOK(Qx)
    OBVIOUS
  <2> HIDE DEF V, Qx
  <2> QED BY <1>2, <2>1, LotRowsFinite
<1> HIDE DEF V
<1>4. Total(m, V) = Total(l, V)
  <2>1. \A y \in V : m[y] = l[y]
    BY <1>2
  <2> QED BY <1>3, <2>1, TotalSame
<1>5. AheadOf(r, Qx, P, m, t) = AheadOf(r, Q, P, l, t)
  BY <1>1, <1>4 DEF AheadOf, V
<1> HIDE DEF Qx
<1>6. Taken(Qx, P, m, a, t)[r] = IF r \in Alive(Qx, P, t) THEN Clip(m[r], a - AheadOf(r, Qx, P, m, t)) ELSE 0
  BY <1>2 DEF Taken
<1>7. Taken(Q, P, l, a, t)[r] = IF r \in Alive(Q, P, t) THEN Clip(l[r], a - AheadOf(r, Q, P, l, t)) ELSE 0
  BY DEF Taken
<1> QED BY <1>1, <1>5, <1>6, <1>7 DEF Qx

(* ... so that what is left of them is the same.                            *)
LEMMA LotAside ==
    ASSUME NEW R, NEW P, InOrder(P), NEW t \in Nat, NEW x, Joins(x, R, P, t), Over(Eff(x, P), t)
    PROVE  \A U \in SUBSET R : \A r \in LotRows(U) : Left(U \cup {x}, P)[r] = Left(U, P)[r]
<1> DEFINE T == {U \in SUBSET R : \A r \in LotRows(U) : Left(U \cup {x}, P)[r] = Left(U, P)[r]}
<1>0. /\ RowsOK(R) /\ RowsOK(R \cup {x}) /\ x \notin R /\ IsLotRow(x) /\ x.at = t
      /\ \A r \in R : r.at <= t /\ r.at \in Nat /\ r.id \in Nat
      /\ \A r \in R : r.kind # "expiry" => r.id < x.id
  BY DEF Joins, RowsBy, RowsOK
<1>1. ASSUME NEW U \in SUBSET R, \A r \in U : ReplaysBefore(r, x) PROVE U \in T
  <2> DEFINE V == U \cup {x}
             l == Left(U, P)
             m == Left(V, P)
  <2>1. RowsOK(U) /\ RowsOK(V) /\ x \notin U
    <3>1. U \in SUBSET R /\ V \in SUBSET (R \cup {x}) /\ x \notin U
      BY <1>0
    <3> HIDE DEF V
    <3> QED BY <1>0, <3>1, SomeRowsOK
  <2>2. V \ {x} = U /\ x \in V
    BY <2>1
  <2>3. \A q \in V \ {x} : ReplaysBefore(q, x)
    BY <1>1
  <2>4. m = NextLeft(x, U, P, l)
    <3> HIDE DEF V
    <3> QED BY <2>1, <2>2, <2>3, LeftUnfolds
  <2>5. \A r \in LotRows(U) : r # x
    BY <2>1 DEF LotRows
  <2> HIDE DEF V, m, l
  <2>6. \A r \in LotRows(U) : m[r] = l[r]
    BY <1>0, <2>4, <2>5 DEF NextLeft
  <2> QED BY <2>6 DEF m, l, V
<1>2. ASSUME NEW U \in SUBSET R, NEW y \in U, \A q \in U \ {y} : ReplaysBefore(q, y), U \ {y} \in T,
             ~\A r \in U : ReplaysBefore(r, x)
      PROVE  U \in T
  <2> DEFINE Q == U \ {y}
             Qx == Q \cup {x}
             Ux == U \cup {x}
             l == Left(Q, P)
             m == Left(Qx, P)
  <2>1. /\ RowsOK(Q) /\ RowsOK(Qx) /\ RowsOK(U) /\ RowsOK(Ux) /\ x \notin U /\ x \notin Q /\ y \notin Qx
        /\ Q \cup {y} = U /\ Qx \cup {y} = Ux /\ Ux \ {y} = Qx /\ y \in Ux /\ Q \in SUBSET R
    <3>1. U \in SUBSET R /\ Q \in SUBSET R /\ Ux \in SUBSET (R \cup {x}) /\ Qx \in SUBSET (R \cup {x}) /\ x \notin U
      BY <1>0
    <3>2. RowsOK(U) /\ RowsOK(Q) /\ RowsOK(Ux) /\ RowsOK(Qx)
      <4> HIDE DEF Q, Qx, Ux
      <4> QED BY <1>0, <3>1, SomeRowsOK
    <3> QED BY <3>1, <3>2
  <2>2. ReplaysBefore(x, y) /\ x # y
    <3>1. PICK r \in U : ~ReplaysBefore(r, x)
      BY <1>2
    <3>2. \A a, b \in R \cup {x} : a # b => ReplaysBefore(a, b) \/ ReplaysBefore(b, a)
      BY <1>0, ReplayOrder
    <3>3. \A a, b, c \in R \cup {x} : ReplaysBefore(a, b) /\ ReplaysBefore(b, c) => ReplaysBefore(a, c)
      BY <1>0, ReplayOrder
    <3>4. ReplaysBefore(x, r) /\ r # x
      BY <1>0, <3>1, <3>2
    <3> QED BY <1>0, <1>2, <3>3, <3>4
  <2>3. \A q \in Qx : ReplaysBefore(q, y)
    BY <1>2, <2>2
  <2>4. y.at = t /\ ~IsLotRow(y)
    <3>1. y.at <= t /\ y.at \in Nat /\ x.at = t /\ ReplayRank(x) = 0
      BY <1>0 DEF ReplayRank
    <3>2. y.at = t
      BY <2>2, <3>1 DEF ReplaysBefore
    <3>3. ASSUME IsLotRow(y) PROVE FALSE
      <4>1. ReplayRank(y) = 0 /\ y.id < x.id /\ y.id \in Nat
        BY <1>0, <3>3 DEF ReplayRank, IsLotRow, LotKinds
      <4>2. x.id \in Nat
        BY <1>0 DEF RowsOK
      <4> QED BY <2>2, <3>1, <3>2, <4>1, <4>2 DEF ReplaysBefore
    <3> QED BY <3>2, <3>3
  <2>5. Left(U, P) = NextLeft(y, Q, P, l)
    <3>1. y \in U /\ \A q \in U \ {y} : ReplaysBefore(q, y)
      BY <1>2
    <3> QED BY <2>1, <3>1, LeftUnfolds
  <2>6. Left(Ux, P) = NextLeft(y, Qx, P, m)
    <3>1. y \in Ux /\ \A q \in Ux \ {y} : ReplaysBefore(q, y)
      BY <2>1, <2>3
    <3>2. Left(Ux, P) = NextLeft(y, Ux \ {y}, P, Left(Ux \ {y}, P))
      <4> HIDE DEF Ux, Qx
      <4> QED BY <2>1, <3>1, LeftUnfolds
    <3> QED BY <2>1, <3>2
  <2>7. l \in [LotRows(Q) -> Nat] /\ m \in [LotRows(Qx) -> Nat]
    BY <2>1, LeftIs
  <2>8. LotRows(U) = LotRows(Q) /\ LotRows(Qx) = LotRows(Q) \cup {x}
    BY <1>0, <2>1, <2>4 DEF LotRows
  <2>9. \A r \in LotRows(Q) : m[r] = l[r]
    BY <1>2
  <2>10. \A r \in LotRows(Q) : Taken(Qx, P, m, -y.delta, t)[r] = Taken(Q, P, l, -y.delta, t)[r]
    <3>1. x \notin Q /\ RowsOK(Q \cup {x}) /\ IsLotRow(x) /\ Over(Eff(x, P), t)
      BY <1>0, <2>1
    <3>2. m \in [LotRows(Q \cup {x}) -> Nat]
      BY <2>7
    <3> DEFINE a == -y.delta
    <3> HIDE DEF T, Q, Ux, l, m, a
    <3>3. \A r \in LotRows(Q) : Taken(Q \cup {x}, P, m, a, t)[r] = Taken(Q, P, l, a, t)[r]
      BY <2>9, <3>1, TakenAside
    <3> QED BY <3>3 DEF a
  <2> HIDE DEF Q, Qx, Ux, l, m
  <2>11. \A r \in LotRows(Q) : NextLeft(y, Qx, P, m)[r] = NextLeft(y, Q, P, l)[r]
    <3>1. CASE y.kind = "expiry"
      <4>1. /\ NextLeft(y, Q, P, l) = [r \in LotRows(Q) |-> IF r.id = y.ref THEN 0 ELSE l[r]]
            /\ NextLeft(y, Qx, P, m) = [r \in LotRows(Qx) |-> IF r.id = y.ref THEN 0 ELSE m[r]]
        BY <2>4, <3>1 DEF NextLeft
      <4> QED BY <2>8, <2>9, <4>1
    <3>2. CASE y.kind # "expiry"
      <4>1. /\ NextLeft(y, Q, P, l) = [r \in LotRows(Q) |-> l[r] - Taken(Q, P, l, -y.delta, t)[r]]
            /\ NextLeft(y, Qx, P, m) = [r \in LotRows(Qx) |-> m[r] - Taken(Qx, P, m, -y.delta, t)[r]]
        BY <2>4, <3>2 DEF NextLeft
      <4> QED BY <2>8, <2>9, <2>10, <4>1
    <3> QED BY <3>1, <3>2
  <2> QED BY <2>5, <2>6, <2>8, <2>11 DEF Ux
<1>3. {} \in T
  <2>1. \A r \in {} : ReplaysBefore(r, x)
    OBVIOUS
  <2> HIDE DEF T
  <2> QED BY <1>1, <2>1
<1>4. ASSUME NEW U \in SUBSET R, NEW y \in U, \A q \in U \ {y} : ReplaysBefore(q, y), U \ {y} \in T
      PROVE  U \in T
  <2> HIDE DEF T
  <2> QED BY <1>1, <1>2, <1>4
<1>5. \A U \in SUBSET R : U \in T
  <2> HIDE DEF T
  <2>1. \A U \in SUBSET R : \A y \in U :
             (\A q \in U \ {y} : ReplaysBefore(q, y)) /\ U \ {y} \in T => U \in T
    BY <1>4
  <2> QED BY <1>0, <1>3, <2>1, ReplayInduction
<1> QED BY <1>5

(* ... and what took from one of them takes from it still.                 *)
LEMMA AsideEats ==
    ASSUME NEW R, NEW P, InOrder(P), NEW t \in Nat, NEW x, Joins(x, R, P, t), Over(Eff(x, P), t),
           NEW d \in Outlays(R), d.at = t, NEW i, Eats(Before(R, d), P, d, i)
    PROVE  Eats(Before(R, d) \cup {x}, P, d, i)
<1> DEFINE Q == Before(R, d)
           Qx == Q \cup {x}
           l == Left(Q, P)
           m == Left(Qx, P)
           a == -d.delta
<1>0. RowsOK(R) /\ RowsOK(R \cup {x}) /\ x \notin R /\ IsLotRow(x)
  BY DEF Joins, RowsBy
<1>1. Q \in SUBSET R /\ Qx \in SUBSET (R \cup {x}) /\ x \notin Q
  BY <1>0 DEF Before
<1>2. RowsOK(Qx)
  <2> HIDE DEF Q, Qx
  <2> QED BY <1>0, <1>1, SomeRowsOK
<1>3. \A r \in LotRows(Q) : m[r] = l[r]
  <2> HIDE DEF Q
  <2> QED BY <1>1, LotAside
<1>4. PICK r \in LotRows(Q) : r.id = i /\ Taken(Q, P, l, a, t)[r] > 0
  BY DEF Eats
<1> HIDE DEF Q, l, m, a
<1>5. \A q \in LotRows(Q) : Taken(Q \cup {x}, P, m, a, t)[q] = Taken(Q, P, l, a, t)[q]
  <2>1. x \notin Q /\ RowsOK(Q \cup {x}) /\ IsLotRow(x) /\ Over(Eff(x, P), t)
    BY <1>0, <1>1, <1>2
  <2> HIDE DEF Qx
  <2> QED BY <1>3, <2>1, TakenAside
<1>6. Taken(Qx, P, m, a, t)[r] > 0 /\ r \in LotRows(Qx)
  BY <1>4, <1>5 DEF LotRows
<1>7. Eats(Qx, P, d, i)
  BY <1>4, <1>6 DEF Eats, m, a
<1> QED BY <1>7 DEF Q

(* A debit that took from a lot that ends at M still takes from one when   *)
(* another lot that ends at M joins.                                       *)
LEMMA TracedStill ==
    ASSUME NEW R, NEW P, NEW t, NEW x, NEW M, NEW n, t \in Nat, M \in Nat,
           InOrder(P), Joins(x, R, P, t), Eff(x, P).at = M, SourcedAt(R, P, n, M)
    PROVE  SourcedAt(R \cup {x}, P, n, M)
<1> DEFINE U == R \cup {x}
<1>0. /\ RowsOK(R) /\ RowsOK(U) /\ x \notin R /\ IsLotRow(x) /\ x.at = t
      /\ \A q \in R : q.at <= t /\ q.at \in Nat
  BY DEF Joins, RowsBy, RowsOK
<1> PICK r \in LotRows(R) : Eff(r, P).at = M /\ Traced(R, P, n, r.id)
  BY DEF SourcedAt
<1>1. PICK d \in Outlays(R) : d.id = n /\ Eats(Before(R, d), P, d, r.id)
  BY <1>0, TraceIs
<1>2. d \in R /\ d \in Outlays(U) /\ ReplayRank(d) = 2 /\ ReplayRank(x) = 0
  BY <1>0 DEF Outlays, ReplayRank
<1> DEFINE Goal == \E y \in LotRows(U) : Eff(y, P).at = M /\ Eats(Before(U, d), P, d, y.id)
<1>3. ASSUME Goal PROVE \E y \in LotRows(U) : Eff(y, P).at = M /\ Traced(U, P, n, y.id)
  <2>1. PICK y \in LotRows(U) : Eff(y, P).at = M /\ Eats(Before(U, d), P, d, y.id)
    BY <1>3
  <2> HIDE DEF U
  <2>2. Traced(U, P, n, y.id) <=> \E e \in Outlays(U) : e.id = n /\ Eats(Before(U, e), P, e, y.id)
    BY <1>0, TraceIs
  <2>3. Traced(U, P, n, y.id)
    BY <1>1, <1>2, <2>1, <2>2
  <2> QED BY <2>1, <2>3
<1>4. ASSUME d.at < t PROVE Goal
  <2>1. ~ReplaysBefore(x, d)
    BY <1>0, <1>2, <1>4 DEF ReplaysBefore
  <2>2. Before(U, d) = Before(R, d)
    BY <2>1 DEF Before
  <2>3. r \in LotRows(U)
    BY DEF LotRows
  <2> QED BY <1>1, <2>2, <2>3
<1>5. ASSUME d.at = t PROVE Goal
  <2>1. ReplaysBefore(x, d)
    BY <1>0, <1>2, <1>5 DEF ReplaysBefore
  <2>2. Before(U, d) = Before(R, d) \cup {x}
    BY <2>1 DEF Before
  <2>3. ASSUME M > t PROVE Goal
    <3>1. EatsSome(R \cup {x}, Before(R, d) \cup {x}, P, d, M)
      <4>1. /\ InOrder(P) /\ Joins(x, R, P, t) /\ M > t /\ Eff(x, P).at = M
            /\ d.at = t /\ Eff(r, P).at = M /\ Eats(Before(R, d), P, d, r.id)
        BY <1>1, <1>5, <2>3
      <4>2. t \in Nat /\ M \in Nat /\ d \in Outlays(R) /\ r \in LotRows(R)
        OBVIOUS
      <4> HIDE DEF U
      <4> HIDE DEF Goal
      <4> QED BY <4>1, <4>2, StillEats
    <3> QED BY <2>2, <3>1 DEF EatsSome
  <2>4. ASSUME M <= t PROVE Goal
    <3>1. Over(Eff(x, P), t)
      BY <2>4 DEF Over, Null
    <3>2. Eats(Before(R, d) \cup {x}, P, d, r.id)
      BY <1>1, <1>5, <3>1, AsideEats
    <3>3. r \in LotRows(U)
      BY DEF LotRows
    <3> QED BY <2>2, <3>2, <3>3
  <2> HIDE DEF Goal
  <2> QED BY <2>3, <2>4
<1> HIDE DEF Goal
<1>6. d.at < t \/ d.at = t
  BY <1>0, <1>2
<1> QED BY <1>3, <1>4, <1>5, <1>6 DEF U, SourcedAt

(* Pauses that ended before a lot was born do not move its expiry.         *)
LEMMA BornAfter ==
    ASSUME NEW P, InOrder(P), NEW t \in Nat, EndedBy(P, t), NEW exp \in Nat
    PROVE  EffectiveExpiry(exp, P, t) = [at |-> exp, frozen |-> FALSE]
<1> DEFINE e == [at |-> exp, frozen |-> FALSE]
           T == {s \in SUBSET P : EffectiveExpiry(exp, s, t) = e}
<1>0. e \in Expiries
  BY DEF Expiries
<1>1. ASSUME NEW s \in SUBSET P, \A r \in SUBSET s : r # s => r \in T PROVE s \in T
  <2>1. CASE s = {}
    <3>1. EffectiveExpiry(exp, {}, t) = Shifted(exp, MergePauses({}), t)
      BY ExpiryIsShifted
    <3>2. EffectiveExpiry(exp, {}, t) = e
      BY <3>1, NothingToMerge, NothingShifts
    <3> QED BY <2>1, <3>2
  <2>2. CASE s # {}
    <3> DEFINE p == LatestStarted(s)
               r == s \ {p}
    <3>1. p \in s /\ p \in P /\ InOrder(r) /\ EndedBy(r, p.started)
      BY <2>2, OthersEnded
    <3>2. r \in T /\ r \cup {p} = s
      BY <1>1, <3>1
    <3>3. p \in Period /\ p.started \in Nat /\ p.ended \in Nat /\ p.ended # Null /\ p.started < p.ended /\ p.ended <= t
      BY <3>1 DEF InOrder, EndedBy, Period
    <3> HIDE DEF p, r, e
    <3>4. EffectiveExpiry(exp, r \cup {p}, t) = ShiftBy(p, t, EffectiveExpiry(exp, r, t))
      BY <3>1, <3>3, ExpiryAppends
    <3>5. EffectiveExpiry(exp, r, t) = e
      BY <3>2
    <3>6. ShiftBy(p, t, e) = e
      <4>1. Start(p, t) = t
        BY <3>3 DEF Start
      <4>2. e.at \in Int
        BY <1>0 DEF Expiries
      <4> QED BY <1>0, <3>3, <4>1, <4>2, ShiftIs
    <3> QED BY <3>2, <3>4, <3>5, <3>6
  <2> QED BY <2>1, <2>2
<1>2. P \in T
  <2> HIDE DEF T
  <2> QED BY <1>1, SetInduction DEF InOrder
<1> QED BY <1>2

(* A lot born now expires when it says; or not yet, while a pause is open. *)
LEMMA BornNow ==
    ASSUME NEW P, InOrder(P), NEW t \in Nat, NEW exp \in Nat,
           \A p \in P : p.started <= t /\ (p.ended # Null => p.ended <= t)
    PROVE  EffectiveExpiry(exp, P, t).at \in {exp, Null}
<1>1. CASE EndedBy(P, t)
  BY <1>1, BornAfter
<1>2. CASE ~EndedBy(P, t)
  <2>1. PICK p \in P : p.ended = Null
    BY <1>2 DEF EndedBy
  <2> DEFINE Q == P \ {p}
             e == [at |-> exp, frozen |-> FALSE]
  <2>2. p \in Period /\ p.started \in Nat /\ p.started <= t
    BY DEF InOrder, Period
  <2>3. InOrder(Q) /\ EndedBy(Q, p.started) /\ Q \cup {p} = P
    <3>1. IsFiniteSet(Q) /\ Q \subseteq P
      BY FS_Subset DEF InOrder
    <3>2. InOrder(Q)
      BY <3>1 DEF InOrder
    <3>3. \A q \in Q : q.ended # Null /\ q.ended <= p.started
      BY <2>1 DEF InOrder
    <3> QED BY <3>2, <3>3 DEF EndedBy
  <2>4. EndedBy(Q, t)
    <3>1. \A q \in Q : q.ended # Null /\ q.ended <= t
      BY <2>3 DEF EndedBy
    <3> QED BY <3>1 DEF EndedBy
  <2> HIDE DEF Q
  <2>5. EffectiveExpiry(exp, Q, t) = e
    BY <2>3, <2>4, BornAfter
  <2>6. EffectiveExpiry(exp, Q \cup {p}, t) = ShiftBy(p, t, EffectiveExpiry(exp, Q, t))
    BY <2>1, <2>2, <2>3, ExpiryAppends
  <2>7. e \in Expiries /\ e.at = exp /\ ~e.frozen
    BY DEF Expiries
  <2> HIDE DEF e
  <2>8. ShiftBy(p, t, e) = e \/ ShiftBy(p, t, e) = [at |-> Null, frozen |-> TRUE]
    <3>1. Start(p, t) \in Nat
      BY <2>2 DEF Start
    <3> QED BY <2>1, <2>2, <2>7, <3>1, ShiftIs
  <2> QED BY <2>3, <2>5, <2>6, <2>7, <2>8
<1> QED BY <1>1, <1>2

-----------------------------------------------------------------------------
(***************************************************************************)
(* Refunds: each expires with the latest of the lots its debit consumed.   *)
(***************************************************************************)

(* What is staged of a refund comes from its debit's lots.                 *)
Fair(U, P, r) == IsLotRow(r) /\ (Eff(r, P).at # Null => SourcedAt(U, P, DebitOf(r.ref), Eff(r, P).at))

SourceInv ==
  \A b \in Backends : \A r \in tx[b].rows :
    r.kind = "refund" => Fair(ledger \cup tx[b].rows, pauses, r)

(* A lot written next joins history.                                       *)
LEMMA NextJoins ==
    ASSUME NEW R, NEW P, NEW s, NEW t, NEW x, InOrder(P), s \in Nat, t \in Nat, Kept(R, P, s, t),
           x.kind \in LotKinds, x.delta \in Nat \ {0}, x.id = s, x.at = t, x.exp \in Instants
    PROVE  Joins(x, R, P, t)
<1>1. RowsOK(R) /\ Sound(R, P) /\ \A r \in R : r.kind # "expiry" => r.id < s
  BY DEF Kept
<1>2. x.kind # "expiry" /\ IsLotRow(x) /\ x \notin R
  BY <1>1 DEF IsLotRow, LotKinds
<1>3. RowsBy(R, P, t)
  <2>1. t <= t
    OBVIOUS
  <2>2. Holds(R, P, t)
    BY <2>1, KeptHolds
  <2> QED BY <2>2 DEF Holds
<1>4. RowsOK(R \cup {x})
  <2>1. t <= t
    OBVIOUS
  <2>2. Kept(R \cup {x}, P, s + 1, t)
    BY <2>1, LotKept
  <2> QED BY <2>2 DEF Kept
<1>5. ASSUME NEW e \in R, e.kind = "expiry" PROVE e.ref # x.id
  <2>1. PICK r \in LotRows(R) : r.id = e.ref
    BY <1>1, <1>5, ClosedIsEmpty DEF AllClosed
  <2>2. r \in R /\ r.kind # "expiry" /\ r.id \in Nat
    BY <1>1, <2>1 DEF LotRows, IsLotRow, LotKinds, RowsOK
  <2> QED BY <1>1, <2>1, <2>2
<1> QED BY <1>1, <1>2, <1>3, <1>4, <1>5 DEF Joins

(* refundCredits stages a refund that is fair.                             *)
LEMMA RefundIsFair ==
    ASSUME IInv, KeptInv, NEW d, NEW ref, NEW n \in Nat \ {0}, NEW x, DebitOf(ref) = d,
           RefundExpiry(ledger \cup Derived, d) # Null,
           x = Row("refund", NextId, ref, n, clock, RefundExpiry(ledger \cup Derived, d))
    PROVE  Fair((ledger \cup Derived) \cup {x}, pauses, x)
<1> DEFINE R == ledger \cup Derived
           M == RefundExpiry(R, d)
<1>1. InOrder(pauses) /\ Kept(R, pauses, NextId, clock) /\ clock \in Nat /\ NextId \in Nat
  BY DerivedKept, Counters DEF KeptInv
<1>2. M \in Nat /\ SourcedAt(R, pauses, d, M)
  BY RefundSource
<1> HIDE DEF R, M
<1>3. /\ x.kind \in LotKinds /\ x.delta \in Nat \ {0} /\ x.id = NextId /\ x.at = clock
      /\ x.exp \in Instants /\ x.exp = M /\ x.ref = ref
  BY <1>2 DEF Row, LotKinds, Instants, M, R
<1>4. Joins(x, R, pauses, clock)
  BY <1>1, <1>3, NextJoins
<1>5. IsLotRow(x)
  BY <1>4 DEF Joins
<1>6. ASSUME Eff(x, pauses).at # Null PROVE SourcedAt(R \cup {x}, pauses, d, Eff(x, pauses).at)
  <2>1. Eff(x, pauses).at = M
    <3>1. \A p \in pauses : p.started <= clock /\ (p.ended # Null => p.ended <= clock)
      <4>1. asOf \in Nat /\ clock \in Nat /\ asOf <= clock
        BY Counters
      <4>2. \A p \in pauses : p.started \in 0..asOf /\ p.ended \in {Null} \cup 0..asOf
        BY DEF IInv, TypeOK
      <4> QED BY <4>1, <4>2
    <3>2. EffectiveExpiry(M, pauses, clock).at \in {M, Null}
      BY <1>1, <1>2, <3>1, BornNow
    <3> QED BY <1>3, <1>6, <3>2 DEF Eff
  <2>2. SourcedAt(R \cup {x}, pauses, d, M)
    <3>1. Eff(x, pauses).at = M
      BY <2>1
    <3> QED BY <1>1, <1>2, <1>4, <3>1, TracedStill
  <2> QED BY <2>1, <2>2
<1> QED BY <1>3, <1>5, <1>6 DEF Fair, R

(* Whatever a lock holder stages, its refunds are fair.                    *)
LEMMA WorkIsFair ==
  ASSUME IInv, KeptInv, SourceInv, NEW b \in Backends, Work(b)
  PROVE  SourceInv'
<1>1. DOMAIN tx = Backends
  BY DEF IInv, TypeOK
<1>2. CASE WorkPause(b)
  <2>1. /\ UNCHANGED <<ledger, pauses>> /\ tx'[b].rows = {}
        /\ \A c \in Backends \ {b} : tx'[c] = tx[c]
    BY <1>1, <1>2 DEF WorkPause, Session
  <2> QED BY <2>1 DEF SourceInv
<1>3. ASSUME NEW rows, NEW added, Stage(b, rows, added),
             \A r \in rows : r.kind = "refund" => Fair(ledger \cup rows, pauses, r)
      PROVE  SourceInv'
  <2>1. /\ UNCHANGED <<ledger, pauses>> /\ tx'[b].rows = rows
        /\ \A c \in Backends \ {b} : tx'[c] = tx[c]
    BY <1>1, <1>3 DEF Stage, Session
  <2> QED BY <1>3, <2>1 DEF SourceInv
<1>4. ASSUME NEW rows, NEW added, Stage(b, rows, added), \A r \in rows : r.kind # "refund"
      PROVE  SourceInv'
  BY <1>3, <1>4
<1>5. \A r \in Derived : r.kind # "refund"
  BY DerivedRows
<1>6. CASE WorkRead(b)
  BY <1>4, <1>6, <1>5 DEF WorkRead
<1>7. CASE WorkSpend(b)
  <2> DEFINE kind == IF tx[b].req.op = "debit" THEN "debit" ELSE "adjust"
             row  == Row(kind, NextId, Null, -tx[b].req.amount, clock, Null)
  <2>1. Stage(b, Derived \cup {row}, NextId + 1 - serial)
    BY <1>7 DEF WorkSpend
  <2>2. row.kind # "refund"
    BY DEF Row
  <2> HIDE DEF row
  <2>3. \A r \in Derived \cup {row} : r.kind # "refund"
    BY <1>5, <2>2
  <2> QED BY <1>4, <2>1, <2>3
<1>8. CASE WorkRefund(b)
  <2>1. PICK d, ref :
          /\ d \in ledger \cup Derived /\ d.kind = "debit" /\ ref \in {d.id, ClaimOf(d.id)}
          /\ RefundExpiry(ledger \cup Derived, d.id) # Null
          /\ Stage(b, Derived \cup {Row("refund", NextId, ref, tx[b].req.amount, clock,
                                        RefundExpiry(ledger \cup Derived, d.id))}, NextId + 1 - serial)
    BY <1>8 DEF WorkRefund
  <2> DEFINE x == Row("refund", NextId, ref, tx[b].req.amount, clock, RefundExpiry(ledger \cup Derived, d.id))
  <2>2. tx[b].req.amount \in Nat \ {0}
    BY <1>8, RequestTypes DEF WorkRefund
  <2>3. Fair((ledger \cup Derived) \cup {x}, pauses, x)
    <3>1. Kept(ledger \cup Derived, pauses, NextId, clock)
      BY DerivedKept, Counters DEF KeptInv
    <3>2. d.id \in Nat
      BY <2>1, <3>1 DEF Kept, RowsOK
    <3>3. DebitOf(ref) = d.id
      BY <2>1, <3>2, ReferencesOfDebit
    <3> QED BY <2>1, <2>2, <3>3, RefundIsFair
  <2>4. (ledger \cup Derived) \cup {x} = ledger \cup (Derived \cup {x})
    OBVIOUS
  <2>5. Stage(b, Derived \cup {x}, NextId + 1 - serial)
    BY <2>1
  <2> HIDE DEF x
  <2>6. \A r \in Derived \cup {x} : r.kind = "refund" => Fair(ledger \cup (Derived \cup {x}), pauses, r)
    BY <1>5, <2>3, <2>4
  <2> QED BY <1>3, <2>5, <2>6
<1>9. CASE WorkLot(b)
  <2> DEFINE row == Row(tx[b].req.op, serial, Null, tx[b].req.amount, clock, tx[b].req.exp)
  <2>1. row.kind \in Lots /\ Stage(b, {row}, 1)
    BY <1>9 DEF WorkLot, Row
  <2> HIDE DEF row
  <2>2. \A r \in {row} : r.kind # "refund"
    BY <2>1 DEF Lots
  <2> QED BY <1>4, <2>1, <2>2
<1> QED BY <1>2, <1>6, <1>7, <1>8, <1>9 DEF Work

(* Every step keeps them so.                                               *)
LEMMA SourceStep == IInv /\ KeptInv /\ SourceInv /\ [Next]_vars => SourceInv'
<1> SUFFICES ASSUME IInv, KeptInv, SourceInv, [Next]_vars PROVE SourceInv'
  OBVIOUS
<1>1. ASSUME UNCHANGED <<ledger, pauses>>,
             \A b \in Backends : tx'[b].rows = tx[b].rows \/ tx'[b].rows = {}
      PROVE  SourceInv'
  BY <1>1 DEF SourceInv
<1>2. CASE Tick \/ ChangeTier \/ UNCHANGED vars
  BY <1>1, <1>2 DEF Tick, ChangeTier, vars
<1>3. ASSUME NEW b \in Backends,
             (\E req \in Requests : Begin(b, req)) \/ TakeLock(b) \/ Refuse(b) \/ Rollback(b)
      PROVE  SourceInv'
  <2>1. /\ UNCHANGED <<ledger, pauses>>
        /\ \A c \in Backends : tx'[c].rows = tx[c].rows \/ tx'[c].rows = {}
    BY <1>3 DEF Begin, TakeLock, Refuse, Rollback, Session, Idle, IInv, TypeOK
  <2> QED BY <1>1, <2>1
<1>4. ASSUME NEW b \in Backends, Work(b) PROVE SourceInv'
  BY <1>4, WorkIsFair
<1>5. ASSUME NEW b \in Backends, Commit(b) PROVE SourceInv'
  <2>1. /\ tx[b].step = "worked" /\ lock = b /\ DOMAIN tx = Backends
        /\ tx'[b] = Idle /\ \A c \in Backends \ {b} : tx'[c] = tx[c]
    BY <1>5 DEF Commit, IInv, TypeOK
  <2>2. \A c \in Backends \ {b} : tx[c].rows = {}
    BY <2>1 DEF IInv, TypeOK, StagedInv
  <2>3. \A c \in Backends : tx'[c].rows = {}
    BY <2>1, <2>2 DEF Idle, Session
  <2> QED BY <2>3 DEF SourceInv
<1> QED BY <1>2, <1>3, <1>4, <1>5 DEF Next

(* Fair refunds expire no later than what they return.                     *)
LEMMA FairRefunds ==
  ASSUME IInv, KeptInv, SourceInv
  PROVE  RefundExpiresWithItsSource
<1> SUFFICES ASSUME NEW b \in Backends, NEW r \in tx[b].rows, r.kind = "refund"
             PROVE  LET fold == FoldLedger(ledger \cup tx[b].rows, pauses, tx[b].stamp)
                        lot  == CHOOSE l \in fold.lots : l.id = r.id
                    IN  lot.eff.at # Null =>
                          \E l \in fold.lots : /\ \E t \in fold.trace : t.debit = DebitOf(r.ref) /\ t.lot = l.id
                                               /\ l.eff.at >= lot.eff.at
  BY DEF RefundExpiresWithItsSource
<1> DEFINE U == ledger \cup tx[b].rows
           fold == FoldLedger(U, pauses, tx[b].stamp)
           lot == CHOOSE l \in fold.lots : l.id = r.id
<1>1. tx[b].step = "worked" /\ tx[b].stamp = asOf
  BY DEF IInv, TypeOK, StagedInv
<1>2. Kept(U, pauses, serial, asOf) /\ InOrder(pauses) /\ Fair(U, pauses, r) /\ r \in U
  BY <1>1 DEF KeptInv, SourceInv
<1> HIDE DEF U
<1>3. RowsOK(U) /\ (\A q \in U : q.at <= asOf) /\ r \in LotRows(U)
  BY <1>2 DEF Kept, Fair, LotRows
<1>4. fold = ReplayAll(U, pauses)
  BY <1>1, <1>3, FoldReadsAll
<1>5. PICK shut : LotsAre(ReplayAll(U, pauses).lots, U, pauses, Left(U, pauses), shut)
  BY <1>2, <1>3, LeftIs
<1> DEFINE h == [q \in LotRows(U) |-> LotAs(q, pauses, Left(U, pauses)[q], shut[q])]
<1>6. /\ fold.lots = {h[q] : q \in LotRows(U)}
      /\ \A q \in LotRows(U) : h[q].eff = Eff(q, pauses) /\ h[q].id = q.id /\ h[q] \in fold.lots
  <2> DEFINE lots == ReplayAll(U, pauses).lots
             left == Left(U, pauses)
  <2>1. LotsAre(lots, U, pauses, left, shut) /\ h = [q \in LotRows(U) |-> LotAs(q, pauses, left[q], shut[q])]
    BY <1>5
  <2>2. fold.lots = lots
    BY <1>4
  <2> HIDE DEF lots, left, h, fold
  <2>3. /\ lots = {h[q] : q \in LotRows(U)}
        /\ \A q \in LotRows(U) :
             /\ h[q].remaining = left[q] /\ h[q].id = q.id /\ h[q].eff = Eff(q, pauses)
             /\ (h[q].closed => left[q] = 0) /\ left[q] \in Nat /\ h[q] \in lots
    BY <1>2, <1>3, <2>1, LotsOfRows
  <2> QED BY <2>2, <2>3
<1>7. \A p, q \in LotRows(U) : p.id = q.id => p = q
  BY <1>3, LotsNamed
<1> HIDE DEF h
<1>8. lot = h[r]
  <2>1. h[r] \in fold.lots /\ h[r].id = r.id
    BY <1>3, <1>6
  <2>2. \A l \in fold.lots : l.id = r.id => l = h[r]
    BY <1>3, <1>6, <1>7
  <2> HIDE DEF fold
  <2> QED BY <2>1, <2>2
<1>9. ASSUME lot.eff.at # Null
      PROVE  \E l \in fold.lots : /\ \E t \in fold.trace : t.debit = DebitOf(r.ref) /\ t.lot = l.id
                                  /\ l.eff.at >= lot.eff.at
  <2>1. lot.eff = Eff(r, pauses)
    BY <1>3, <1>6, <1>8
  <2>2. PICK y \in LotRows(U) : Eff(y, pauses).at = Eff(r, pauses).at /\ Traced(U, pauses, DebitOf(r.ref), y.id)
    BY <1>2, <1>9, <2>1 DEF Fair, SourcedAt
  <2>3. h[y] \in fold.lots /\ h[y].eff.at = lot.eff.at /\ h[y].id = y.id
    BY <1>6, <2>1, <2>2
  <2>4. PICK e \in fold.trace : e.debit = DebitOf(r.ref) /\ e.lot = h[y].id
    BY <1>4, <2>2, <2>3 DEF Traced
  <2>5. lot.eff.at \in Int
    BY <1>2, <1>3, <2>1, EffType DEF LotRows
  <2> HIDE DEF fold, lot
  <2> QED BY <2>3, <2>4, <2>5
<1> QED BY <1>9 DEF U

(* No refund gives back more than its budget; and none gives it back       *)
(* for longer: at the instant it is written it expires with the latest of  *)
(* the lots the debit consumed, whatever was paused in between and however *)
(* the refund itself changes what the replay takes from which lot (ledger. *)
(* ts, refundCredits; fold.ts, allocate).                                  *)
THEOREM LedgerRefundsAreFair == Spec => []RefundsAreFair
<1>1. Init => SourceInv
  BY DEF Init, SourceInv, Idle, Session
<1>2. IInv /\ KeptInv /\ SourceInv => RefundExpiresWithItsSource
  BY FairRefunds
<1>3. Spec => []RefundExpiresWithItsSource
  BY <1>1, <1>2, KeptHistory, SourceStep, PTL DEF Spec
<1>4. RefundsWithinBudget /\ RefundExpiresWithItsSource => RefundsAreFair
  BY DEF RefundsAreFair
<1> QED BY <1>3, <1>4, LedgerRefundsWithinBudget, PTL

-----------------------------------------------------------------------------
(***************************************************************************)
(* The ledger implements the account.  What a row does to the balance of   *)
(* its own instant, what time does to it, and what a pause does not.       *)
(***************************************************************************)

(* The lots that could be spent when added; what all rows have credited    *)
(* and spent; the balance at an instant.                                   *)
Births(R)    == {r \in R : LiveAtBirth(r)}
Credits(R)   == Given(Births(R))
Spent(R)     == -Given(Outlays(R))
Bal(R, P, t) == Balance(ReplayAll(R, P), t)

(* From R to S the balance moves by what is credited less what is spent.   *)
Posts(R, S, P, t) ==
  /\ Credits(S) - Credits(R) \in Nat
  /\ Spent(S) - Spent(R) \in Nat
  /\ Bal(S, P, t) = Bal(R, P, t) + ((Credits(S) - Credits(R)) - (Spent(S) - Spent(R)))

(* A pause that is open stops every date after it.                         *)
LEMMA OpenPauseFreezes ==
    ASSUME NEW P, InOrder(P), NEW p \in P, p.ended = Null, NEW exp \in Nat, NEW born \in Nat
    PROVE  LET e == EffectiveExpiry(exp, P, born) IN e.at = Null \/ e.at <= Start(p, born)
<1> DEFINE Q == P \ {p}
           e == EffectiveExpiry(exp, Q, born)
<1>1. p \in Period /\ p.started \in Nat /\ Start(p, born) \in Nat
  BY DEF InOrder, Period, Start
<1>2. InOrder(Q) /\ EndedBy(Q, p.started) /\ Q \cup {p} = P
  <2>1. IsFiniteSet(Q) /\ Q \subseteq P
    BY FS_Subset DEF InOrder
  <2>2. InOrder(Q)
    BY <2>1 DEF InOrder
  <2>3. \A q \in Q : q.ended # Null /\ q.ended <= p.started
    BY DEF InOrder
  <2> QED BY <2>2, <2>3 DEF EndedBy
<1> HIDE DEF Q
<1>3. e \in Expiries /\ e.at \in Nat /\ ~e.frozen
  BY <1>1, <1>2, ExpiryOfEnded
<1>4. EffectiveExpiry(exp, Q \cup {p}, born) = ShiftBy(p, born, e)
  BY <1>1, <1>2, ExpiryAppends
<1> HIDE DEF e
<1>5. \/ ShiftBy(p, born, e) = e /\ e.at <= Start(p, born)
      \/ ShiftBy(p, born, e) = [at |-> Null, frozen |-> TRUE]
  BY <1>1, <1>3, ShiftIs
<1> QED BY <1>2, <1>4, <1>5

(* A lot bought with a date that has passed is over.                       *)
LEMMA BornOver ==
    ASSUME NEW P, InOrder(P), NEW t \in Nat, NEW exp \in Nat, exp <= t,
           \A p \in P : p.started <= t /\ (p.ended # Null => p.ended <= t)
    PROVE  EffectiveExpiry(exp, P, t).at = exp
<1>1. CASE EndedBy(P, t)
  BY <1>1, BornAfter
<1>2. CASE ~EndedBy(P, t)
  <2>1. PICK p \in P : p.ended = Null
    BY <1>2 DEF EndedBy
  <2> DEFINE Q == P \ {p}
             e == [at |-> exp, frozen |-> FALSE]
  <2>2. p \in Period /\ p.started \in Nat /\ p.started <= t
    BY DEF InOrder, Period
  <2>3. InOrder(Q) /\ EndedBy(Q, p.started) /\ Q \cup {p} = P
    <3>1. IsFiniteSet(Q) /\ Q \subseteq P
      BY FS_Subset DEF InOrder
    <3>2. InOrder(Q)
      BY <3>1 DEF InOrder
    <3>3. \A q \in Q : q.ended # Null /\ q.ended <= p.started
      BY <2>1 DEF InOrder
    <3> QED BY <3>2, <3>3 DEF EndedBy
  <2>4. EndedBy(Q, t)
    <3>1. \A q \in Q : q.ended # Null /\ q.ended <= t
      BY <2>3 DEF EndedBy
    <3> QED BY <3>1 DEF EndedBy
  <2> HIDE DEF Q
  <2>5. EffectiveExpiry(exp, Q, t) = e
    BY <2>3, <2>4, BornAfter
  <2>6. EffectiveExpiry(exp, Q \cup {p}, t) = ShiftBy(p, t, EffectiveExpiry(exp, Q, t))
    BY <2>1, <2>2, <2>3, ExpiryAppends
  <2>7. e \in Expiries /\ e.at = exp /\ ~e.frozen
    BY DEF Expiries
  <2> HIDE DEF e
  <2>8. ShiftBy(p, t, e) = e
    <3>1. Start(p, t) \in Nat /\ Start(p, t) >= e.at
      BY <2>2, <2>7 DEF Start
    <3> QED BY <2>2, <2>7, <3>1, ShiftIs
  <2> QED BY <2>3, <2>5, <2>6, <2>7, <2>8
<1> QED BY <1>1, <1>2

(* All that was recorded of pauses lies before t.                          *)
PausedBy(P, t) == \A p \in P : p.started <= t /\ (p.ended # Null => p.ended <= t)

(* A lot is live when it is born just if what it says of its expiry does.  *)
LEMMA BirthIsAlive ==
    ASSUME NEW P, InOrder(P), NEW t \in Nat, PausedBy(P, t),
           NEW x, IsLotRow(x), x.exp \in Instants, x.at = t
    PROVE  LiveAtBirth(x) <=> ~Over(Eff(x, P), t)
<1>1. CASE x.exp = Null
  <2>1. Eff(x, P).at = Null
    BY <1>1 DEF Eff, EffectiveExpiry
  <2> QED BY <1>1, <2>1 DEF LiveAtBirth, Over
<1>2. CASE x.exp # Null
  <2>1. x.exp \in Nat /\ Null = -1
    BY <1>2 DEF Instants, Null
  <2>2. Eff(x, P) = EffectiveExpiry(x.exp, P, t)
    BY DEF Eff
  <2>3. x.exp <= t => Eff(x, P).at = x.exp
    BY <2>1, <2>2, BornOver DEF PausedBy
  <2>4. Eff(x, P).at \in {x.exp, Null}
    BY <2>1, <2>2, BornNow DEF PausedBy
  <2>5. CASE x.exp <= t
    BY <2>1, <2>3, <2>5 DEF LiveAtBirth, Over
  <2>6. CASE x.exp > t
    BY <2>1, <2>4, <2>6 DEF LiveAtBirth, Over
  <2> QED BY <2>1, <2>5, <2>6
<1> QED BY <1>1, <1>2

(* What rows have credited and spent, and their balance, are numbers.      *)
LEMMA AccountTypes ==
    ASSUME NEW R, RowsOK(R), NEW P, InOrder(P), NEW t \in Nat
    PROVE  Credits(R) \in Int /\ Spent(R) \in Int /\ Bal(R, P, t) \in Nat
<1>1. ASSUME NEW S \in SUBSET R PROVE Given(S) \in Int
  <2> DEFINE w == [r \in S |-> r.delta]
  <2>1. IsFiniteSet(S) /\ \A r \in S : w[r] = r.delta /\ w[r] \in Int
    BY FS_Subset DEF RowsOK
  <2> HIDE DEF w
  <2>2. Given(S) = Total(w, S)
    BY <2>1, GivenIsTotal
  <2>3. Total(w, S) \in Int
    BY <2>1, TotalInt
  <2> QED BY <2>2, <2>3
<1>2. Births(R) \in SUBSET R /\ Outlays(R) \in SUBSET R
  BY DEF Births, Outlays
<1>3. Left(R, P) \in [LotRows(R) -> Nat] /\ Alive(R, P, t) \in SUBSET LotRows(R)
  BY LeftIs DEF Alive
<1>4. IsFiniteSet(Alive(R, P, t))
  BY <1>3, LotRowsFinite
<1>5. \A r \in Alive(R, P, t) : Left(R, P)[r] \in Nat
  BY <1>3
<1>6. Total(Left(R, P), Alive(R, P, t)) \in Nat
  BY <1>4, <1>5, TotalNat
<1>7. Balance(ReplayAll(R, P), t) = Total(Left(R, P), Alive(R, P, t))
  BY BalanceIs
<1>8. Given(Births(R)) \in Int /\ Given(Outlays(R)) \in Int
  BY <1>1, <1>2
<1> QED BY <1>6, <1>7, <1>8 DEF Credits, Spent, Bal

(* The balance of an instant: what it opens with less what it spends.      *)
LEMMA BalanceNow ==
    ASSUME NEW R, NEW P, InOrder(P), NEW s \in Nat, NEW t \in Nat, Kept(R, P, s, t),
           NEW w, \A r \in R : w[r] = -r.delta
    PROVE  /\ Bal(R, P, t) = Total(Opening(R, P, t), Alive(R, P, t)) - Total(w, Outgoings(R, t))
           /\ Total(Opening(R, P, t), Alive(R, P, t)) \in Nat /\ Total(w, Outgoings(R, t)) \in Int
<1>1. RowsOK(R) /\ Sound(R, P) /\ t <= t /\ \A r \in R : r.at <= t
  BY DEF Kept
<1>2. RowsBy(R, P, t)
  BY <1>1, KeptHolds DEF Holds
<1>3. Leaves(R, P, t, w)
  BY <1>1, <1>2, InstantSettles DEF Settled
<1>4. Bal(R, P, t) = Total(Left(R, P), Alive(R, P, t))
  BY <1>1, BalanceIs DEF Bal
<1>5. Total(Opening(R, P, t), Alive(R, P, t)) \in Nat
  BY <1>1, OpeningType
<1>6. Total(w, Outgoings(R, t)) \in Int
  <2>1. IsFiniteSet(Outgoings(R, t)) /\ Outgoings(R, t) \subseteq R
    BY <1>1, FS_Subset DEF Outgoings, RowsOK
  <2>2. \A r \in Outgoings(R, t) : w[r] \in Int
    BY <1>1, <2>1 DEF RowsOK
  <2> QED BY <2>1, <2>2, TotalInt
<1> QED BY <1>3, <1>4, <1>5, <1>6 DEF Leaves


(* Effects add up.                                                         *)
LEMMA PostsTogether ==
    ASSUME NEW R, NEW S, NEW T, RowsOK(R), RowsOK(S), RowsOK(T), NEW P, InOrder(P), NEW t \in Nat,
           Posts(R, S, P, t), Posts(S, T, P, t)
    PROVE  Posts(R, T, P, t)
<1>1. /\ Credits(R) \in Int /\ Spent(R) \in Int /\ Bal(R, P, t) \in Nat
      /\ Credits(S) \in Int /\ Spent(S) \in Int /\ Bal(S, P, t) \in Nat
      /\ Credits(T) \in Int /\ Spent(T) \in Int /\ Bal(T, P, t) \in Nat
  BY AccountTypes
<1>2. /\ Credits(S) - Credits(R) \in Nat /\ Spent(S) - Spent(R) \in Nat
      /\ Bal(S, P, t) = Bal(R, P, t) + ((Credits(S) - Credits(R)) - (Spent(S) - Spent(R)))
  BY DEF Posts
<1>3. /\ Credits(T) - Credits(S) \in Nat /\ Spent(T) - Spent(S) \in Nat
      /\ Bal(T, P, t) = Bal(S, P, t) + ((Credits(T) - Credits(S)) - (Spent(T) - Spent(S)))
  BY DEF Posts
<1>4. /\ Credits(T) - Credits(R) \in Nat /\ Spent(T) - Spent(R) \in Nat
      /\ Bal(T, P, t) = Bal(R, P, t) + ((Credits(T) - Credits(R)) - (Spent(T) - Spent(R)))
  BY <1>1, <1>2, <1>3
<1> QED BY <1>4 DEF Posts

(* Nothing written has no effect.                                          *)
LEMMA NothingPosts ==
    ASSUME NEW R, RowsOK(R), NEW P, InOrder(P), NEW t \in Nat
    PROVE  Posts(R, R, P, t)
<1>1. Credits(R) \in Int /\ Spent(R) \in Int /\ Bal(R, P, t) \in Nat
  BY AccountTypes
<1> QED BY <1>1 DEF Posts

(* A lot credits what it holds if it is live when born, and nothing if not.*)
LEMMA LotPosts ==
    ASSUME NEW R, NEW P, InOrder(P), NEW s \in Nat, NEW u \in Nat, Kept(R, P, s, u), PausedBy(P, u),
           NEW x, x.kind \in LotKinds, x.delta \in Nat \ {0}, x.id = s, x.at = u, x.exp \in Instants
    PROVE  Posts(R, R \cup {x}, P, u) /\ Spent(R \cup {x}) = Spent(R)
<1> DEFINE U == R \cup {x}
           w == [q \in U |-> -q.delta]
           o == Opening(R, P, u)
           n == Opening(U, P, u)
           A == Alive(R, P, u)
<1>1. RowsOK(R) /\ u <= u /\ (\A r \in R : r.at <= u) /\ \A r \in R : r.kind # "expiry" => r.id < s
  BY DEF Kept
<1>2. IsLotRow(x) /\ x.kind # "expiry" /\ x \notin R
  BY <1>1 DEF IsLotRow, LotKinds
<1>3. Kept(U, P, s + 1, u) /\ s + 1 \in Nat
  BY <1>1, LotKept
<1>4. RowsOK(U)
  BY <1>3 DEF Kept
<1>5. (\A q \in U : w[q] = -q.delta) /\ (\A q \in R : w[q] = -q.delta)
  OBVIOUS
<1>6. Outgoings(U, u) = Outgoings(R, u)
  BY <1>2, EarlierRows
<1>7. o \in [LotRows(R) -> Nat] /\ A \in SUBSET LotRows(R)
  BY <1>1, OpeningType
<1>8. n = NextLeft(x, R, P, o)
  BY <1>2, OpeningGrows
<1> HIDE DEF w, o, n
<1>9. Total(n, A \cup {x}) = Total(o, A) + x.delta /\ Total(n, A) = Total(o, A)
  <2>1. x \notin R /\ RowsOK(R \cup {x}) /\ IsLotRow(x)
    BY <1>2, <1>4
  <2> HIDE DEF A
  <2> QED BY <1>7, <1>8, <2>1, LotAddsTo
<1>10. /\ Bal(R, P, u) = Total(o, A) - Total(w, Outgoings(R, u))
       /\ Total(o, A) \in Nat /\ Total(w, Outgoings(R, u)) \in Int
  BY <1>5, BalanceNow DEF o
<1>11. Bal(U, P, u) = Total(n, Alive(U, P, u)) - Total(w, Outgoings(U, u))
  <2> HIDE DEF U
  <2> QED BY <1>3, <1>5, BalanceNow DEF n
<1>12. /\ ~Over(Eff(x, P), u) => Alive(U, P, u) = A \cup {x}
       /\ Over(Eff(x, P), u) => Alive(U, P, u) = A
  BY <1>2, AliveGrows
<1>13. Outlays(U) = Outlays(R)
  BY <1>2 DEF Outlays
<1>14. LiveAtBirth(x) <=> ~Over(Eff(x, P), u)
  BY <1>2, BirthIsAlive
<1>15. /\ LiveAtBirth(x) => Credits(U) = Credits(R) + x.delta
       /\ ~LiveAtBirth(x) => Credits(U) = Credits(R)
  <2>1. CASE LiveAtBirth(x)
    <3>1. Births(U) = Births(R) \cup {x} /\ x \notin Births(R)
      BY <1>2, <2>1 DEF Births
    <3>2. IsFiniteSet(Births(R)) /\ \A r \in Births(R) : r.delta \in Int
      BY <1>1, FS_Subset DEF Births, RowsOK
    <3>3. x.delta \in Int
      OBVIOUS
    <3>4. Given(Births(R) \cup {x}) = Given(Births(R)) + x.delta
      BY <3>1, <3>2, <3>3, GivenAdds
    <3> QED BY <2>1, <3>1, <3>4 DEF Credits
  <2>2. CASE ~LiveAtBirth(x)
    <3>1. Births(U) = Births(R)
      BY <2>2 DEF Births
    <3> QED BY <2>2, <3>1 DEF Credits
  <2> QED BY <2>1, <2>2
<1>16. Spent(U) = Spent(R)
  BY <1>13 DEF Spent
<1>17. Credits(R) \in Int /\ Spent(R) \in Int /\ Bal(R, P, u) \in Nat
  BY <1>1, AccountTypes
<1> HIDE DEF U, A
<1>18. CASE LiveAtBirth(x)
  <2>1. Alive(U, P, u) = A \cup {x} /\ Credits(U) = Credits(R) + x.delta
    BY <1>12, <1>14, <1>15, <1>18
  <2>2. Total(n, Alive(U, P, u)) = Total(o, A) + x.delta /\ Total(w, Outgoings(U, u)) = Total(w, Outgoings(R, u))
    BY <1>6, <1>9, <2>1
  <2>3. Bal(U, P, u) = Bal(R, P, u) + x.delta
    BY <1>10, <1>11, <2>2
  <2> QED BY <1>16, <1>17, <2>1, <2>3 DEF Posts, U
<1>19. CASE ~LiveAtBirth(x)
  <2>1. Bal(U, P, u) = Bal(R, P, u) /\ Credits(U) = Credits(R)
    BY <1>6, <1>9, <1>10, <1>11, <1>12, <1>14, <1>15, <1>19
  <2> QED BY <1>16, <1>17, <2>1 DEF Posts, U
<1> QED BY <1>18, <1>19

(* Closing what is over changes no balance.                                *)
LEMMA ClosingPosts ==
    ASSUME NEW R, NEW P, InOrder(P), NEW s \in Nat, NEW u \in Nat, Kept(R, P, s, u)
    PROVE  Posts(R, R \cup ClosingRows(R, P, u), P, u) /\ Spent(R \cup ClosingRows(R, P, u)) = Spent(R)
<1> DEFINE X == ClosingRows(R, P, u)
           U == R \cup X
           w == [q \in U |-> -q.delta]
<1>1. RowsOK(R) /\ u <= u
  BY DEF Kept
<1>2. \A e \in X : e.kind = "expiry" /\ e.at = u
  BY <1>1, ClosingRowsAre
<1>3. Kept(U, P, s, u)
  BY <1>1, ClosedKept
<1> HIDE DEF X
<1>4. \A e \in X : ~IsLotRow(e)
  BY <1>2 DEF IsLotRow, LotKinds
<1>5. /\ LotRows(U) = LotRows(R) /\ Births(U) = Births(R) /\ Outlays(U) = Outlays(R)
      /\ Outgoings(U, u) = Outgoings(R, u)
  BY <1>2, <1>4 DEF LotRows, Births, LiveAtBirth, Outlays, Outgoings
<1>6. RowsUpTo(U, u - 1) = RowsUpTo(R, u - 1)
  BY <1>2 DEF RowsUpTo
<1>7. Opening(U, P, u) = Opening(R, P, u) /\ Alive(U, P, u) = Alive(R, P, u)
  BY <1>5, <1>6 DEF Opening, Alive
<1>8. (\A q \in U : w[q] = -q.delta) /\ (\A q \in R : w[q] = -q.delta)
  OBVIOUS
<1> HIDE DEF w
<1>9. Bal(R, P, u) = Total(Opening(R, P, u), Alive(R, P, u)) - Total(w, Outgoings(R, u))
  BY <1>8, BalanceNow
<1> HIDE DEF U
<1>10. Bal(U, P, u) = Total(Opening(U, P, u), Alive(U, P, u)) - Total(w, Outgoings(U, u))
  BY <1>3, <1>8, BalanceNow
<1>11. Bal(U, P, u) = Bal(R, P, u)
  BY <1>5, <1>7, <1>9, <1>10
<1>12. Credits(U) = Credits(R) /\ Spent(U) = Spent(R)
  BY <1>5 DEF Credits, Spent
<1>13. Credits(R) \in Int /\ Spent(R) \in Int /\ Bal(R, P, u) \in Nat
  BY <1>1, AccountTypes
<1> QED BY <1>11, <1>12, <1>13 DEF Posts, U, X

(* A spend takes what it says from the balance.                            *)
LEMMA SpendPosts ==
    ASSUME NEW R, NEW P, InOrder(P), NEW s \in Nat, NEW u \in Nat, Kept(R, P, s, u), Clean(R, P, u),
           NEW x, x.kind \in {"debit", "adjust"}, x.delta \in Int, x.delta < 0, x.id = s, x.at = u,
           x.exp = Null, -x.delta <= Balance(ReplayAll(R, P), u)
    PROVE  Posts(R, R \cup {x}, P, u)
<1> DEFINE U == R \cup {x}
           w == [q \in U |-> -q.delta]
<1>1. RowsOK(R) /\ u <= u /\ (\A r \in R : r.at <= u) /\ \A r \in R : r.kind # "expiry" => r.id < s
  BY DEF Kept
<1>2. ~IsLotRow(x) /\ x.kind # "expiry" /\ x \notin R
  BY <1>1 DEF IsLotRow, LotKinds
<1>3. Kept(U, P, s + 1, u) /\ s + 1 \in Nat
  BY SpendKept
<1>4. RowsOK(U)
  BY <1>3 DEF Kept
<1>5. (\A q \in U : w[q] = -q.delta) /\ (\A q \in R : w[q] = -q.delta) /\ w[x] = -x.delta
  OBVIOUS
<1>6. Outgoings(U, u) = Outgoings(R, u) \cup {x} /\ x \notin Outgoings(R, u)
  BY <1>2 DEF Outgoings
<1>7. Opening(U, P, u) = Opening(R, P, u) /\ Alive(U, P, u) = Alive(R, P, u)
  <2>1. LotRows(U) = LotRows(R)
    BY <1>2 DEF LotRows
  <2>2. RowsUpTo(U, u - 1) = RowsUpTo(R, u - 1)
    BY EarlierRows
  <2> QED BY <2>1, <2>2 DEF Opening, Alive
<1> HIDE DEF w
<1>8. Total(w, Outgoings(R, u) \cup {x}) = Total(w, Outgoings(R, u)) + w[x]
  <2> DEFINE V == Outgoings(R, u)
             W == V \cup {x}
  <2>1. IsFiniteSet(W) /\ V \in SUBSET W /\ x \in W /\ x \notin V
    <3>1. V \subseteq R /\ IsFiniteSet(R)
      BY <1>1 DEF Outgoings, RowsOK
    <3>2. IsFiniteSet(V)
      BY <3>1, FS_Subset
    <3> HIDE DEF V
    <3> QED BY <1>6, <3>2, FS_AddElement DEF V
  <2>2. \A q \in W : w[q] \in Int
    <3>1. V \subseteq R
      BY DEF Outgoings
    <3> HIDE DEF V
    <3> QED BY <1>1, <1>5, <3>1 DEF RowsOK
  <2> HIDE DEF V
  <2>3. Total(w, V \cup {x}) = Total(w, V) + w[x]
    BY <2>1, <2>2, TotalAdds
  <2> QED BY <2>3 DEF V
<1>9. /\ Bal(R, P, u) = Total(Opening(R, P, u), Alive(R, P, u)) - Total(w, Outgoings(R, u))
      /\ Total(Opening(R, P, u), Alive(R, P, u)) \in Nat /\ Total(w, Outgoings(R, u)) \in Int
  BY <1>5, BalanceNow
<1>10. Bal(U, P, u) = Total(Opening(U, P, u), Alive(U, P, u)) - Total(w, Outgoings(U, u))
  <2> HIDE DEF U
  <2> QED BY <1>3, <1>5, BalanceNow
<1>11. Births(U) = Births(R) /\ Outlays(U) = Outlays(R) \cup {x} /\ x \notin Outlays(R)
  BY <1>2 DEF Births, LiveAtBirth, Outlays
<1>12. Spent(U) = Spent(R) + (-x.delta)
  <2>1. IsFiniteSet(Outlays(R)) /\ \A r \in Outlays(R) : r.delta \in Int
    BY <1>1, FS_Subset DEF Outlays, RowsOK
  <2>2. Given(Outlays(R) \cup {x}) = Given(Outlays(R)) + x.delta /\ Given(Outlays(R)) \in Int
    BY <1>11, <2>1, GivenAdds
  <2>3. Spent(U) = -(Given(Outlays(R)) + x.delta) /\ Spent(R) = -Given(Outlays(R))
    BY <1>11, <2>2 DEF Spent
  <2> QED BY <2>2, <2>3
<1>13. Credits(U) = Credits(R)
  BY <1>11 DEF Credits
<1>14. Credits(R) \in Int /\ Spent(R) \in Int /\ Bal(R, P, u) \in Nat
  BY <1>1, AccountTypes
<1> HIDE DEF U
<1>15. Bal(U, P, u) = Bal(R, P, u) + x.delta
  BY <1>5, <1>6, <1>7, <1>8, <1>9, <1>10
<1> QED BY <1>12, <1>13, <1>14, <1>15 DEF Posts, U

(* As time passes a balance only lapses; while a pause is open, it stays.  *)
LEMMA BalanceLapses ==
    ASSUME NEW R, NEW P, InOrder(P), NEW s \in Nat, NEW t \in Nat, NEW u \in Nat, t <= u,
           Kept(R, P, s, t), PausedBy(P, t)
    PROVE  /\ Bal(R, P, u) \in Nat /\ Bal(R, P, t) \in Nat /\ Bal(R, P, u) <= Bal(R, P, t)
           /\ (\E p \in P : p.ended = Null) => Bal(R, P, u) = Bal(R, P, t)
<1> DEFINE left == Left(R, P)
           A == Alive(R, P, t)
           B == Alive(R, P, u)
<1>1. RowsOK(R) /\ \A r \in R : r.at <= t /\ r.at \in Nat
  BY DEF Kept, RowsOK
<1>2. \A r \in LotRows(R) : Eff(r, P).at \in Int /\ r \in R
  BY <1>1, EffType DEF LotRows
<1>3. B \subseteq A /\ A \in SUBSET LotRows(R)
  BY <1>2 DEF Alive, Over
<1>4. left \in [LotRows(R) -> Nat] /\ IsFiniteSet(A)
  BY <1>1, <1>3, LeftIs, LotRowsFinite
<1>5. Bal(R, P, u) = Total(left, B) /\ Bal(R, P, t) = Total(left, A)
  BY <1>1, BalanceIs DEF Bal
<1>6. Total(left, A) \in Nat /\ Total(left, B) \in Nat /\ Total(left, B) <= Total(left, A)
  <2> HIDE DEF left, A, B
  <2>1. B \in SUBSET A /\ \A y \in A : left[y] \in Nat /\ left[y] \in Int
    BY <1>3, <1>4
  <2>2. IsFiniteSet(B) /\ IsFiniteSet(A \ B) /\ (\A y \in B : left[y] \in Nat) /\ (\A y \in A \ B : left[y] \in Nat)
    BY <1>4, <2>1, FS_Subset
  <2>3. Total(left, B) \in Nat /\ Total(left, A \ B) \in Nat
    BY <2>2, TotalNat
  <2>4. Total(left, A) = Total(left, B) + Total(left, A \ B)
    BY <1>4, <2>1, TotalSplit
  <2> QED BY <2>3, <2>4
<1>7. ASSUME NEW p \in P, p.ended = Null PROVE A = B
  <2>1. ASSUME NEW r \in A PROVE r \in B
    <3>1. r \in LotRows(R) /\ r \in R /\ r.at <= t /\ r.at \in Nat /\ ~Over(Eff(r, P), t) /\ Eff(r, P).at \in Int
      BY <1>1, <1>2 DEF Alive
    <3>2. p.started \in Nat /\ p.started <= t
      BY DEF InOrder, Period, PausedBy
    <3>3. Eff(r, P).at = Null
      <4>1. CASE r.exp = Null
        BY <4>1 DEF Eff, EffectiveExpiry
      <4>2. CASE r.exp # Null
        <5>1. r.exp \in Nat
          BY <1>1, <3>1, <4>2 DEF RowsOK, Instants
        <5>2. Eff(r, P).at = Null \/ Eff(r, P).at <= Start(p, r.at)
          BY <1>7, <3>1, <5>1, OpenPauseFreezes DEF Eff
        <5>3. Start(p, r.at) <= t /\ Start(p, r.at) \in Nat
          BY <3>1, <3>2 DEF Start
        <5> QED BY <3>1, <5>2, <5>3 DEF Over
      <4> QED BY <4>1, <4>2
    <3> QED BY <3>1, <3>3 DEF Alive, Over
  <2> QED BY <1>3, <2>1
<1> HIDE DEF left, A, B
<1> QED BY <1>5, <1>6, <1>7


(* A spend that holds the lock found no pause open; and what is staged     *)
(* moves the balance by what it records.                                   *)
EffectInv ==
  \A b \in Backends :
    /\ lock = b /\ tx[b].req.op \in Spends => ~HasOpenPause
    /\ tx[b].step = "worked" /\ tx[b].req.op \notin {"pause", "resume"} =>
         /\ Posts(ledger, ledger \cup tx[b].rows, pauses, asOf)
         /\ tx[b].req.op \notin Spends => Spent(ledger \cup tx[b].rows) = Spent(ledger)

(* Pauses are recorded at instants already looked at.                      *)
LEMMA PausesPast ==
    ASSUME IInv
    PROVE  PausedBy(pauses, asOf) /\ PausedBy(pauses, clock)
<1>1. /\ clock \in Nat /\ asOf \in Nat /\ asOf <= clock
      /\ \A p \in pauses : p.started \in 0..asOf /\ p.ended \in {Null} \cup 0..asOf
  BY Counters DEF IInv, TypeOK
<1> QED BY <1>1 DEF PausedBy

(* A balance derivation credits a free allowance, and nothing else.        *)
LEMMA DerivedPosts ==
    ASSUME IInv, KeptInv
    PROVE  Posts(ledger, ledger \cup Derived, pauses, clock) /\ Spent(ledger \cup Derived) = Spent(ledger)
<1> DEFINE R == ledger \cup FreeMint
<1>1. /\ Kept(ledger, pauses, serial, clock) /\ InOrder(pauses) /\ PausedBy(pauses, clock)
      /\ clock \in Nat /\ serial \in Nat /\ serial + 1 \in Nat /\ clock <= clock
  <2>1. Kept(ledger, pauses, serial, asOf) /\ InOrder(pauses)
    BY DEF KeptInv
  <2>2. Kept(ledger, pauses, serial, clock)
    BY <2>1, Counters, KeptLonger
  <2> QED BY <2>1, <2>2, Counters, PausesPast
<1>2. RowsOK(ledger)
  BY <1>1 DEF Kept
<1>3. /\ Kept(R, pauses, NextId, clock) /\ NextId \in Nat
      /\ Posts(ledger, R, pauses, clock) /\ Spent(R) = Spent(ledger)
  <2>1. CASE FreeMint = {}
    <3>1. R = ledger /\ NextId = serial
      BY <2>1 DEF NextId
    <3> HIDE DEF R
    <3> QED BY <1>1, <1>2, <3>1, NothingPosts
  <2>2. CASE FreeMint # {}
    <3>1. FreeMint = {FreeMintRow} /\ FreeAllowance > 0 /\ NextId = serial + 1
      BY <2>2 DEF FreeMint, NextId
    <3>2. /\ FreeMintRow.kind \in LotKinds /\ FreeMintRow.delta \in Nat \ {0} /\ FreeMintRow.id = serial
          /\ FreeMintRow.at = clock /\ FreeMintRow.exp \in Instants
      BY <3>1, Counters, LedgerAssumption DEF FreeMintRow, Row, LotKinds, Instants
    <3>3. Kept(ledger \cup {FreeMintRow}, pauses, serial + 1, clock)
      BY <1>1, <3>2, LotKept
    <3>4. /\ Posts(ledger, ledger \cup {FreeMintRow}, pauses, clock)
          /\ Spent(ledger \cup {FreeMintRow}) = Spent(ledger)
      BY <1>1, <3>2, LotPosts
    <3> QED BY <1>1, <3>1, <3>3, <3>4
  <2> QED BY <2>1, <2>2
<1>4. ledger \cup Derived = R \cup ExpiryRows(R)
  BY DEF Derived
<1> HIDE DEF R
<1>5. ExpiryRows(R) = ClosingRows(R, pauses, clock)
  <2>1. \A r \in R : r.at <= clock
    BY <1>3 DEF Kept
  <2>2. FoldLedger(R, pauses, clock) = ReplayAll(R, pauses)
    BY <2>1, FoldReadsAll
  <2> QED BY <2>2 DEF ExpiryRows, ClosingRows
<1> DEFINE U == R \cup ClosingRows(R, pauses, clock)
<1>6. Posts(R, U, pauses, clock) /\ Spent(U) = Spent(R)
  BY <1>1, <1>3, ClosingPosts
<1>7. RowsOK(R) /\ RowsOK(U)
  <2>1. Kept(U, pauses, NextId, clock)
    BY <1>1, <1>3, ClosedKept
  <2> QED BY <1>3, <2>1 DEF Kept
<1>8. U = ledger \cup Derived
  BY <1>4, <1>5
<1> HIDE DEF U
<1>9. Posts(ledger, U, pauses, clock)
  BY <1>1, <1>2, <1>3, <1>6, <1>7, PostsTogether
<1> QED BY <1>3, <1>6, <1>8, <1>9

(* Whatever a lock holder writes moves the balance by what it records, and *)
(* only a debit or a takeback spends.                                      *)
LEMMA WorkPosts ==
  ASSUME IInv, KeptInv, NEW b \in Backends, Work(b), ~WorkPause(b)
  PROVE  \E rows : \E added \in Nat :
           /\ Stage(b, rows, added)
           /\ Posts(ledger, ledger \cup rows, pauses, clock)
           /\ tx[b].req.op \notin Spends => Spent(ledger \cup rows) = Spent(ledger)
<1> DEFINE R == ledger \cup Derived
           amount == tx[b].req.amount
           added == NextId + 1 - serial
<1>1. /\ clock \in Nat /\ serial \in Nat /\ NextId \in Nat /\ clock <= clock /\ serial + 1 \in Nat /\ NextId + 1 \in Nat
      /\ added \in Nat /\ NextId - serial \in Nat
  BY Counters
<1>2. /\ InOrder(pauses) /\ PausedBy(pauses, clock) /\ Kept(ledger, pauses, serial, clock) /\ RowsOK(ledger)
  <2>1. Kept(ledger, pauses, serial, asOf) /\ InOrder(pauses)
    BY DEF KeptInv
  <2>2. Kept(ledger, pauses, serial, clock)
    BY <2>1, Counters, KeptLonger
  <2> QED BY <2>1, <2>2, PausesPast DEF Kept
<1>3. Kept(R, pauses, NextId, clock) /\ Clean(R, pauses, clock) /\ RowsOK(R)
  <2> HIDE DEF R
  <2> QED BY DerivedKept DEF Kept, R
<1>4. Posts(ledger, R, pauses, clock) /\ Spent(R) = Spent(ledger)
  BY DerivedPosts
<1> HIDE DEF R, added
<1>5. CASE WorkRead(b)
  <2>1. Stage(b, Derived, NextId - serial)
    BY <1>5 DEF WorkRead
  <2> QED BY <1>1, <1>4, <2>1 DEF R
<1>6. CASE WorkSpend(b)
  <2> DEFINE kind == IF tx[b].req.op = "debit" THEN "debit" ELSE "adjust"
             row == Row(kind, NextId, Null, -amount, clock, Null)
             rows == Derived \cup {row}
  <2>1. amount \in Nat \ {0}
    BY <1>6, RequestTypes DEF WorkSpend
  <2>2. BalanceAt(R, pauses, clock) >= amount /\ Stage(b, rows, added) /\ tx[b].req.op \in Spends
    BY <1>6 DEF WorkSpend, R, added
  <2>3. /\ row.kind \in {"debit", "adjust"} /\ row.delta = -amount /\ row.id = NextId
        /\ row.at = clock /\ row.exp = Null
    BY DEF Row
  <2> HIDE DEF row, amount
  <2>4. row.delta \in Int /\ row.delta < 0 /\ -row.delta = amount
    BY <2>1, <2>3
  <2>5. Balance(ReplayAll(R, pauses), clock) \in Nat /\ BalanceAt(R, pauses, clock) = Balance(ReplayAll(R, pauses), clock)
    <3>1. Bal(R, pauses, clock) \in Nat
      BY <1>1, <1>2, <1>3, AccountTypes
    <3>2. BalanceAt(R, pauses, clock) = Balance(ReplayAll(R, pauses), clock)
      BY <1>3, FoldReadsAll DEF Kept
    <3> QED BY <3>1, <3>2 DEF Bal
  <2>6. -row.delta <= Balance(ReplayAll(R, pauses), clock)
    BY <2>1, <2>2, <2>4, <2>5
  <2>7. Posts(R, R \cup {row}, pauses, clock)
    BY <1>1, <1>2, <1>3, <2>3, <2>4, <2>6, SpendPosts
  <2>8. RowsOK(R \cup {row})
    <3>1. Kept(R \cup {row}, pauses, NextId + 1, clock)
      BY <1>1, <1>2, <1>3, <2>3, <2>4, <2>6, SpendKept
    <3> QED BY <3>1 DEF Kept
  <2>9. Posts(ledger, R \cup {row}, pauses, clock)
    BY <1>1, <1>2, <1>3, <1>4, <2>7, <2>8, PostsTogether
  <2>10. R \cup {row} = ledger \cup rows
    BY DEF R
  <2> HIDE DEF rows
  <2> QED BY <1>1, <2>2, <2>9, <2>10
<1>7. CASE WorkRefund(b)
  <2>1. PICK d, exp, ref :
          /\ exp = RefundExpiry(R, d.id)
          /\ Stage(b, Derived \cup {Row("refund", NextId, ref, amount, clock, exp)}, added)
    BY <1>7 DEF WorkRefund, R, added
  <2> DEFINE row == Row("refund", NextId, ref, amount, clock, exp)
             rows == Derived \cup {row}
  <2>2. amount \in Nat \ {0} /\ tx[b].req.op \in Refunds
    BY <1>7, RequestTypes DEF WorkRefund
  <2>3. exp \in Instants
    BY <2>1, RefundSource DEF R, Instants
  <2>4. /\ row.kind \in LotKinds /\ row.delta \in Nat \ {0} /\ row.id = NextId
        /\ row.at = clock /\ row.exp \in Instants
    BY <2>2, <2>3 DEF Row, LotKinds
  <2> HIDE DEF row, amount
  <2>5. Posts(R, R \cup {row}, pauses, clock) /\ Spent(R \cup {row}) = Spent(R)
    BY <1>1, <1>2, <1>3, <2>4, LotPosts
  <2>6. RowsOK(R \cup {row})
    <3>1. Kept(R \cup {row}, pauses, NextId + 1, clock)
      BY <1>1, <1>2, <1>3, <2>4, LotKept
    <3> QED BY <3>1 DEF Kept
  <2>7. Posts(ledger, R \cup {row}, pauses, clock)
    BY <1>1, <1>2, <1>3, <1>4, <2>5, <2>6, PostsTogether
  <2>8. R \cup {row} = ledger \cup rows /\ Stage(b, rows, added)
    BY <2>1 DEF R, row, amount
  <2> HIDE DEF rows
  <2> QED BY <1>1, <1>4, <2>5, <2>7, <2>8
<1>8. CASE WorkLot(b)
  <2> DEFINE row == Row(tx[b].req.op, serial, Null, amount, clock, tx[b].req.exp)
  <2>1. tx[b].req.op \in Lots /\ Stage(b, {row}, 1)
    BY <1>8 DEF WorkLot
  <2>2. amount \in Nat \ {0} /\ tx[b].req.exp \in Instants
    BY <2>1, RequestTypes
  <2>3. /\ row.kind \in LotKinds /\ row.delta \in Nat \ {0} /\ row.id = serial
        /\ row.at = clock /\ row.exp \in Instants
    BY <2>1, <2>2 DEF Row, LotKinds, Lots
  <2> HIDE DEF row, amount
  <2>4. Posts(ledger, ledger \cup {row}, pauses, clock) /\ Spent(ledger \cup {row}) = Spent(ledger)
    BY <1>1, <1>2, <2>3, LotPosts
  <2> QED BY <2>1, <2>4
<1> QED BY <1>5, <1>6, <1>7, <1>8 DEF Work

(* The effects hold initially ...                                          *)
LEMMA EffectInitially == Init => EffectInv
BY LedgerAssumption DEF Init, EffectInv, Idle, Session, NoRequest, Spends

(* ... and whatever a session does.                                        *)
LEMMA EffectStep == IInv /\ KeptInv /\ EffectInv /\ [Next]_vars => EffectInv'
<1> SUFFICES ASSUME IInv, KeptInv, EffectInv, [Next]_vars PROVE EffectInv'
  OBVIOUS
<1>0. /\ \A b \in Backends : tx[b].step \in {"locked", "worked"} <=> lock = b
      /\ Nobody \notin Backends /\ DOMAIN tx = Backends
  BY LedgerAssumption DEF IInv, TypeOK
<1>1. ASSUME UNCHANGED <<ledger, pauses, asOf>>,
             \A b \in Backends : /\ lock' = b => lock = b /\ tx'[b].req = tx[b].req
                                 /\ tx'[b].step = "worked" => tx'[b] = tx[b]
      PROVE  EffectInv'
  <2>1. HasOpenPause' <=> HasOpenPause
    BY <1>1 DEF HasOpenPause
  <2> QED BY <1>1, <2>1 DEF EffectInv
<1>2. CASE Tick
  <2>1. /\ UNCHANGED <<ledger, pauses, lock, tx>>
        /\ asOf' = IF lock = Nobody THEN clock + 1 ELSE asOf
    BY <1>2 DEF Tick
  <2>2. CASE lock = Nobody
    <3>1. \A b \in Backends : lock' # b /\ tx'[b].step # "worked"
      BY <1>0, <2>1, <2>2
    <3> QED BY <3>1 DEF EffectInv
  <2>3. CASE lock # Nobody
    <3>1. UNCHANGED <<ledger, pauses, asOf, lock, tx>>
      BY <2>1, <2>3
    <3> QED BY <1>1, <3>1
  <2> QED BY <2>2, <2>3
<1>3. CASE ChangeTier \/ UNCHANGED vars
  <2>1. UNCHANGED <<ledger, pauses, asOf, lock, tx>>
    BY <1>3 DEF ChangeTier, vars
  <2> QED BY <1>1, <2>1
<1>4. ASSUME NEW b \in Backends,
             (\E req \in Requests : Begin(b, req)) \/ Refuse(b) \/ Rollback(b)
      PROVE  EffectInv'
  <2>1. /\ UNCHANGED <<ledger, pauses, asOf>>
        /\ \A c \in Backends : /\ lock' = c => lock = c /\ tx'[c].req = tx[c].req
                               /\ tx'[c].step = "worked" => tx'[c] = tx[c]
    BY <1>0, <1>4 DEF Begin, Refuse, Rollback, Session, Idle
  <2> QED BY <1>1, <2>1
<1>5. ASSUME NEW b \in Backends, TakeLock(b) PROVE EffectInv'
  <2>1. /\ UNCHANGED <<ledger, pauses>> /\ lock' = b /\ lock = Nobody
        /\ tx'[b].req = tx[b].req /\ tx'[b].step = "locked" /\ \A c \in Backends \ {b} : tx'[c] = tx[c]
        /\ tx[b].req.op \in Spends => ~HasOpenPause
    BY <1>0, <1>5 DEF TakeLock, Session, Admitted
  <2>2. HasOpenPause' <=> HasOpenPause
    BY <2>1 DEF HasOpenPause
  <2>3. \A c \in Backends : tx'[c].step # "worked"
    BY <1>0, <2>1
  <2> QED BY <2>1, <2>2, <2>3 DEF EffectInv
<1>6. ASSUME NEW b \in Backends, Work(b) PROVE EffectInv'
  <2>0. tx[b].step = "locked" /\ lock = b
    BY <1>0, <1>6 DEF Work
  <2>1. CASE WorkPause(b)
    <3>1. /\ UNCHANGED <<ledger, pauses, asOf, lock>>
          /\ tx'[b].req = tx[b].req /\ tx[b].req.op \in {"pause", "resume"}
          /\ \A c \in Backends \ {b} : tx'[c] = tx[c]
      BY <1>0, <2>1 DEF WorkPause, Session
    <3>2. HasOpenPause' <=> HasOpenPause
      BY <3>1 DEF HasOpenPause
    <3>3. \A c \in Backends : tx'[c].step = "worked" => c = b
      BY <1>0, <2>0, <3>1
    <3> QED BY <2>0, <3>1, <3>2, <3>3 DEF EffectInv
  <2>2. CASE ~WorkPause(b)
    <3>1. PICK rows, added :
             /\ added \in Nat /\ Stage(b, rows, added)
             /\ Posts(ledger, ledger \cup rows, pauses, clock)
             /\ tx[b].req.op \notin Spends => Spent(ledger \cup rows) = Spent(ledger)
      BY <1>6, <2>2, WorkPosts
    <3>2. /\ UNCHANGED <<ledger, pauses, lock>> /\ asOf' = clock
          /\ tx'[b].rows = rows /\ tx'[b].req = tx[b].req
          /\ \A c \in Backends \ {b} : tx'[c] = tx[c]
      BY <1>0, <3>1 DEF Stage, Session
    <3>3. HasOpenPause' <=> HasOpenPause
      BY <3>2 DEF HasOpenPause
    <3>4. \A c \in Backends : tx'[c].step = "worked" => c = b
      BY <1>0, <2>0, <3>2
    <3> QED BY <2>0, <3>1, <3>2, <3>3, <3>4 DEF EffectInv
  <2> QED BY <2>1, <2>2
<1>7. ASSUME NEW b \in Backends, Commit(b) PROVE EffectInv'
  <2>1. lock' = Nobody /\ lock = b /\ tx'[b].step = "idle" /\ \A c \in Backends \ {b} : tx'[c] = tx[c]
    BY <1>0, <1>7 DEF Commit, Idle, Session
  <2>2. \A c \in Backends : lock' # c /\ tx'[c].step # "worked"
    BY <1>0, <2>1
  <2> QED BY <2>2 DEF EffectInv
<1> QED BY <1>2, <1>3, <1>4, <1>5, <1>6, <1>7 DEF Next


(* What is observed of a kept ledger.                                      *)
LEMMA ObservedAccount ==
    ASSUME IInv, KeptInv, Observed
    PROVE  /\ account.credited = Credits(ledger) /\ account.spent = Spent(ledger)
           /\ account.available = Bal(ledger, pauses, asOf)
           /\ Credits(ledger) \in Int /\ Spent(ledger) \in Int /\ Bal(ledger, pauses, asOf) \in Nat
<1>1. /\ account.credited = Given(Births(ledger))
      /\ account.spent = -SumOf(LAMBDA r : r.delta, {r \in ledger : r.kind # "expiry" /\ ~IsLotRow(r)})
      /\ account.available = BalanceAt(ledger, pauses, asOf)
  BY DEF Observed, AccountOf, Given, Births
<1>2. {r \in ledger : r.kind # "expiry" /\ ~IsLotRow(r)} = Outlays(ledger)
  BY DEF Outlays
<1>3. Kept(ledger, pauses, serial, asOf) /\ InOrder(pauses) /\ asOf \in Nat
  BY Counters DEF KeptInv
<1>4. RowsOK(ledger) /\ \A r \in ledger : r.at <= asOf
  BY <1>3 DEF Kept
<1>5. BalanceAt(ledger, pauses, asOf) = Bal(ledger, pauses, asOf)
  BY <1>4, FoldReadsAll DEF Bal
<1>6. Credits(ledger) \in Int /\ Spent(ledger) \in Int /\ Bal(ledger, pauses, asOf) \in Nat
  BY <1>3, <1>4, AccountTypes
<1> QED BY <1>1, <1>2, <1>5, <1>6 DEF Credits, Spent, Given

(* Nothing owed is nothing.                                                *)
LEMMA NoDebt == ASSUME NEW n \in Int, n <= 0, n >= 0 PROVE -n \in Int /\ -n <= 0 /\ -n >= 0
OBVIOUS

(* An empty ledger is an empty account.                                    *)
LEMMA AccountInitially == Init /\ Observed => Abstract!Init
<1> SUFFICES ASSUME Init, Observed PROVE Abstract!Init
  OBVIOUS
<1>1. ledger = {} /\ pauses = {} /\ asOf = 0
  BY DEF Init
<1>2. IInv /\ KeptInv
  BY InitIInv, KeptInitially
<1>3. /\ account.credited = Credits(ledger) /\ account.spent = Spent(ledger)
      /\ account.available = Bal(ledger, pauses, asOf)
  BY <1>2, ObservedAccount
<1>4. Credits(ledger) = 0 /\ Spent(ledger) = 0
  <2>1. Births(ledger) = {} /\ Outlays(ledger) = {}
    BY <1>1 DEF Births, Outlays
  <2>2. Given(Outlays(ledger)) = 0 /\ Given(Births(ledger)) = 0
    BY <2>1, NothingGiven
  <2>3. Spent(ledger) \in Int /\ Spent(ledger) <= 0 /\ Spent(ledger) >= 0
    BY <2>2, NoDebt DEF Spent
  <2> QED BY <2>2, <2>3 DEF Credits
<1>5. Bal(ledger, pauses, asOf) = 0
  <2>1. RowsOK(ledger) /\ InOrder(pauses) /\ asOf \in Nat
    BY <1>1, <1>2, Counters DEF KeptInv, Kept
  <2>2. Alive(ledger, pauses, asOf) = {}
    BY <1>1 DEF Alive, LotRows
  <2> QED BY <2>1, <2>2, BalanceIs, TotalEmpty DEF Bal
<1>6. ~HasOpenPause
  BY <1>1 DEF HasOpenPause
<1> QED BY <1>3, <1>4, <1>5, <1>6 DEF Abstract!Init

(* Time that passes lapses credits, or is not noticed.                     *)
LEMMA LookLapses ==
    ASSUME IInv, KeptInv, Observed, Observed', IInv', KeptInv',
           UNCHANGED <<ledger, pauses>>, asOf' >= asOf
    PROVE  Abstract!Lapse \/ UNCHANGED Abstract!account
<1>1. /\ account.credited = Credits(ledger) /\ account.spent = Spent(ledger)
      /\ account.available = Bal(ledger, pauses, asOf)
  BY ObservedAccount
<1>2. /\ account'.credited = Credits(ledger') /\ account'.spent = Spent(ledger')
      /\ account'.available = Bal(ledger', pauses', asOf')
  <2>1. (IInv /\ KeptInv /\ Observed =>
           /\ account.credited = Credits(ledger) /\ account.spent = Spent(ledger)
           /\ account.available = Bal(ledger, pauses, asOf))'
    BY ObservedAccount, PTL
  <2> QED BY <2>1
<1>3. /\ account'.credited = account.credited /\ account'.spent = account.spent
      /\ account'.available = Bal(ledger, pauses, asOf')
  BY <1>1, <1>2
<1>4. asOf \in Nat /\ asOf' \in Nat /\ asOf <= asOf' /\ serial \in Nat
  <2>1. asOf \in Nat /\ serial \in Nat
    BY Counters
  <2>2. (IInv => asOf \in Nat)'
    BY Counters, PTL
  <2> QED BY <2>1, <2>2
<1>5. Kept(ledger, pauses, serial, asOf) /\ InOrder(pauses) /\ PausedBy(pauses, asOf)
  BY PausesPast DEF KeptInv
<1> DEFINE n == Bal(ledger, pauses, asOf)
           m == Bal(ledger, pauses, asOf')
<1>6. /\ m \in Nat /\ n \in Nat /\ m <= n
      /\ (\E p \in pauses : p.ended = Null) => m = n
  <2>1. ASSUME NEW u \in Nat, asOf <= u
        PROVE  /\ Bal(ledger, pauses, u) \in Nat /\ n \in Nat /\ Bal(ledger, pauses, u) <= n
               /\ (\E p \in pauses : p.ended = Null) => Bal(ledger, pauses, u) = n
    BY <1>4, <1>5, <2>1, BalanceLapses
  <2> QED BY <1>4, <2>1
<1> HIDE DEF n, m
<1>7. HasOpenPause' = HasOpenPause
  BY DEF HasOpenPause
<1>8. CASE HasOpenPause
  <2>1. m = n
    BY <1>6, <1>8 DEF HasOpenPause
  <2> QED BY <1>1, <1>3, <1>7, <2>1 DEF Abstract!account, n, m
<1>9. CASE ~HasOpenPause
  <2>1. m \in 0..n
    BY <1>6
  <2> QED BY <1>1, <1>3, <1>7, <1>9, <2>1 DEF Abstract!Lapse, n, m
<1> QED BY <1>8, <1>9


(* A commit posts what was staged, or freezes or thaws the account.        *)
LEMMA CommitPosts ==
    ASSUME IInv, KeptInv, EffectInv, Observed, Observed', IInv', KeptInv', NEW b \in Backends, Commit(b)
    PROVE  Abstract!Next \/ UNCHANGED Abstract!account
<1>1. /\ ledger' = ledger \cup tx[b].rows /\ asOf' = asOf
      /\ pauses' = IF tx[b].req.op \in {"pause", "resume"} THEN tx[b].periods ELSE pauses
      /\ tx[b].step = "worked" /\ lock = b /\ asOf \in Nat
  BY Counters DEF Commit, IInv, TypeOK
<1>2. /\ account.credited = Credits(ledger) /\ account.spent = Spent(ledger)
      /\ account.available = Bal(ledger, pauses, asOf)
      /\ Credits(ledger) \in Int /\ Spent(ledger) \in Int /\ Bal(ledger, pauses, asOf) \in Nat
  BY ObservedAccount
<1>3. /\ account'.credited = Credits(ledger') /\ account'.spent = Spent(ledger')
      /\ account'.available = Bal(ledger', pauses', asOf)
      /\ Credits(ledger') \in Int /\ Spent(ledger') \in Int /\ Bal(ledger', pauses', asOf) \in Nat
  <2>1. (IInv /\ KeptInv /\ Observed =>
           /\ account.credited = Credits(ledger) /\ account.spent = Spent(ledger)
           /\ account.available = Bal(ledger, pauses, asOf)
           /\ Credits(ledger) \in Int /\ Spent(ledger) \in Int /\ Bal(ledger, pauses, asOf) \in Nat)'
    BY ObservedAccount, PTL
  <2> QED BY <1>1, <2>1
<1>4. CASE tx[b].req.op \in {"pause", "resume"}
  <2> DEFINE op == tx[b].req.op
             Q == Repaused(pauses, op, asOf)
  <2>1. /\ op = "pause" => ~HasOpenPause
        /\ op = "resume" => HasOpenPause
        /\ tx[b].rows = {} /\ tx[b].periods = Q
    BY <1>1, <1>4 DEF IInv, PeriodInv, HasOpenPause
  <2>2. pauses' = Q /\ ledger' = ledger
    BY <1>1, <1>4, <2>1
  <2>3. Bal(ledger, Q, asOf) = Bal(ledger, pauses, asOf)
    <3>1. BalanceAt(ledger', pauses', asOf) = BalanceAt(ledger, pauses, asOf)
      BY <1>1, <1>4, CommitKeepsHistory
    <3>2. \A r \in ledger : r.at <= asOf
      BY DEF KeptInv, Kept
    <3>3. \A P : BalanceAt(ledger, P, asOf) = Bal(ledger, P, asOf)
      BY <3>2, FoldReadsAll DEF Bal
    <3> QED BY <2>2, <3>1, <3>3
  <2>4. /\ account'.credited = account.credited /\ account'.spent = account.spent
        /\ account'.available = account.available
    BY <1>2, <1>3, <2>2, <2>3
  <2>5. CASE op = "pause"
    <3>1. [started |-> asOf, ended |-> Null] \in pauses'
      BY <2>2, <2>5 DEF Repaused
    <3>2. HasOpenPause' = TRUE
      BY <3>1 DEF HasOpenPause
    <3> QED BY <2>1, <2>4, <2>5, <3>2 DEF Abstract!Next, Abstract!Freeze
  <2>6. CASE op = "resume"
    <3>1. pauses' = {IF p.ended = Null THEN [started |-> p.started, ended |-> asOf] ELSE p : p \in pauses}
      BY <2>2, <2>6 DEF Repaused
    <3>2. asOf # Null
      BY <1>1 DEF Null
    <3>3. HasOpenPause' = FALSE
      BY <3>1, <3>2 DEF HasOpenPause
    <3> QED BY <2>1, <2>4, <2>6, <3>3 DEF Abstract!Next, Abstract!Thaw
  <2> QED BY <1>4, <2>5, <2>6
<1>5. CASE tx[b].req.op \notin {"pause", "resume"}
  <2> DEFINE c == Credits(ledger') - Credits(ledger)
             s == Spent(ledger') - Spent(ledger)
  <2>1. pauses' = pauses
    BY <1>1, <1>5
  <2>2. /\ c \in Nat /\ s \in Nat
        /\ Bal(ledger', pauses, asOf) = Bal(ledger, pauses, asOf) + (c - s)
        /\ tx[b].req.op \notin Spends => Spent(ledger') = Spent(ledger)
        /\ tx[b].req.op \in Spends => ~HasOpenPause
    BY <1>1, <1>5 DEF EffectInv, Posts
  <2>3. s > 0 => ~HasOpenPause
    BY <1>2, <2>2
  <2>4. HasOpenPause' = HasOpenPause
    BY <2>1 DEF HasOpenPause
  <2>5. /\ account'.credited - account.credited = c
        /\ account'.spent - account.spent = s
        /\ account.available = Bal(ledger, pauses, asOf)
        /\ account'.available = Bal(ledger', pauses, asOf)
    BY <1>2, <1>3, <2>1
  <2>6. account.available \in Nat /\ account'.available \in Nat
    BY <1>2, <1>3
  <2> HIDE DEF c, s
  <2>7. s <= account.available + c /\ account'.available = (account.available + c) - s
    BY <2>2, <2>5, <2>6
  <2>8. Abstract!Post
    BY <2>2, <2>3, <2>4, <2>5, <2>7 DEF Abstract!Post
  <2> QED BY <2>8 DEF Abstract!Next
<1> QED BY <1>4, <1>5

(* Every step of the ledger is one of the account, or not noticed.         *)
LEMMA AccountStep ==
    ASSUME IInv, KeptInv, EffectInv, Observed, Observed', IInv', KeptInv', [Next]_vars
    PROVE  Abstract!Next \/ UNCHANGED Abstract!account
<1>1. ASSUME UNCHANGED <<ledger, pauses>>, asOf' >= asOf
      PROVE  Abstract!Next \/ UNCHANGED Abstract!account
  <2>1. Abstract!Lapse \/ UNCHANGED Abstract!account
    BY <1>1, LookLapses
  <2> QED BY <2>1 DEF Abstract!Next
<1>2. clock \in Nat /\ asOf \in Nat /\ asOf <= clock
  BY Counters
<1>3. CASE Tick
  <2>1. UNCHANGED <<ledger, pauses>> /\ asOf' = IF lock = Nobody THEN clock + 1 ELSE asOf
    BY <1>3 DEF Tick
  <2> QED BY <1>1, <1>2, <2>1
<1>4. CASE ChangeTier \/ UNCHANGED vars
  <2>1. UNCHANGED <<ledger, pauses, asOf>>
    BY <1>4 DEF ChangeTier, vars
  <2> QED BY <1>1, <1>2, <2>1
<1>5. ASSUME NEW b \in Backends,
             \/ \E req \in Requests : Begin(b, req)
             \/ TakeLock(b) \/ Refuse(b) \/ Work(b) \/ Rollback(b)
      PROVE  Abstract!Next \/ UNCHANGED Abstract!account
  <2>1. UNCHANGED <<ledger, pauses>> /\ asOf' \in {asOf, clock}
    BY <1>5 DEF Begin, TakeLock, Refuse, Rollback,
                Work, WorkRead, WorkSpend, WorkRefund, WorkLot, WorkPause, Stage
  <2> QED BY <1>1, <1>2, <2>1
<1>6. ASSUME NEW b \in Backends, Commit(b) PROVE Abstract!Next \/ UNCHANGED Abstract!account
  BY <1>6, CommitPosts
<1> QED BY <1>3, <1>4, <1>5, <1>6 DEF Next

(* The ledger keeps the promise of the account, whatever is bought, spent, *)
(* refunded, paused and resumed and in whatever order sessions commit: the *)
(* spendable balance moves by exactly what the committed rows record,      *)
(* nothing is spent and nothing lapses while a pause is open, and a pause  *)
(* that begins or ends moves nothing (ledger.ts, debitCredits and          *)
(* deriveBalanceInTx; pause.ts, recordPauseStart and recordPauseEnd).      *)
(* Observed only says what account is, in terms of the ledger.             *)
THEOREM LedgerImplementsAccount == Spec /\ []Observed => ImplementsAccount
<1>1. Init /\ Observed => Abstract!Init
  BY AccountInitially
<1>2. /\ IInv /\ KeptInv /\ EffectInv /\ Observed /\ Observed' /\ (IInv /\ KeptInv)' /\ [Next]_vars
      => [Abstract!Next]_(Abstract!account)
  BY AccountStep
<1>3. Spec => [](IInv /\ KeptInv)
  BY KeptHistory
<1>4. Spec => []EffectInv
  BY <1>3, EffectInitially, EffectStep, PTL DEF Spec
<1> QED BY <1>1, <1>2, <1>3, <1>4, PTL DEF Spec, ImplementsAccount, Abstract!Spec
=============================================================================
