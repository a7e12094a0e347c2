---------------------------- MODULE AutoTopupProofs ----------------------------
(***************************************************************************)
(* The off-session charge for any number of callers, attempts and payments *)
(* and any cap, whatever crashes, answers late or is set back: an attempt  *)
(* has one payment, no attempt is given up while money may move for it,    *)
(* and the cap bounds what is charged.  Then the cutover from the old      *)
(* binary, for any number of its calls and any windows.                    *)
(***************************************************************************)
EXTENDS AutoTopup, AutoTopupRollout, FiniteSetTheorems, SequenceTheorems, TLAPS

Everyone == Callers \cup {Operator}

Steps ==
  {"idle", "plan", "lookup", "retire", "retrieve", "bind", "recover", "dispatch", "calling",
   "answered", "find", "refind", "claim", "clear", "store", "read"}

PaymentSpace ==
  [attempt : Nat, key : [attempt : Nat, of : {Nobody}], born : Nat,
   first : Persistable, status : Statuses]

RowsSpace ==
  [id : 0..MaxAttempts, claim : Everyone \cup {Nobody}, at : 0..MaxNow,
   pi : 0..MaxPayments, status : Persistable \cup {"none"}]

KnowledgeSpace ==
  [pc : Steps, id : 0..MaxAttempts, at : 0..MaxNow, fresh : BOOLEAN,
   claim : Everyone \cup {Nobody}, pi : 0..MaxPayments, status : Statuses \cup {"none"}]

-----------------------------------------------------------------------------
(* What is known is true                                                   *)

(* A payment is one of a reserved attempt, under the key of that attempt.  *)
PaymentsSound ==
  /\ payments \in Seq(PaymentSpace) /\ Len(payments) <= MaxPayments
  /\ \A p \in DOMAIN payments :
       /\ payments[p].attempt \in 1..reserved /\ payments[p].born <= clock
       /\ payments[p].key = [attempt |-> payments[p].attempt, of |-> Nobody]

(* A request is under way only while a payment of its attempt, if there is *)
(* one, is still remembered under its key.                                 *)
WireSound ==
  \A k \in wire :
    /\ k \in [attempt : 1..reserved, of : {Nobody}]
    /\ \A p \in DOMAIN payments :
         payments[p].attempt = k.attempt => clock - payments[p].born <= SafeRetry

(* Of what an event reports, a success and a cancellation last.            *)
EventsSound ==
  \A e \in events :
    /\ e.pi \in DOMAIN payments /\ e.kind \in {"succeeded", "failed", "canceled"}
    /\ e.kind # "failed" => payments[e.pi].status = e.kind

(* The row's payment is one of its attempt, and no payment of the attempt  *)
(* is older than the attempt.                                              *)
RowSound(r, ps, ids, now) ==
  /\ r \in RowsSpace /\ r.id <= ids /\ r.at <= now
  /\ r.id = 0 => r.claim = Nobody
  /\ r.pi # 0 => r.pi \in DOMAIN ps /\ ps[r.pi].attempt = r.id
  /\ \A p \in DOMAIN ps : ps[p].attempt = r.id => r.at <= ps[p].born

(* What a process knows of a payment: whose it is, and that it is canceled.*)
KnowledgeSound(k, ps, ids) ==
  /\ k \in KnowledgeSpace /\ k.id <= ids /\ (k.pc # "idle" => k.id # 0)
  /\ k.pi # 0 => k.pi \in DOMAIN ps /\ ps[k.pi].attempt = k.id
  /\ k.pc \in {"retrieve", "recover", "bind", "answered", "store", "read"} => k.pi # 0
  /\ k.pc \in {"recover", "bind", "answered", "store"} => k.status # "none"
  /\ k.pc = "plan" => k.status = "none"
  /\ k.status = "canceled" => k.pi # 0 /\ ps[k.pi].status = "canceled"

Sound ==
  /\ topup \in Callers \cup {Nobody} /\ reserved \in 0..MaxAttempts /\ clock \in 0..MaxNow
  /\ restored \in BOOLEAN /\ adrift \subseteq 1..MaxAttempts
  /\ minted \subseteq DOMAIN payments /\ copy.minted \subseteq DOMAIN payments
  /\ PaymentsSound /\ WireSound /\ EventsSound
  /\ RowSound(pending, payments, reserved, clock)
  /\ RowSound(copy.pending, payments, reserved, clock)
  /\ caller \in [Everyone -> KnowledgeSpace]
  /\ \A c \in Everyone : KnowledgeSound(caller[c], payments, reserved)
  /\ AtStep(Operator, "retire") => caller[Operator].status = "canceled"

-----------------------------------------------------------------------------
(* Until a restore                                                         *)

(* Whoever waits for Stripe holds the lock, and a request that is under    *)
(* way without such a sender is adrift.                                    *)
SendersHold ==
  /\ \A c \in Callers : caller[c].pc \in {"calling", "answered"} => topup = c
  /\ \A k \in wire :
       \/ k.attempt \in adrift
       \/ \E c \in Callers : AtStep(c, "calling") /\ Owned(c) /\ caller[c].id = k.attempt

Unpaid(a) == a \in adrift \/ PaymentsOf(a) = {}

(* Who owns the attempt and may give it up has seen that it has no payment,*)
(* and while the claim is theirs nobody else can have asked for one.       *)
OwnersLooked ==
  /\ \A c \in Callers :
       /\ Owned(c)
       /\ \/ caller[c].pc \in {"retire", "dispatch"}
          \/ AtStep(c, "plan") /\ caller[c].fresh
       => Unpaid(pending.id)
  /\ AtStep(Operator, "clear") /\ Owned(Operator) => Unpaid(pending.id)

(* Room for the pack was made before it was asked for.                     *)
RoomIsLeft ==
  pending.id \notin adrift
    /\ (PaymentsOf(pending.id) # {} \/ \E k \in wire : k.attempt = pending.id) => ~OverCap

MintedWithinCap ==
  Cardinality({p \in minted : payments[p].attempt \notin adrift}) <= CapPacks

UntilRestore ==
  SendersHold /\ OwnersLooked /\ UnsettledIsPending /\ RoomIsLeft /\ MintedWithinCap

TopupIInv == Sound /\ OnePaymentPerAttempt /\ (restored \/ UntilRestore)

-----------------------------------------------------------------------------
(* What every step does to the payments                                    *)

Final == {"canceled", "succeeded"}

(* Payments are added, now, and what is final of one stays.                *)
GrowsTo(ps, qs, now) ==
  /\ DOMAIN ps \subseteq DOMAIN qs
  /\ \A p \in DOMAIN ps :
       /\ qs[p].attempt = ps[p].attempt /\ qs[p].born = ps[p].born
       /\ ps[p].status \in Final => qs[p].status = ps[p].status
  /\ \A p \in DOMAIN qs \ DOMAIN ps : qs[p].born = now

(* What was known before such a step is true after it.                     *)
LEMMA RowStays ==
  ASSUME NEW r, NEW ps, NEW qs, NEW ids \in Int, NEW ids2 \in Int, NEW now \in Int,
         NEW now2 \in Int, ids <= ids2, now <= now2, GrowsTo(ps, qs, now),
         RowSound(r, ps, ids, now)
  PROVE  RowSound(r, qs, ids2, now2)
<1>1. r.id \in Int /\ r.at \in Int
  BY TopupAssumption DEF RowSound, RowsSpace
<1>2. \A p \in DOMAIN qs : qs[p].attempt = r.id => r.at <= qs[p].born
  BY <1>1 DEF RowSound, GrowsTo
<1> QED BY <1>1, <1>2 DEF RowSound, GrowsTo

LEMMA KnowledgeStays ==
  ASSUME NEW k, NEW ps, NEW qs, NEW ids \in Int, NEW ids2 \in Int, NEW now,
         ids <= ids2, GrowsTo(ps, qs, now), KnowledgeSound(k, ps, ids)
  PROVE  KnowledgeSound(k, qs, ids2)
<1>1. k.id \in Int
  BY TopupAssumption DEF KnowledgeSound, KnowledgeSpace
<1> QED BY <1>1 DEF KnowledgeSound, GrowsTo, Final

(* The payments as they are before a step.                                 *)
LEMMA PaymentsTyped ==
  ASSUME Sound
  PROVE  /\ payments \in Seq(PaymentSpace) /\ Len(payments) \in Nat
         /\ DOMAIN payments = 1..Len(payments) /\ Len(payments) <= MaxPayments
         /\ \A p \in DOMAIN payments :
              /\ payments[p] \in PaymentSpace /\ p \in 1..MaxPayments
              /\ payments[p].attempt \in 1..reserved
         /\ reserved \in Nat /\ clock \in Nat
<1>1. payments \in Seq(PaymentSpace) /\ Len(payments) <= MaxPayments
      /\ reserved \in Nat /\ clock \in Nat
  BY TopupAssumption DEF Sound, PaymentsSound
<1>2. Len(payments) \in Nat /\ DOMAIN payments = 1..Len(payments)
      /\ \A p \in 1..Len(payments) : payments[p] \in PaymentSpace
  BY <1>1, LenProperties, ElementOfSeq
<1>3. \A p \in DOMAIN payments : p \in 1..MaxPayments
  BY <1>1, <1>2, TopupAssumption
<1>4. \A p \in DOMAIN payments : payments[p].attempt \in 1..reserved
  BY DEF Sound, PaymentsSound
<1> QED BY <1>1, <1>2, <1>3, <1>4

(* A payment moves on, and its events tell.                                *)
Moves ==
  /\ GrowsTo(payments, payments', clock) /\ PaymentsSound'
  /\ DOMAIN payments' = DOMAIN payments
  /\ wire' = wire
  /\ events' \subseteq events \cup [pi : DOMAIN payments, kind : {"succeeded", "failed", "canceled"}]
  /\ \A e \in events' \ events : e.kind # "failed" => payments'[e.pi].status = e.kind

LEMMA StripeRests ==
  ASSUME Sound, UNCHANGED <<payments, wire>>, events' \subseteq events,
         reserved' \in Nat, reserved <= reserved', clock' \in Nat, clock <= clock'
  PROVE  Moves
<1>1. \A p \in DOMAIN payments : payments[p].born \in Nat
  BY PaymentsTyped DEF PaymentSpace
<1>2. PaymentsSound'
  BY <1>1, PaymentsTyped DEF Sound, PaymentsSound
<1> QED BY <1>2 DEF Moves, GrowsTo

LEMMA PaymentMoves ==
  ASSUME Sound, NEW p \in DOMAIN payments, NEW s \in Statuses, Becomes(p, s),
         payments[p].status \notin Final, UNCHANGED <<reserved, clock>>
  PROVE  Moves /\ payments'[p].status = s
<1>1. payments' = [payments EXCEPT ![p] = [payments[p] EXCEPT !.status = s]]
  BY DEF Becomes
<1>2. [payments[p] EXCEPT !.status = s] \in PaymentSpace
  BY PaymentsTyped DEF PaymentSpace
<1>3. payments' \in Seq(PaymentSpace) /\ Len(payments') = Len(payments)
      /\ \A q \in DOMAIN payments :
           payments'[q] = IF q = p THEN [payments[p] EXCEPT !.status = s] ELSE payments[q]
  BY <1>1, <1>2, PaymentsTyped, ExceptSeq
<1>4. DOMAIN payments' = DOMAIN payments
  BY <1>1
<1>5. \A q \in DOMAIN payments :
        /\ payments'[q].attempt = payments[q].attempt /\ payments'[q].born = payments[q].born
        /\ payments'[q].key = payments[q].key
        /\ payments'[q].status = IF q = p THEN s ELSE payments[q].status
  BY ZenonT(30), <1>3, PaymentsTyped DEF PaymentSpace
<1>6. PaymentsSound'
  BY <1>3, <1>4, <1>5 DEF Sound, PaymentsSound
<1>7. GrowsTo(payments, payments', clock)
  BY <1>4, <1>5 DEF GrowsTo, Final
<1>8. wire' = wire
      /\ events' \subseteq events \cup {[pi |-> p, kind |-> "succeeded"]}
                                \cup {[pi |-> p, kind |-> "failed"]}
                                \cup {[pi |-> p, kind |-> "canceled"]}
      /\ \A e \in events' \ events : e.pi = p /\ (e.kind # "failed" => e.kind = s)
  BY DEF Becomes, Sent
<1> QED BY <1>4, <1>5, <1>6, <1>7, <1>8 DEF Moves

LEMMA CancelMoves ==
  ASSUME Sound, NEW p \in DOMAIN payments, NEW shown \in Statuses, Cancel(p, shown),
         UNCHANGED <<reserved, clock>>
  PROVE  Moves /\ (shown = "canceled" => payments'[p].status = "canceled")
<1>1. "canceled" \in Statuses /\ "open" \notin Final
  BY DEF Statuses, Final
<1>2. CASE payments[p].status = "open" /\ Becomes(p, "canceled")
  BY <1>1, <1>2, PaymentMoves
<1>3. CASE UNCHANGED stripeVars /\ (shown = "open" \/ shown = payments[p].status)
  <2>1. UNCHANGED <<payments, wire, events>>
    BY <1>3 DEF stripeVars
  <2>2. Moves
    BY <2>1, StripeRests, PaymentsTyped
  <2> QED BY <1>3, <2>1, <2>2
<1> QED BY <1>2, <1>3 DEF Cancel

(* A transaction that settles what it was shown leaves the row as it was,  *)
(* or binds a payment that, when it is given up, is canceled.              *)
LEMMA ReconcileMoves ==
  ASSUME Sound, NEW p \in DOMAIN payments, NEW s \in Statuses,
         s = "canceled" => payments[p].status = "canceled", Reconcile(p, s),
         UNCHANGED <<reserved, clock>>
  PROVE  /\ Moves
         /\ \/ pending' = pending
            \/ \E shown \in Statuses :
                 /\ pending' = Bound(p, shown)
                 /\ shown = "canceled" => payments'[p].status = "canceled"
<1>1. CASE UNCHANGED stripeVars /\ pending' = Bound(p, s)
  <2>1. UNCHANGED <<payments, wire, events>>
    BY <1>1 DEF stripeVars
  <2>2. Moves
    BY <2>1, StripeRests, PaymentsTyped
  <2> QED BY <1>1, <2>1, <2>2
<1>2. CASE \E shown \in Statuses :
             Cancel(p, shown) /\ (pending' = Bound(p, shown) \/ UNCHANGED pending)
  BY <1>2, CancelMoves
<1> QED BY <1>1, <1>2 DEF Reconcile

(* Stripe answers from memory, or with a payment it makes now.             *)
Answered(k) ==
  /\ wire' = wire \ {k}
  /\ UNCHANGED <<topup, rowVars, reserved, clock, copy, adrift, restored>>
  /\ \E p \in DOMAIN payments' :
       /\ payments'[p].attempt = k.attempt
       /\ \E s \in Persistable : Show(k, p, s)

LEMMA Processed ==
  ASSUME Sound, NEW k \in wire, Process(k)
  PROVE  /\ GrowsTo(payments, payments', clock) /\ PaymentsSound' /\ Answered(k) /\ EventsSound'
         /\ \/ payments' = payments
            \/ /\ Known(k) = {}
               /\ \A p \in DOMAIN payments' \ DOMAIN payments :
                    p = Len(payments) + 1 /\ payments'[p].attempt = k.attempt
<1>1. k.attempt \in 1..reserved /\ k = [attempt |-> k.attempt, of |-> Nobody] /\ k \in [attempt : Nat, of : {Nobody}]
  BY TopupAssumption DEF Sound, WireSound
<1>2. CASE \E p \in Known(k) : Show(k, p, payments[p].first) /\ UNCHANGED <<payments, events>>
  <2>1. PICK p \in Known(k) : Show(k, p, payments[p].first) /\ UNCHANGED <<payments, events>>
    BY <1>2
  <2>2. p \in DOMAIN payments /\ payments[p].key = k
    BY DEF Known
  <2>3. payments[p].attempt = k.attempt /\ payments[p].first \in Persistable
    <3>1. k = [attempt |-> payments[p].attempt, of |-> Nobody]
      BY <2>2 DEF Sound, PaymentsSound
    <3>2. payments[p].first \in Persistable
      BY <2>2, PaymentsTyped DEF PaymentSpace
    <3> QED BY <3>1, <3>2
  <2>4. PaymentsSound' /\ EventsSound' /\ GrowsTo(payments, payments', clock)
    BY <2>1 DEF Process, Sound, PaymentsSound, EventsSound, GrowsTo
  <2> QED BY <2>1, <2>2, <2>3, <2>4 DEF Process, Answered
<1>3. CASE Known(k) = {} /\ Len(payments) < MaxPayments
           /\ \E s \in Persistable :
                /\ payments' = Append(payments, [attempt |-> k.attempt, key |-> k,
                                                 born |-> clock, first |-> s, status |-> s])
                /\ Show(k, Len(payments'), s) /\ Sent(Len(payments'), s)
  <2>1. PICK s \in Persistable :
          /\ payments' = Append(payments, [attempt |-> k.attempt, key |-> k,
                                           born |-> clock, first |-> s, status |-> s])
          /\ Show(k, Len(payments'), s) /\ Sent(Len(payments'), s)
    BY <1>3
  <2> DEFINE new == [attempt |-> k.attempt, key |-> k, born |-> clock, first |-> s, status |-> s]
             n   == Len(payments) + 1
  <2>2. new \in PaymentSpace
    BY <1>1, PaymentsTyped DEF PaymentSpace, Statuses
  <2>3. /\ payments' \in Seq(PaymentSpace) /\ Len(payments') = n
        /\ \A p \in 1..Len(payments) : payments'[p] = payments[p]
        /\ payments'[n] = new
    BY <2>1, <2>2, PaymentsTyped, AppendProperties
  <2>4. DOMAIN payments' = 1..n /\ n \notin DOMAIN payments /\ n \in DOMAIN payments'
        /\ DOMAIN payments' \ DOMAIN payments = {n} /\ DOMAIN payments = 1..Len(payments)
    BY <2>3, LenProperties, PaymentsTyped
  <2>5. UNCHANGED <<clock, reserved>>
    BY DEF Process
  <2>6. PaymentsSound'
    <3>1. n <= MaxPayments
      BY <1>3, PaymentsTyped, TopupAssumption
    <3>2. \A p \in DOMAIN payments' :
            /\ payments'[p].attempt \in 1..reserved /\ payments'[p].born <= clock
            /\ payments'[p].key = [attempt |-> payments'[p].attempt, of |-> Nobody]
      <4>1. /\ new.attempt \in 1..reserved /\ new.born <= clock
            /\ new.key = [attempt |-> new.attempt, of |-> Nobody]
        BY <1>1, PaymentsTyped
      <4> QED BY <2>3, <2>4, <4>1 DEF Sound, PaymentsSound
    <3> QED BY <2>3, <2>5, <3>1, <3>2 DEF PaymentsSound
  <2>7. GrowsTo(payments, payments', clock)
    BY <2>3, <2>4 DEF GrowsTo
  <2>8. EventsSound'
    <3>1. \A e \in events : e.pi \in DOMAIN payments' /\ payments'[e.pi] = payments[e.pi]
      BY <2>3, <2>4 DEF Sound, EventsSound
    <3>2. \A e \in events' \ events :
            e.pi = n /\ e.kind \in {"succeeded", "failed", "canceled"} /\ (e.kind # "failed" => e.kind = s)
      BY <2>1, <2>3 DEF Sent
    <3> QED BY <2>3, <2>4, <3>1, <3>2 DEF Sound, EventsSound
  <2>9. Answered(k)
    <3>1. Len(payments') \in DOMAIN payments' /\ payments'[Len(payments')].attempt = k.attempt
      BY <2>3, <2>4
    <3> QED BY <2>1, <3>1 DEF Process, Answered
  <2>10. \A p \in DOMAIN payments' \ DOMAIN payments :
           p = Len(payments) + 1 /\ payments'[p].attempt = k.attempt
    BY <2>3, <2>4
  <2> QED BY <1>3, <2>6, <2>7, <2>8, <2>9, <2>10
<1> QED BY <1>2, <1>3 DEF Process

-----------------------------------------------------------------------------
(* What every step does to Stripe and to the row                           *)

LEMMA Informed ==
  ASSUME Sound, NEW c \in Everyone
  PROVE  /\ caller[c] \in KnowledgeSpace
         /\ caller[c].id \in 0..reserved
         /\ caller[c].pc # "idle" => caller[c].id # 0
         /\ caller[c].pc \in {"retrieve", "recover", "bind", "answered", "store", "read"} =>
              /\ caller[c].pi \in DOMAIN payments
              /\ payments[caller[c].pi].attempt = caller[c].id
         /\ caller[c].pc \in {"recover", "bind", "answered", "store"} =>
              caller[c].status \in Statuses
         /\ caller[c].status = "canceled" =>
              /\ caller[c].pi \in DOMAIN payments
              /\ payments[caller[c].pi].attempt = caller[c].id
              /\ payments[caller[c].pi].status = "canceled"
<1>1. KnowledgeSound(caller[c], payments, reserved) /\ reserved \in Nat
  BY PaymentsTyped DEF Sound
<1> QED BY <1>1, TopupAssumption DEF KnowledgeSound, KnowledgeSpace

(* A bound row, or the row given up for a canceled payment.                *)
Binds ==
  \E p \in DOMAIN payments, s \in Statuses :
    /\ payments[p].attempt = pending.id /\ pending.id # 0
    /\ pending' = Bound(p, s)
    /\ s = "canceled" => payments'[p].status = "canceled"

(* Steps of the transactions that are shown a payment.                     *)
LEMMA ReconciledMoves ==
  ASSUME Sound, NEW c \in Callers, BindFound(c) \/ Answer(c)
  PROVE  Moves /\ (pending' = pending \/ Binds) /\ UNCHANGED <<reserved, clock, minted, restored>>
<1>1. c \in Everyone /\ UNCHANGED <<reserved, clock, minted, restored>>
  BY DEF Everyone, BindFound, Answer
<1>2. caller[c].pc \in {"bind", "recover", "answered"}
  BY DEF BindFound, Answer, AtStep
<1>3. /\ caller[c].pi \in DOMAIN payments /\ payments[caller[c].pi].attempt = caller[c].id
      /\ caller[c].status \in Statuses /\ caller[c].id # 0
      /\ caller[c].status = "canceled" => payments[caller[c].pi].status = "canceled"
  BY <1>1, <1>2, Informed
<1>4. CASE Mine(c) /\ Reconcile(caller[c].pi, caller[c].status)
  <2>1. /\ Moves
        /\ \/ pending' = pending
           \/ \E shown \in Statuses :
                /\ pending' = Bound(caller[c].pi, shown)
                /\ shown = "canceled" => payments'[caller[c].pi].status = "canceled"
    BY <1>1, <1>3, <1>4, ReconcileMoves
  <2>2. payments[caller[c].pi].attempt = pending.id /\ pending.id # 0
    BY <1>3, <1>4 DEF Mine
  <2> QED BY <1>1, <1>3, <2>1, <2>2 DEF Binds
<1>5. CASE UNCHANGED <<pending, stripeVars>>
  <2>1. UNCHANGED <<payments, wire, events>>
    BY <1>5 DEF stripeVars
  <2> QED BY <1>1, <1>5, <2>1, StripeRests, PaymentsTyped
<1> QED BY <1>4, <1>5 DEF BindFound, Answer, StillWanted, Owned

(* The operator's cancellations, the bank's moves, and a replayed event.   *)
LEMMA ProviderMoves ==
  ASSUME Sound,
         Read \/ \E p \in DOMAIN payments : Move(p) \/ CancelForgotten(p) \/ Replay(p)
  PROVE  Moves /\ UNCHANGED <<pending, reserved, clock, minted, restored>>
<1>1. UNCHANGED <<pending, reserved, clock, minted, restored>>
  BY DEF Read, Move, CancelForgotten, Replay, rowVars
<1>2. CASE Read
  <2>1. caller[Operator].pi \in DOMAIN payments
    BY <1>2, Informed DEF Read, AtStep, Everyone
  <2>2. PICK shown \in Statuses : Cancel(caller[Operator].pi, shown)
    BY <1>2 DEF Read
  <2> QED BY <1>1, <2>1, <2>2, CancelMoves
<1>3. CASE \E p \in DOMAIN payments : Move(p) \/ CancelForgotten(p)
  <2>1. PICK p \in DOMAIN payments, s \in Statuses :
          Becomes(p, s) /\ payments[p].status \notin Final
    BY <1>3 DEF Move, CancelForgotten, Statuses, Persistable, Final
  <2> QED BY <1>1, <2>1, PaymentMoves
<1>4. CASE \E p \in DOMAIN payments : Replay(p)
  <2>1. PICK p \in DOMAIN payments : Replay(p)
    BY <1>4
  <2>2. /\ UNCHANGED <<payments, wire>>
        /\ events' = events \cup {[pi |-> p, kind |-> "succeeded"]}
        /\ payments[p].status = "succeeded"
    BY <2>1 DEF Replay, Sent
  <2>3. GrowsTo(payments, payments', clock) /\ PaymentsSound'
    BY <1>1, <2>2 DEF GrowsTo, Sound, PaymentsSound
  <2> QED BY <1>1, <2>2, <2>3 DEF Moves
<1> QED BY <1>2, <1>3, <1>4

(* Steps that leave Stripe alone but for an event that has been handled.   *)
Local ==
  \/ \E c \in Callers : \/ Prepare(c) \/ Plan(c) \/ Lookup(c) \/ Retire(c) \/ Retrieve(c)
                        \/ GiveUp(c)
  \/ \E e \in events : Deliver(e)
  \/ Scan \/ Find \/ Claim \/ ClearAbsent \/ Store \/ RetireCanceled
  \/ Pass \/ Backup \/ Restore \/ UNCHANGED topupVars

LEMMA LocalMoves ==
  ASSUME Sound, Local
  PROVE  /\ UNCHANGED <<payments, wire>> /\ events' \subseteq events /\ Moves
         /\ reserved' \in 0..MaxAttempts /\ reserved <= reserved'
         /\ clock' \in 0..MaxNow /\ clock <= clock' /\ (clock' = clock \/ wire = {})
<1>1. reserved \in 0..MaxAttempts /\ clock \in 0..MaxNow
  BY DEF Sound
<1>2. UNCHANGED <<payments, wire>> /\ events' \subseteq events
  BY ZenonT(30) DEF Local, Prepare, Plan, Lookup, Retire, Retrieve, GiveUp, Deliver, Scan, Find, Claim,
         ClearAbsent, Store, RetireCanceled, Pass, Backup, Restore, RowOnly, stripeVars, topupVars
<1>3. CASE \E c \in Callers : Prepare(c)
  <2>1. clock' = clock /\ (reserved' = reserved \/ (reserved < MaxAttempts /\ reserved' = reserved + 1))
    BY <1>3 DEF Prepare, RowOnly
  <2> QED BY <1>1, <1>2, <2>1, TopupAssumption, StripeRests
<1>4. CASE Pass
  <2>1. clock < MaxNow /\ clock' = clock + 1 /\ wire = {} /\ reserved' = reserved
    BY <1>4 DEF Pass
  <2> QED BY <1>1, <1>2, <2>1, TopupAssumption, StripeRests
<1>5. CASE ~Pass /\ ~\E c \in Callers : Prepare(c)
  <2>1. UNCHANGED <<reserved, clock>>
    BY <1>5 DEF Local, Plan, Lookup, Retire, Retrieve, GiveUp, Deliver, Scan, Find, Claim,
           ClearAbsent, Store, RetireCanceled, Backup, Restore, RowOnly, topupVars
  <2> QED BY SMTT(30), <1>1, <1>2, <2>1, TopupAssumption, StripeRests
<1> QED BY <1>3, <1>4, <1>5

LEMMA StepCases ==
  ASSUME [TopupNext]_topupVars
  PROVE  \/ Local
         \/ \E c \in Callers : BindFound(c) \/ Answer(c)
         \/ Read \/ \E p \in DOMAIN payments : Move(p) \/ CancelForgotten(p) \/ Replay(p)
         \/ \E c \in Callers : Dispatch(c)
         \/ \E k \in wire : Process(k)
BY DEF TopupNext, CallerStep, Operate, Local

LEMMA StepGrows ==
  ASSUME Sound, [TopupNext]_topupVars
  PROVE  /\ GrowsTo(payments, payments', clock) /\ PaymentsSound'
         /\ reserved' \in 0..MaxAttempts /\ reserved <= reserved'
         /\ clock' \in 0..MaxNow /\ clock <= clock' /\ (clock' = clock \/ wire = {})
<1>1. /\ reserved \in 0..MaxAttempts /\ reserved <= reserved
      /\ clock \in 0..MaxNow /\ clock <= clock
  BY TopupAssumption DEF Sound
<1>2. CASE Local
  BY <1>2, LocalMoves DEF Moves
<1>3. CASE \E c \in Callers : BindFound(c) \/ Answer(c)
  BY <1>1, <1>3, ReconciledMoves DEF Moves
<1>4. CASE Read \/ \E p \in DOMAIN payments : Move(p) \/ CancelForgotten(p) \/ Replay(p)
  BY <1>1, <1>4, ProviderMoves DEF Moves
<1>5. CASE \E c \in Callers : Dispatch(c)
  <2>1. UNCHANGED <<payments, reserved, clock>>
    BY <1>5 DEF Dispatch
  <2> QED BY <1>1, <2>1 DEF Sound, PaymentsSound, GrowsTo
<1>6. CASE \E k \in wire : Process(k)
  <2>1. PICK k \in wire : Process(k)
    BY <1>6
  <2>2. UNCHANGED <<reserved, clock>>
    BY <2>1 DEF Process
  <2> QED BY <1>1, <2>1, <2>2, Processed
<1> QED BY <1>2, <1>3, <1>4, <1>5, <1>6, StepCases

(* The events and the requests under way.                                  *)
LEMMA MovesKeepWire ==
  ASSUME Sound, Moves, reserved' \in Nat, reserved <= reserved', clock' = clock \/ wire = {}
  PROVE  WireSound' /\ EventsSound'
<1>1. WireSound'
  <2> SUFFICES ASSUME NEW k \in wire
               PROVE  /\ k \in [attempt : 1..reserved', of : {Nobody}]
                      /\ \A p \in DOMAIN payments' :
                           payments'[p].attempt = k.attempt => clock' - payments'[p].born <= SafeRetry
    BY DEF WireSound, Moves
  <2>1. /\ k \in [attempt : 1..reserved, of : {Nobody}]
        /\ \A p \in DOMAIN payments :
             payments[p].attempt = k.attempt => clock - payments[p].born <= SafeRetry
    BY DEF Sound, WireSound
  <2>2. k \in [attempt : 1..reserved', of : {Nobody}]
    BY <2>1, PaymentsTyped
  <2> QED BY <2>1, <2>2 DEF Moves, GrowsTo
<1>2. EventsSound'
  <2> SUFFICES ASSUME NEW e \in events'
               PROVE  /\ e.pi \in DOMAIN payments' /\ e.kind \in {"succeeded", "failed", "canceled"}
                      /\ e.kind # "failed" => payments'[e.pi].status = e.kind
    BY DEF EventsSound
  <2>1. CASE e \in events
    BY <2>1 DEF Sound, EventsSound, Moves, GrowsTo, Final
  <2>2. CASE e \notin events
    BY <2>2 DEF Moves
  <2> QED BY <2>1, <2>2
<1> QED BY <1>1, <1>2

LEMMA WireStep ==
  ASSUME Sound, [TopupNext]_topupVars
  PROVE  WireSound' /\ EventsSound'
<1>1. reserved' \in Nat /\ reserved <= reserved' /\ (clock' = clock \/ wire = {})
  BY StepGrows, TopupAssumption
<1>2. CASE Moves
  BY <1>1, <1>2, MovesKeepWire
<1>3. CASE \E k \in wire : Process(k)
  <2>1. PICK k \in wire : Process(k)
    BY <1>3
  <2>2. /\ wire' = wire \ {k} /\ UNCHANGED <<reserved, clock>>
        /\ EventsSound' /\ GrowsTo(payments, payments', clock)
    BY <2>1, Processed DEF Answered
  <2>3. WireSound'
    BY <2>2, PaymentsTyped, TopupAssumption DEF Sound, WireSound, GrowsTo
  <2> QED BY <2>2, <2>3
<1>4. CASE \E c \in Callers : Dispatch(c)
  <2>1. PICK c \in Callers : Dispatch(c)
    BY <1>4
  <2>2. UNCHANGED <<payments, reserved, events, clock>>
    BY <2>1 DEF Dispatch
  <2>3. EventsSound'
    BY <2>2 DEF Sound, EventsSound
  <2>4. wire' = wire \/ (wire' = wire \cup {KeyOf(c)} /\ Owned(c) /\ ~Expired(pending.at))
    BY <2>1 DEF Dispatch
  <2>5. CASE Owned(c) /\ ~Expired(pending.at)
    <3>1. pending \in RowsSpace /\ pending.id <= reserved /\ (pending.id = 0 => pending.claim = Nobody)
          /\ \A p \in DOMAIN payments : payments[p].attempt = pending.id => pending.at <= payments[p].born
      BY DEF Sound, RowSound
    <3>2. pending.id \in 1..reserved /\ pending.at \in Nat
      BY <2>5, <3>1, PaymentsTyped, TopupAssumption DEF Owned, RowsSpace
    <3>3. KeyOf(c) \in [attempt : 1..reserved, of : {Nobody}] /\ KeyOf(c).attempt = pending.id
      BY <2>5, <3>2 DEF KeyOf, Owned, Mine
    <3>4. \A p \in DOMAIN payments :
            payments[p].attempt = pending.id => clock - payments[p].born <= SafeRetry
      <4>1. clock - pending.at <= SafeRetry
        BY <2>5, <3>2, PaymentsTyped, TopupAssumption DEF Expired
      <4>2. \A p \in DOMAIN payments : payments[p].born \in Nat
        BY PaymentsTyped DEF PaymentSpace
      <4> QED BY <3>1, <3>2, <4>1, <4>2, PaymentsTyped, TopupAssumption
    <3> QED BY <2>2, <2>3, <2>4, <3>3, <3>4 DEF Sound, WireSound
  <2>6. CASE wire' = wire
    BY <2>2, <2>3, <2>6 DEF Sound, WireSound
  <2> QED BY <2>4, <2>5, <2>6
<1> QED BY <1>2, <1>3, <1>4, StepCases, LocalMoves, ReconciledMoves, ProviderMoves

(* What a step may do to the row.                                          *)
Claimed ==
  pending.id # 0 /\ \E c \in Everyone : pending' = [pending EXCEPT !.claim = c]

Reserved ==
  /\ pending.id = 0 /\ ~OverCap /\ reserved' = reserved + 1 /\ reserved' <= MaxAttempts
  /\ \E c \in Callers :
       pending' = [id |-> reserved', claim |-> c, at |-> clock, pi |-> 0, status |-> "none"]

LEMMA DeliveryBinds ==
  ASSUME Sound, NEW e \in events, e.kind # "succeeded", Report(e)
  PROVE  pending' = pending \/ (UNCHANGED payments => Binds)
<1>1. e.pi \in DOMAIN payments /\ payments[e.pi].attempt # 0
      /\ (e.kind = "canceled" => payments[e.pi].status = "canceled")
      /\ e.kind \in {"succeeded", "failed", "canceled"}
  BY PaymentsTyped DEF Sound, EventsSound
<1> DEFINE s == IF e.kind = "failed" THEN "open" ELSE "canceled"
<1>2. CASE payments[e.pi].attempt = pending.id
  <2>1. s \in Statuses /\ (s = "canceled" => payments[e.pi].status = "canceled")
    BY <1>1 DEF Statuses, Persistable
  <2>2. pending' = Bound(e.pi, s)
    BY <1>2 DEF Report
  <2> QED BY <1>1, <1>2, <2>1, <2>2 DEF Binds
<1>3. CASE payments[e.pi].attempt # pending.id
  BY <1>3 DEF Report
<1> QED BY <1>2, <1>3

LEMMA RowEffects ==
  ASSUME Sound, [TopupNext]_topupVars
  PROVE  \/ pending' = pending \/ pending' = NoAttempt \/ pending' = copy.pending
         \/ Binds \/ Claimed \/ Reserved
<1>1. CASE \E c \in Callers : Prepare(c) \/ Plan(c)
  <2>1. PICK c \in Callers : Prepare(c) \/ Plan(c)
    BY <1>1
  <2>2. CASE Prepare(c)
    <3>1. \/ pending' = pending
          \/ /\ pending.id = 0 /\ ~OverCap /\ reserved < MaxAttempts /\ reserved' = reserved + 1
             /\ pending' = [id |-> reserved', claim |-> c, at |-> clock, pi |-> 0, status |-> "none"]
      BY <2>2 DEF Prepare
    <3>2. reserved < MaxAttempts => reserved + 1 <= MaxAttempts
      BY PaymentsTyped, TopupAssumption
    <3> QED BY <3>1, <3>2 DEF Reserved
  <2>3. CASE Plan(c)
    <3>1. pending' \in {pending, NoAttempt} \/ (Mine(c) /\ pending' = [pending EXCEPT !.claim = c])
      BY <2>3 DEF Plan
    <3>2. caller[c].id # 0
      BY <2>3, Informed DEF Plan, AtStep, Everyone
    <3> QED BY <3>1, <3>2 DEF Claimed, Mine, Everyone
  <2> QED BY <2>1, <2>2, <2>3
<1>2. CASE \E e \in events : Deliver(e)
  <2>1. PICK e \in events : Deliver(e)
    BY <1>2
  <2>2. CASE e.kind = "succeeded"
    BY <2>1, <2>2 DEF Deliver, Settle
  <2>3. CASE e.kind # "succeeded"
    <3>1. UNCHANGED payments /\ Report(e)
      BY <2>1, <2>3 DEF Deliver
    <3> QED BY <2>3, <3>1, DeliveryBinds
  <2> QED BY <2>2, <2>3
<1>3. CASE Claim
  <2>1. pending' = pending \/ (Mine(Operator) /\ pending' = [pending EXCEPT !.claim = Operator])
    BY <1>3 DEF Claim
  <2>2. caller[Operator].id # 0
    BY <1>3, Informed DEF Claim, AtStep, Everyone
  <2> QED BY <2>1, <2>2 DEF Claimed, Mine, Everyone
<1>4. CASE Store
  <2> DEFINE k == caller[Operator]
  <2>1. pending' = pending \/ (Mine(Operator) /\ pending' = Bound(k.pi, k.status))
    BY <1>4 DEF Store
  <2>2. /\ k.pi \in DOMAIN payments /\ payments[k.pi].attempt = k.id /\ k.id # 0
        /\ k.status \in Statuses
        /\ k.status = "canceled" => payments[k.pi].status = "canceled"
    BY <1>4, Informed DEF Store, AtStep, Everyone
  <2>3. payments' = payments
    BY <1>4 DEF Store, RowOnly, stripeVars
  <2> QED BY <2>1, <2>2, <2>3 DEF Binds, Mine
<1>5. CASE \E c \in Callers : Dispatch(c)
  BY <1>5 DEF Dispatch
<1>6. CASE \E k \in wire : Process(k)
  BY SMTT(30), <1>6 DEF Process, rowVars
<1>7. CASE \/ \E c \in Callers : Lookup(c) \/ Retire(c) \/ Retrieve(c) \/ GiveUp(c)
           \/ Scan \/ Find \/ ClearAbsent \/ RetireCanceled \/ Pass \/ Backup \/ Restore
           \/ UNCHANGED topupVars
  BY <1>7 DEF Lookup, Retire, Retrieve, GiveUp, Scan, Find, ClearAbsent, RetireCanceled, Pass,
              Backup, Restore, RowOnly, rowVars, topupVars
<1> QED BY <1>1, <1>2, <1>3, <1>4, <1>5, <1>6, <1>7, StepCases, ReconciledMoves, ProviderMoves
        DEF Local

(* The row stays true.                                                     *)
LEMMA RowStep ==
  ASSUME Sound, [TopupNext]_topupVars
  PROVE  /\ RowSound(pending', payments', reserved', clock')
         /\ RowSound(copy'.pending, payments', reserved', clock')
<1>1. /\ GrowsTo(payments, payments', clock) /\ PaymentsSound'
      /\ reserved \in Nat /\ reserved' \in 0..MaxAttempts /\ reserved <= reserved'
      /\ clock \in 0..MaxNow /\ clock' \in 0..MaxNow /\ clock <= clock'
  BY StepGrows, PaymentsTyped DEF Sound
<1>2. RowSound(pending, payments', reserved', clock')
  BY <1>1, RowStays, TopupAssumption DEF Sound
<1>3. RowSound(copy.pending, payments', reserved', clock')
  BY <1>1, RowStays, TopupAssumption DEF Sound
<1>4. RowSound(NoAttempt, payments', reserved', clock')
  <2>1. NoAttempt \in RowsSpace
    BY TopupAssumption DEF NoAttempt, RowsSpace, Everyone
  <2>2. \A p \in DOMAIN payments' : payments'[p].attempt # 0
    <3>1. \A p \in DOMAIN payments' : payments'[p].attempt \in 1..reserved'
      BY <1>1 DEF PaymentsSound
    <3> QED BY <3>1
  <2>3. NoAttempt.id = 0 /\ NoAttempt.at = 0 /\ NoAttempt.claim = Nobody /\ NoAttempt.pi = 0
    BY DEF NoAttempt
  <2> QED BY <1>1, <2>1, <2>2, <2>3, TopupAssumption DEF RowSound
<1>5. ASSUME Binds
      PROVE  RowSound(pending', payments', reserved', clock')
  <2>1. PICK p \in DOMAIN payments, s \in Statuses :
          payments[p].attempt = pending.id /\ pending.id # 0 /\ pending' = Bound(p, s)
    BY <1>5 DEF Binds
  <2>2. CASE s = "canceled"
    BY <1>4, <2>1, <2>2 DEF Bound
  <2>3. CASE s # "canceled"
    <3>1. pending' = [pending EXCEPT !.pi = p, !.status = s] /\ s \in Persistable
      BY <2>1, <2>3 DEF Bound, Statuses
    <3>2. p \in 0..MaxPayments /\ p \in DOMAIN payments' /\ payments'[p].attempt = pending.id
      BY <1>1, <2>1, PaymentsTyped, TopupAssumption DEF GrowsTo
    <3>3. pending \in RowsSpace
      BY DEF Sound, RowSound
    <3>4. /\ pending' \in RowsSpace /\ pending'.id = pending.id /\ pending'.at = pending.at
          /\ pending'.claim = pending.claim /\ pending'.pi = p
      BY <3>1, <3>2, <3>3 DEF RowsSpace
    <3> QED BY <1>2, <3>2, <3>4 DEF RowSound
  <2> QED BY <2>2, <2>3
<1>6. ASSUME Claimed
      PROVE  RowSound(pending', payments', reserved', clock')
  <2>1. PICK c \in Everyone : pending' = [pending EXCEPT !.claim = c] /\ pending.id # 0
    BY <1>6 DEF Claimed
  <2>2. pending \in RowsSpace
    BY DEF Sound, RowSound
  <2>3. /\ pending' \in RowsSpace /\ pending'.id = pending.id /\ pending'.at = pending.at
        /\ pending'.pi = pending.pi
    BY <2>1, <2>2 DEF RowsSpace
  <2> QED BY <1>2, <2>1, <2>3 DEF RowSound
<1>7. ASSUME Reserved
      PROVE  RowSound(pending', payments', reserved', clock')
  <2>1. PICK c \in Callers :
          pending' = [id |-> reserved', claim |-> c, at |-> clock, pi |-> 0, status |-> "none"]
    BY <1>7 DEF Reserved
  <2>2. reserved' = reserved + 1 /\ reserved' # 0
    BY <1>1, <1>7 DEF Reserved
  <2>3. \A p \in DOMAIN payments' : payments'[p].attempt = reserved' => clock <= payments'[p].born
    BY <1>1, <2>2, PaymentsTyped DEF GrowsTo
  <2>4. pending' \in RowsSpace
    BY <1>1, <2>1, TopupAssumption DEF RowsSpace, Everyone
  <2> QED BY <1>1, <2>1, <2>2, <2>3, <2>4 DEF RowSound
<1>8. RowSound(pending', payments', reserved', clock')
  BY <1>2, <1>3, <1>4, <1>5, <1>6, <1>7, RowEffects
<1>9. copy'.pending = copy.pending \/ copy'.pending = pending
  <2>1. CASE Backup
    BY <2>1 DEF Backup
  <2>2. CASE ~Backup
    <3>1. copy' = copy
      BY <2>2 DEF TopupNext, CallerStep, Operate, Prepare, Plan, Lookup, Retire, Retrieve,
           BindFound, Dispatch, Answer, GiveUp, Process, Move, Deliver, Scan, Find, Claim,
           ClearAbsent, Store, Read, RetireCanceled, CancelForgotten, Replay, Pass, Restore,
           RowOnly, topupVars
    <3> QED BY SMTT(30), <3>1
  <2> QED BY <2>1, <2>2
<1> QED BY <1>2, <1>3, <1>8, <1>9

(* What a process learns in a step is true.                                *)
Learns(c) ==
  \E k : /\ KnowledgeSound(k, payments', reserved')
         /\ caller' = [caller EXCEPT ![c] = k]

LEMMA StillKnown ==
  ASSUME Sound, [TopupNext]_topupVars, NEW c \in Everyone
  PROVE  /\ KnowledgeSound(caller[c], payments', reserved')
         /\ caller[c].id \in 0..MaxAttempts /\ reserved' \in Nat /\ caller[c] \in KnowledgeSpace
<1>1. /\ GrowsTo(payments, payments', clock) /\ reserved \in Nat /\ reserved' \in Nat
      /\ reserved <= reserved'
  BY StepGrows, PaymentsTyped, TopupAssumption
<1>2. KnowledgeSound(caller[c], payments, reserved)
  BY DEF Sound
<1> QED BY <1>1, <1>2, KnowledgeStays DEF KnowledgeSound, KnowledgeSpace

LEMMA IdleTyped ==
  /\ Idle \in KnowledgeSpace
  /\ Idle.id = 0 /\ Idle.pi = 0 /\ Idle.pc = "idle" /\ Idle.status = "none"
BY TopupAssumption DEF Idle, KnowledgeSpace, Steps

LEMMA IdleIsSound ==
  ASSUME Sound, [TopupNext]_topupVars
  PROVE  KnowledgeSound(Idle, payments', reserved')
<1>1. reserved' \in Nat
  BY StepGrows, TopupAssumption
<1> QED BY <1>1, IdleTyped DEF KnowledgeSound

(* A process that goes on with what it knows knows it still.               *)
LEMMA ProceedsSound ==
  ASSUME Sound, [TopupNext]_topupVars, NEW c \in Everyone, NEW step \in Steps,
         caller[c].pc # "idle", Proceed(c, step),
         step \notin {"plan", "retrieve", "recover", "bind", "answered", "store"},
         step = "read" => caller[c].pi # 0
  PROVE  Learns(c)
<1> DEFINE k == [caller[c] EXCEPT !.pc = step]
<1>1. KnowledgeSound(caller[c], payments', reserved') /\ caller[c] \in KnowledgeSpace
  BY StillKnown
<1>2. /\ k \in KnowledgeSpace /\ k.pc = step /\ k.id = caller[c].id /\ k.pi = caller[c].pi
      /\ k.status = caller[c].status
  BY <1>1 DEF KnowledgeSpace
<1>3. KnowledgeSound(k, payments', reserved')
  BY <1>1, <1>2 DEF KnowledgeSound
<1> QED BY <1>3 DEF Proceed, Know, Learns

(* A process that is shown a payment of its attempt knows it.              *)
LEMMA ShownSound ==
  ASSUME Sound, [TopupNext]_topupVars, NEW c \in Everyone, caller[c].pc # "idle",
         NEW k \in KnowledgeSpace, k.id = caller[c].id, k.pc # "plan",
         k.pi \in DOMAIN payments', payments'[k.pi].attempt = caller[c].id,
         k.pc \in {"recover", "bind", "answered", "store"} => k.status # "none",
         k.status = "canceled" => payments'[k.pi].status = "canceled"
  PROVE  KnowledgeSound(k, payments', reserved')
<1>1. KnowledgeSound(caller[c], payments', reserved') /\ caller[c] \in KnowledgeSpace
  BY StillKnown
<1>2. k.pi # 0
  <2>1. payments' \in Seq(PaymentSpace)
    BY StepGrows DEF PaymentsSound
  <2>2. Len(payments') \in Nat /\ DOMAIN payments' = 1..Len(payments')
    BY <2>1, LenProperties
  <2> QED BY <2>2
<1> QED BY <1>1, <1>2 DEF KnowledgeSound

LEMMA FinishSound ==
  ASSUME Sound, [TopupNext]_topupVars, NEW c \in Everyone, Finish(c)
  PROVE  Learns(c)
BY IdleIsSound DEF Finish, Know, Learns

LEMMA CallerLearns ==
  ASSUME Sound, [TopupNext]_topupVars, NEW c \in Callers, CallerStep(c)
  PROVE  Learns(c)
<1>1. c \in Everyone /\ (Finish(c) => Learns(c))
  BY FinishSound DEF Everyone
<1>2. CASE Prepare(c)
  <2>1. /\ reserved' \in 0..MaxAttempts /\ reserved <= reserved' /\ reserved \in Nat
        /\ pending \in RowsSpace /\ pending.id <= reserved
    BY StepGrows, PaymentsTyped DEF Sound, RowSound
  <2>2. ASSUME NEW id \in 1..reserved', NEW k \in KnowledgeSpace, k.id = id, k.pc = "plan",
               k.pi = 0, k.status = "none", Know(c, k)
        PROVE  Learns(c)
    <3>1. KnowledgeSound(k, payments', reserved')
      BY <2>1, <2>2 DEF KnowledgeSound
    <3> QED BY <2>2, <3>1 DEF Know, Learns
  <2>3. CASE Know(c, [Idle EXCEPT !.pc = "plan", !.id = pending.id]) /\ pending.id # 0
    <3> DEFINE k == [Idle EXCEPT !.pc = "plan", !.id = pending.id]
    <3>1. pending.id \in 1..reserved' /\ pending.id \in 0..MaxAttempts
      BY <2>1, <2>3, TopupAssumption DEF RowsSpace
    <3>2. k \in KnowledgeSpace /\ k.id = pending.id /\ k.pc = "plan" /\ k.pi = 0 /\ k.status = "none"
      BY <3>1, IdleTyped DEF KnowledgeSpace, Steps
    <3> HIDE DEF k
    <3> QED BY <2>2, <2>3, <3>1, <3>2 DEF k
  <2>4. CASE /\ reserved' = reserved + 1
             /\ Know(c, [Idle EXCEPT !.pc = "plan", !.id = reserved', !.fresh = TRUE])
    <3> DEFINE k == [Idle EXCEPT !.pc = "plan", !.id = reserved', !.fresh = TRUE]
    <3>1. reserved' \in 1..reserved' /\ reserved' \in 0..MaxAttempts
      BY <2>1, <2>4
    <3>2. k \in KnowledgeSpace /\ k.id = reserved' /\ k.pc = "plan" /\ k.pi = 0 /\ k.status = "none"
      BY <3>1, IdleTyped DEF KnowledgeSpace, Steps
    <3> HIDE DEF k
    <3> QED BY <2>2, <2>4, <3>1, <3>2 DEF k
  <2> QED BY <1>2, <2>3, <2>4 DEF Prepare
<1>3. CASE Plan(c)
  <2>1. caller[c].pc # "idle"
    BY <1>3 DEF Plan, AtStep
  <2>2. CASE Proceed(c, "dispatch")
    BY <1>1, <2>1, <2>2, ProceedsSound DEF Steps
  <2>3. CASE Know(c, [caller[c] EXCEPT !.pc = "lookup", !.at = pending.at])
    <3> DEFINE k == [caller[c] EXCEPT !.pc = "lookup", !.at = pending.at]
    <3>1. KnowledgeSound(caller[c], payments', reserved') /\ caller[c] \in KnowledgeSpace
          /\ pending.at \in 0..MaxNow
      BY <1>1, StillKnown DEF Sound, RowSound, RowsSpace
    <3>2. /\ k \in KnowledgeSpace /\ k.pc = "lookup" /\ k.id = caller[c].id
          /\ k.pi = caller[c].pi /\ k.status = caller[c].status
      BY <3>1 DEF KnowledgeSpace, Steps
    <3>3. KnowledgeSound(k, payments', reserved')
      BY <2>1, <3>1, <3>2 DEF KnowledgeSound
    <3> QED BY <2>3, <3>3 DEF Know, Learns
  <2>4. CASE Mine(c) /\ pending.pi # 0 /\ Know(c, [caller[c] EXCEPT !.pc = "retrieve", !.pi = pending.pi])
    <3> DEFINE k == [caller[c] EXCEPT !.pc = "retrieve", !.pi = pending.pi]
    <3>1. /\ KnowledgeSound(caller[c], payments', reserved') /\ caller[c] \in KnowledgeSpace
          /\ pending.pi \in 0..MaxPayments
          /\ pending.pi \in DOMAIN payments /\ payments[pending.pi].attempt = caller[c].id
      BY <1>1, <2>4, StillKnown DEF Sound, RowSound, RowsSpace, Mine
    <3>2. payments' = payments
      BY <1>3 DEF Plan, RowOnly, stripeVars
    <3>3. /\ k \in KnowledgeSpace /\ k.pc = "retrieve" /\ k.id = caller[c].id
          /\ k.pi = pending.pi /\ k.status = caller[c].status
      BY <3>1 DEF KnowledgeSpace, Steps
    <3>4. k.status = "none"
      BY <1>3, <3>1, <3>3 DEF Plan, AtStep, KnowledgeSound
    <3>5. KnowledgeSound(k, payments', reserved')
      BY <1>1, <2>1, <3>1, <3>2, <3>3, <3>4, ShownSound
    <3> QED BY <2>4, <3>5 DEF Know, Learns
  <2> QED BY <1>1, <1>3, <2>2, <2>3, <2>4 DEF Plan
<1>4. CASE Lookup(c)
  <2>1. caller[c].pc # "idle" /\ payments' = payments
    BY <1>4 DEF Lookup, AtStep, RowOnly, stripeVars
  <2>2. CASE \E step \in {"retire", "dispatch"} : Proceed(c, step)
    BY <1>1, <2>1, <2>2, ProceedsSound DEF Steps
  <2>3. CASE \E p \in PaymentsOf(caller[c].id) :
               Know(c, [caller[c] EXCEPT !.pc = "bind", !.pi = p, !.status = payments[p].status])
    <3>1. PICK p \in PaymentsOf(caller[c].id) :
            Know(c, [caller[c] EXCEPT !.pc = "bind", !.pi = p, !.status = payments[p].status])
      BY <2>3
    <3>2. p \in DOMAIN payments /\ payments[p].attempt = caller[c].id
      BY DEF PaymentsOf
    <3>3. payments[p].status \in Statuses /\ payments[p].status # "none"
      BY <3>2, PaymentsTyped DEF PaymentSpace, Statuses, Persistable
    <3> DEFINE k == [caller[c] EXCEPT !.pc = "bind", !.pi = p, !.status = payments[p].status]
    <3>4. caller[c] \in KnowledgeSpace /\ p \in 0..MaxPayments
      BY <1>1, <3>2, Informed, PaymentsTyped, TopupAssumption
    <3>5. /\ k \in KnowledgeSpace /\ k.pc = "bind" /\ k.id = caller[c].id
          /\ k.pi = p /\ k.status = payments[p].status
      BY <3>3, <3>4 DEF KnowledgeSpace, Steps
    <3> HIDE DEF k
    <3>6. KnowledgeSound(k, payments', reserved')
      BY <1>1, <2>1, <3>2, <3>3, <3>5, ShownSound
    <3> QED BY <3>1, <3>6 DEF Know, Learns, k
  <2> QED BY <1>1, <1>4, <2>2, <2>3 DEF Lookup
<1>5. CASE Retrieve(c)
  <2> DEFINE p == caller[c].pi
  <2>1. caller[c].pc = "retrieve" /\ payments' = payments
        /\ Know(c, [caller[c] EXCEPT !.pc = "recover", !.status = payments[p].status])
    BY <1>5 DEF Retrieve, AtStep, RowOnly, stripeVars
  <2>2. p \in DOMAIN payments /\ payments[p].attempt = caller[c].id /\ caller[c] \in KnowledgeSpace
    BY <1>1, <2>1, Informed
  <2>3. payments[p].status \in Statuses /\ payments[p].status # "none"
    BY <2>2, PaymentsTyped DEF PaymentSpace, Statuses, Persistable
  <2> DEFINE k == [caller[c] EXCEPT !.pc = "recover", !.status = payments[p].status]
  <2>4. /\ k \in KnowledgeSpace /\ k.pc = "recover" /\ k.id = caller[c].id
        /\ k.pi = p /\ k.status = payments[p].status
    BY <2>2, <2>3 DEF KnowledgeSpace, Steps
  <2> HIDE DEF k
  <2>5. KnowledgeSound(k, payments', reserved')
    BY <1>1, <2>1, <2>2, <2>3, <2>4, ShownSound
  <2> QED BY <2>1, <2>5 DEF Know, Learns, k
<1>6. CASE Dispatch(c)
  <2>1. Finish(c) \/ (Proceed(c, "calling") /\ caller[c].pc # "idle")
    BY <1>6 DEF Dispatch, AtStep
  <2> QED BY <1>1, <2>1, ProceedsSound DEF Steps
<1>7. CASE Retire(c) \/ BindFound(c) \/ Answer(c) \/ GiveUp(c)
  BY <1>1, <1>7 DEF Retire, BindFound, Answer, GiveUp
<1> QED BY <1>2, <1>3, <1>4, <1>5, <1>6, <1>7 DEF CallerStep

OperatorKnows == Scan \/ Find \/ Claim \/ ClearAbsent \/ Store \/ Read \/ RetireCanceled

LEMMA OperatorLearns ==
  ASSUME Sound, [TopupNext]_topupVars, OperatorKnows
  PROVE  Learns(Operator) /\ (AtStep(Operator, "retire")' => caller'[Operator].status = "canceled")
<1> DEFINE o == caller[Operator]
<1>1. /\ Operator \in Everyone /\ (Finish(Operator) => Learns(Operator))
      /\ o \in KnowledgeSpace /\ caller \in [Everyone -> KnowledgeSpace]
  BY FinishSound, StillKnown DEF Everyone, Sound
<1>2. ASSUME NEW k, Know(Operator, k), k.pc # "retire" \/ k.status = "canceled"
      PROVE  AtStep(Operator, "retire")' => caller'[Operator].status = "canceled"
  BY <1>1, <1>2 DEF Know, AtStep
<1>3. CASE Finish(Operator)
  BY <1>1, <1>2, <1>3, IdleTyped DEF Finish
<1>4. ASSUME NEW step \in {"claim", "clear", "refind"}, Proceed(Operator, step), o.pc # "idle"
      PROVE  Learns(Operator) /\ (AtStep(Operator, "retire")' => caller'[Operator].status = "canceled")
  <2>1. Learns(Operator)
    BY <1>1, <1>4, ProceedsSound DEF Steps
  <2>2. [o EXCEPT !.pc = step].pc # "retire"
    BY <1>1, <1>4 DEF KnowledgeSpace
  <2> QED BY <1>2, <1>4, <2>1, <2>2 DEF Proceed
<1>5. CASE Scan
  <2> DEFINE k == [Idle EXCEPT !.id = pending.id, !.claim = pending.claim, !.pi = pending.pi,
                               !.pc = IF pending.pi = 0 THEN "find" ELSE "read"]
  <2>1. pending \in RowsSpace /\ pending.id # 0 /\ payments' = payments /\ reserved' = reserved
        /\ Know(Operator, k)
    BY <1>5 DEF Scan, RowOnly, stripeVars, Sound, RowSound
  <2>2. /\ k \in KnowledgeSpace /\ k.pc = (IF pending.pi = 0 THEN "find" ELSE "read")
        /\ k.id = pending.id /\ k.pi = pending.pi /\ k.status = "none"
    BY <2>1, IdleTyped DEF KnowledgeSpace, RowsSpace, Steps
  <2> HIDE DEF k
  <2>3. KnowledgeSound(k, payments', reserved')
    BY <2>1, <2>2 DEF Sound, RowSound, KnowledgeSound
  <2> QED BY <1>2, <2>1, <2>2, <2>3 DEF Know, Learns
<1>6. CASE Find
  <2>1. o.pc # "idle" /\ payments' = payments
    BY <1>6 DEF Find, RowOnly, stripeVars
  <2>2. CASE \E p \in PaymentsOf(o.id) :
               Know(Operator, [o EXCEPT !.pc = "store", !.pi = p, !.status = payments[p].status])
    <3>1. PICK p \in PaymentsOf(o.id) :
            Know(Operator, [o EXCEPT !.pc = "store", !.pi = p, !.status = payments[p].status])
      BY <2>2
    <3>2. p \in DOMAIN payments /\ payments[p].attempt = o.id
      BY DEF PaymentsOf
    <3>3. payments[p].status \in Statuses /\ payments[p].status # "none" /\ p \in 0..MaxPayments
      BY <3>2, PaymentsTyped, TopupAssumption DEF PaymentSpace, Statuses, Persistable
    <3> DEFINE k == [o EXCEPT !.pc = "store", !.pi = p, !.status = payments[p].status]
    <3>4. /\ k \in KnowledgeSpace /\ k.pc = "store" /\ k.id = o.id
          /\ k.pi = p /\ k.status = payments[p].status
      BY <1>1, <3>3 DEF KnowledgeSpace, Steps
    <3> HIDE DEF k
    <3>5. KnowledgeSound(k, payments', reserved')
      BY <1>1, <2>1, <3>2, <3>3, <3>4, ShownSound
    <3>6. Know(Operator, k)
      BY <3>1 DEF k
    <3> QED BY <1>2, <3>4, <3>5, <3>6 DEF Know, Learns
  <2>3. CASE \E step \in {"claim", "clear"} : Proceed(Operator, step)
    BY <1>4, <2>1, <2>3
  <2> QED BY <1>3, <1>6, <2>2, <2>3 DEF Find
<1>7. CASE Claim
  <2>1. Finish(Operator) \/ (Proceed(Operator, "refind") /\ o.pc # "idle")
    BY <1>7 DEF Claim, AtStep
  <2> QED BY <1>3, <1>4, <2>1
<1>8. CASE Store
  <2>1. Finish(Operator) \/ (Proceed(Operator, "read") /\ o.pc = "store")
    BY <1>8 DEF Store, AtStep
  <2>2. CASE Proceed(Operator, "read") /\ o.pc = "store"
    <3>1. o.pi # 0
      BY <1>1, <2>2 DEF Sound, KnowledgeSound
    <3>2. Learns(Operator)
      BY <1>1, <2>2, <3>1, ProceedsSound DEF Steps
    <3>3. [o EXCEPT !.pc = "read"].pc # "retire"
      BY <1>1 DEF KnowledgeSpace
    <3> QED BY <1>2, <2>2, <3>2, <3>3 DEF Proceed
  <2> QED BY <1>3, <2>1, <2>2
<1>9. CASE Read
  <2>1. PICK shown \in Statuses :
          /\ Cancel(o.pi, shown)
          /\ IF shown = "canceled"
             THEN Know(Operator, [o EXCEPT !.pc = "retire", !.status = "canceled"])
             ELSE Finish(Operator)
    BY <1>9 DEF Read
  <2>2. CASE shown = "canceled" /\ Know(Operator, [o EXCEPT !.pc = "retire", !.status = "canceled"])
    <3>1. o.pi \in DOMAIN payments /\ payments[o.pi].attempt = o.id /\ o.pc # "idle"
      BY <1>1, <1>9, Informed DEF Read, AtStep
    <3>2. Moves /\ payments'[o.pi].status = "canceled"
      BY <1>9, <2>1, <2>2, <3>1, CancelMoves DEF Read
    <3> DEFINE k == [o EXCEPT !.pc = "retire", !.status = "canceled"]
    <3>3. /\ k \in KnowledgeSpace /\ k.pc = "retire" /\ k.id = o.id
          /\ k.pi = o.pi /\ k.status = "canceled"
      BY <1>1 DEF KnowledgeSpace, Steps, Statuses
    <3> HIDE DEF k
    <3>4. o.pi \in DOMAIN payments' /\ payments'[o.pi].attempt = o.id
      BY <3>1, <3>2 DEF Moves, GrowsTo
    <3>5. KnowledgeSound(k, payments', reserved')
      BY <1>1, <3>1, <3>2, <3>3, <3>4, ShownSound
    <3>6. Know(Operator, k)
      BY <2>2 DEF k
    <3> QED BY <1>2, <3>3, <3>5, <3>6 DEF Know, Learns
  <2> QED BY <1>3, <2>1, <2>2
<1>10. CASE ClearAbsent \/ RetireCanceled
  BY <1>3, <1>10 DEF ClearAbsent, RetireCanceled
<1> QED BY <1>5, <1>6, <1>7, <1>8, <1>9, <1>10 DEF OperatorKnows

LEMMA KnowledgeStep ==
  ASSUME Sound, [TopupNext]_topupVars
  PROVE  /\ caller' \in [Everyone -> KnowledgeSpace]
         /\ \A c \in Everyone : KnowledgeSound(caller'[c], payments', reserved')
         /\ AtStep(Operator, "retire")' => caller'[Operator].status = "canceled"
<1>1. /\ caller \in [Everyone -> KnowledgeSpace]
      /\ \A c \in Everyone : KnowledgeSound(caller[c], payments', reserved')
      /\ AtStep(Operator, "retire") => caller[Operator].status = "canceled"
      /\ Operator \in Everyone /\ Callers \subseteq Everyone /\ Operator \notin Callers
  BY StillKnown, TopupAssumption DEF Sound, Everyone
<1>2. ASSUME NEW c \in Everyone, Learns(c)
      PROVE  /\ caller' \in [Everyone -> KnowledgeSpace]
             /\ \A d \in Everyone : KnowledgeSound(caller'[d], payments', reserved')
             /\ c # Operator => caller'[Operator] = caller[Operator]
  <2>1. PICK k : KnowledgeSound(k, payments', reserved') /\ caller' = [caller EXCEPT ![c] = k]
    BY <1>2 DEF Learns
  <2>2. k \in KnowledgeSpace
    BY <2>1 DEF KnowledgeSound
  <2> QED BY <1>1, <2>1, <2>2
<1>3. CASE \E c \in Callers : CallerStep(c)
  BY <1>1, <1>2, <1>3, CallerLearns DEF AtStep
<1>4. CASE OperatorKnows
  BY <1>1, <1>2, <1>4, OperatorLearns
<1>5. CASE UNCHANGED caller
  BY <1>1, <1>5 DEF AtStep
<1>6. CASE caller' = [c \in Callers \cup {Operator} |-> Idle]
  BY <1>1, <1>6, IdleIsSound, IdleTyped DEF AtStep, Everyone
<1>7. CASE \E k \in wire : Process(k)
  <2>1. PICK k \in wire : Process(k)
    BY <1>7
  <2>2. PICK p \in DOMAIN payments', s \in Persistable :
          payments'[p].attempt = k.attempt /\ Show(k, p, s)
    BY <2>1, Processed DEF Answered
  <2>3. \A c \in Everyone :
          caller'[c] = IF c \in Waiting(k)
                       THEN [caller[c] EXCEPT !.pc = "answered", !.pi = p, !.status = s]
                       ELSE caller[c]
    BY <2>2 DEF Show, Everyone
  <2>4. p \in 0..MaxPayments
    <3>1. payments' \in Seq(PaymentSpace) /\ Len(payments') <= MaxPayments
      BY StepGrows DEF PaymentsSound
    <3>2. Len(payments') \in Nat /\ DOMAIN payments' = 1..Len(payments')
      BY <3>1, LenProperties
    <3> QED BY <3>1, <3>2, TopupAssumption
  <2>5. ASSUME NEW c \in Waiting(k)
        PROVE  /\ c \in Callers
               /\ KnowledgeSound([caller[c] EXCEPT !.pc = "answered", !.pi = p, !.status = s],
                                 payments', reserved')
    <3>1. c \in Callers /\ c \in Everyone /\ caller[c].pc = "calling" /\ k.attempt = caller[c].id
      BY <1>1 DEF Waiting, AtStep, KeyOf
    <3>2. caller[c] \in KnowledgeSpace
      BY <1>1, <3>1
    <3> DEFINE m == [caller[c] EXCEPT !.pc = "answered", !.pi = p, !.status = s]
    <3>3. m \in KnowledgeSpace /\ m.pc = "answered" /\ m.id = caller[c].id /\ m.pi = p /\ m.status = s
      BY <2>4, <3>2 DEF KnowledgeSpace, Steps, Statuses
    <3>4. s # "canceled" /\ s # "none"
      BY DEF Persistable
    <3> HIDE DEF m
    <3>5. KnowledgeSound(m, payments', reserved')
      BY <2>2, <3>1, <3>3, <3>4, ShownSound
    <3> QED BY <3>1, <3>5 DEF m
  <2>6. \A c \in Everyone : KnowledgeSound(caller'[c], payments', reserved')
    BY <1>1, <2>3, <2>5
  <2>7. caller'[Operator] = caller[Operator]
    BY <1>1, <2>3, <2>5
  <2>8. caller' \in [Everyone -> KnowledgeSpace]
    <3>1. \A c \in Everyone : caller'[c] \in KnowledgeSpace
      BY <2>6 DEF KnowledgeSound
    <3>2. caller' = [c \in Everyone |-> caller'[c]]
      BY <2>2 DEF Show, Everyone
    <3> QED BY <3>1, <3>2
  <2> QED BY <1>1, <2>6, <2>7, <2>8 DEF AtStep
<1>8. \/ \E c \in Callers : CallerStep(c)
      \/ OperatorKnows \/ UNCHANGED caller \/ caller' = [c \in Callers \cup {Operator} |-> Idle]
      \/ \E k \in wire : Process(k)
  BY DEF TopupNext, Operate, OperatorKnows, Move, Deliver, CancelForgotten, Replay, Pass, Backup,
         Restore, topupVars
<1> QED BY <1>3, <1>4, <1>5, <1>6, <1>7, <1>8

LEMMA RestStep ==
  ASSUME Sound, [TopupNext]_topupVars
  PROVE  /\ topup' \in Callers \cup {Nobody} /\ restored' \in BOOLEAN
         /\ adrift' \subseteq 1..MaxAttempts /\ adrift \subseteq adrift'
         /\ minted' \subseteq DOMAIN payments' /\ copy'.minted \subseteq DOMAIN payments'
<1>1. /\ topup \in Callers \cup {Nobody} /\ restored \in BOOLEAN
      /\ adrift \subseteq 1..MaxAttempts /\ minted \subseteq DOMAIN payments'
      /\ copy.minted \subseteq DOMAIN payments'
  BY StepGrows DEF Sound, GrowsTo
<1>2. topup' = topup \/ topup' = Nobody \/ topup' \in Callers
  BY ZenonT(30) DEF TopupNext, CallerStep, Operate, Prepare, Plan, Lookup, Retire, Retrieve, BindFound,
         Dispatch, Answer, GiveUp, Process, Move, Deliver, Scan, Find, Claim, ClearAbsent, Store,
         Read, RetireCanceled, CancelForgotten, Replay, Pass, Backup, Restore, RowOnly, topupVars
<1>3. restored' = restored \/ restored' = TRUE
  BY ZenonT(30) DEF TopupNext, CallerStep, Operate, Prepare, Plan, Lookup, Retire, Retrieve, BindFound,
         Dispatch, Answer, GiveUp, Process, Move, Deliver, Scan, Find, Claim, ClearAbsent, Store,
         Read, RetireCanceled, CancelForgotten, Replay, Pass, Backup, Restore, RowOnly, topupVars
<1>4. adrift' \subseteq 1..MaxAttempts /\ adrift \subseteq adrift'
  <2>1. CASE \E c \in Callers : GiveUp(c)
    <3>1. PICK c \in Callers :
            adrift' = adrift \/ (adrift' = adrift \cup {caller[c].id} /\ KeyOf(c) \in wire)
      BY <2>1 DEF GiveUp
    <3>2. KeyOf(c) \in wire => caller[c].id \in 1..reserved
      BY DEF Sound, WireSound, KeyOf
    <3>3. reserved \in 0..MaxAttempts
      BY DEF Sound
    <3>4. \A a \in 1..reserved : a \in 1..MaxAttempts
      BY <3>3, TopupAssumption
    <3> QED BY <1>1, <3>1, <3>2, <3>4
  <2>2. CASE ~\E c \in Callers : GiveUp(c)
    <3>1. adrift' = adrift
      BY ZenonT(30), <2>2 DEF TopupNext, CallerStep, Operate, Prepare, Plan, Lookup, Retire, Retrieve,
           BindFound, Dispatch, Answer, Process, Move, Deliver, Scan, Find, Claim, ClearAbsent,
           Store, Read, RetireCanceled, CancelForgotten, Replay, Pass, Backup, Restore, RowOnly,
           topupVars
    <3> QED BY <1>1, <3>1
  <2> QED BY <2>1, <2>2
<1>5. minted' \subseteq DOMAIN payments'
  <2>1. CASE \E e \in events : Deliver(e)
    <3>1. PICK e \in events : minted' = minted \/ minted' = minted \cup {e.pi}
      BY <2>1 DEF Deliver, Settle, Report
    <3>2. e.pi \in DOMAIN payments'
      BY StepGrows DEF Sound, EventsSound, GrowsTo
    <3> QED BY <1>1, <3>1, <3>2
  <2>2. CASE Restore
    BY <1>1, <2>2 DEF Restore
  <2>3. CASE ~Restore /\ ~\E e \in events : Deliver(e)
    <3>1. minted' = minted
      BY <2>3 DEF TopupNext, CallerStep, Operate, Prepare, Plan, Lookup, Retire, Retrieve,
           BindFound, Dispatch, Answer, GiveUp, Process, Move, Scan, Find, Claim, ClearAbsent,
           Store, Read, RetireCanceled, CancelForgotten, Replay, Pass, Backup, RowOnly, rowVars,
           topupVars
    <3> QED BY <1>1, <3>1
  <2> QED BY <2>1, <2>2, <2>3
<1>6. copy'.minted = copy.minted \/ copy'.minted = minted
  <2>1. CASE Backup
    BY <2>1 DEF Backup
  <2>2. CASE ~Backup
    <3>1. copy' = copy
      BY <2>2 DEF TopupNext, CallerStep, Operate, Prepare, Plan, Lookup, Retire, Retrieve,
           BindFound, Dispatch, Answer, GiveUp, Process, Move, Deliver, Scan, Find, Claim,
           ClearAbsent, Store, Read, RetireCanceled, CancelForgotten, Replay, Pass, Restore,
           RowOnly, topupVars
    <3> QED BY <3>1
  <2> QED BY <2>1, <2>2
<1> QED BY <1>1, <1>2, <1>3, <1>4, <1>5, <1>6

LEMMA SoundStep ==
  ASSUME Sound, [TopupNext]_topupVars
  PROVE  Sound'
BY StepGrows, WireStep, RowStep, KnowledgeStep, RestStep DEF Sound

LEMMA SoundInit == TopupInit => Sound /\ OnePaymentPerAttempt
<1> SUFFICES ASSUME TopupInit
             PROVE  Sound /\ OnePaymentPerAttempt
  OBVIOUS
<1>1. payments = <<>> /\ wire = {} /\ events = {} /\ minted = {} /\ adrift = {}
      /\ reserved = 0 /\ clock = 0 /\ topup = Nobody /\ restored = FALSE
      /\ pending = NoAttempt /\ copy.pending = NoAttempt /\ copy.minted = {}
      /\ caller = [c \in Everyone |-> Idle]
  BY DEF TopupInit, Everyone
<1>2. /\ payments \in Seq(PaymentSpace) /\ Len(payments) = 0 /\ DOMAIN payments = {}
  BY <1>1
<1>3. PaymentsSound /\ WireSound /\ EventsSound
  BY <1>1, <1>2, TopupAssumption DEF PaymentsSound, WireSound, EventsSound
<1>4. RowSound(NoAttempt, payments, reserved, clock)
  <2>1. NoAttempt \in RowsSpace
    BY TopupAssumption DEF NoAttempt, RowsSpace, Everyone
  <2>2. NoAttempt.id = 0 /\ NoAttempt.at = 0 /\ NoAttempt.claim = Nobody /\ NoAttempt.pi = 0
    BY DEF NoAttempt
  <2> QED BY <1>1, <1>2, <2>1, <2>2 DEF RowSound
<1>5. KnowledgeSound(Idle, payments, reserved)
  BY <1>1, IdleTyped DEF KnowledgeSound
<1>6. AtStep(Operator, "retire") => caller[Operator].status = "canceled"
  BY <1>1, IdleTyped DEF AtStep, Everyone
<1>7. caller \in [Everyone -> KnowledgeSpace]
      /\ \A c \in Everyone : KnowledgeSound(caller[c], payments, reserved)
  BY <1>1, <1>5, IdleTyped
<1>8. /\ topup \in Callers \cup {Nobody} /\ reserved \in 0..MaxAttempts /\ clock \in 0..MaxNow
      /\ adrift \subseteq 1..MaxAttempts
      /\ minted \subseteq DOMAIN payments /\ copy.minted \subseteq DOMAIN payments
  BY <1>1, TopupAssumption
<1>9. restored \in BOOLEAN
  BY <1>1
<1>10. RowSound(copy.pending, payments, reserved, clock) /\ RowSound(pending, payments, reserved, clock)
  BY <1>1, <1>4
<1>11. Sound
  BY <1>3, <1>6, <1>7, <1>8, <1>9, <1>10 DEF Sound
<1> QED BY <1>2, <1>11 DEF OnePaymentPerAttempt

(* Stripe remembers the key of every request that may still reach it.      *)
LEMMA OnePaymentStep ==
  ASSUME Sound, OnePaymentPerAttempt, [TopupNext]_topupVars
  PROVE  OnePaymentPerAttempt'
<1>1. CASE DOMAIN payments' = DOMAIN payments
  BY <1>1, StepGrows DEF OnePaymentPerAttempt, GrowsTo
<1>2. CASE \E k \in wire : Process(k)
  <2>1. PICK k \in wire : Process(k)
    BY <1>2
  <2>2. CASE payments' = payments
    BY <1>1, <2>2
  <2>3. CASE /\ Known(k) = {}
             /\ \A p \in DOMAIN payments' \ DOMAIN payments :
                  p = Len(payments) + 1 /\ payments'[p].attempt = k.attempt
    <3>1. \A q \in DOMAIN payments : payments[q].attempt # k.attempt
      <4> SUFFICES ASSUME NEW q \in DOMAIN payments, payments[q].attempt = k.attempt
                   PROVE  q \in Known(k)
        BY <2>3
      <4>1. /\ k = [attempt |-> k.attempt, of |-> Nobody] /\ clock - payments[q].born <= SafeRetry
            /\ payments[q].key = [attempt |-> payments[q].attempt, of |-> Nobody]
        BY DEF Sound, WireSound, PaymentsSound
      <4>2. payments[q].born \in Nat /\ clock \in Nat
        BY PaymentsTyped DEF PaymentSpace
      <4>3. clock - payments[q].born < Remembered
        BY <4>1, <4>2, TopupAssumption
      <4>4. payments[q].key = k
        BY <4>1
      <4> QED BY <4>3, <4>4 DEF Known
    <3> QED BY <2>3, <3>1, StepGrows DEF OnePaymentPerAttempt, GrowsTo
  <2> QED BY <2>1, <2>2, <2>3, Processed
<1>3. CASE \E c \in Callers : Dispatch(c)
  BY <1>1, <1>3 DEF Dispatch
<1> QED BY <1>1, <1>2, <1>3, StepCases, LocalMoves, ReconciledMoves, ProviderMoves DEF Moves


-----------------------------------------------------------------------------
(* While nothing is restored                                               *)

Going ==
  /\ Sound /\ OnePaymentPerAttempt /\ UntilRestore
  /\ [TopupNext]_topupVars /\ ~restored /\ ~restored'

(* No payment and no request belongs to an attempt not yet reserved, and   *)
(* an attempt keeps its payments.                                          *)
LEMMA AttemptsStay ==
  ASSUME Going
  PROVE  /\ \A p \in DOMAIN payments :
              p \in DOMAIN payments' /\ payments'[p].attempt = payments[p].attempt
         /\ \A p \in DOMAIN payments' : payments'[p].attempt \in 1..reserved'
         /\ \A k \in wire' : k.attempt \in 1..reserved'
         /\ \A p \in DOMAIN payments' \ DOMAIN payments :
              \E k \in wire : Process(k) /\ payments'[p].attempt = k.attempt
         /\ adrift \subseteq adrift' /\ Sound' /\ OnePaymentPerAttempt'
<1>1. Sound' /\ OnePaymentPerAttempt' /\ adrift \subseteq adrift'
  BY SoundStep, OnePaymentStep, RestStep DEF Going
<1>2. \A p \in DOMAIN payments :
         p \in DOMAIN payments' /\ payments'[p].attempt = payments[p].attempt
  BY StepGrows DEF Going, GrowsTo
<1>3. /\ \A p \in DOMAIN payments' : payments'[p].attempt \in 1..reserved'
      /\ \A k \in wire' : k.attempt \in 1..reserved'
  BY <1>1 DEF Sound, PaymentsSound, WireSound
<1>4. ASSUME NEW p \in DOMAIN payments' \ DOMAIN payments
      PROVE  \E k \in wire : Process(k) /\ payments'[p].attempt = k.attempt
  <2>1. CASE \E k \in wire : Process(k)
    BY <1>4, <2>1, Processed DEF Going
  <2>2. CASE \E c \in Callers : Dispatch(c)
    BY <1>4, <2>2 DEF Dispatch
  <2> QED BY <1>4, <2>1, <2>2, StepCases, LocalMoves, ReconciledMoves, ProviderMoves
       DEF Going, Moves
<1> QED BY <1>1, <1>2, <1>3, <1>4

(* When the lock is free, or its holder has its answer, whatever is under  *)
(* way has outlived its sender.                                            *)
LEMMA WireIsAdrift ==
  ASSUME Sound, SendersHold, Locked \/ \E c \in Callers : AtStep(c, "answered")
  PROVE  \A k \in wire : k.attempt \in adrift
<1> SUFFICES ASSUME NEW c \in Callers, AtStep(c, "calling")
             PROVE  FALSE
  BY DEF SendersHold
<1>1. topup = c /\ c # Nobody
  BY TopupAssumption DEF SendersHold, AtStep
<1>2. PICK d \in Callers : AtStep(d, "answered")
  BY <1>1 DEF Locked
<1>3. topup = d
  BY <1>2 DEF SendersHold, AtStep
<1> QED BY <1>1, <1>2, <1>3 DEF AtStep

(* While a caller waits for Stripe nobody else touches the row.            *)
LEMMA HeldRests ==
  ASSUME Going, NEW c \in Callers, AtStep(c, "calling")
  PROVE  /\ pending' = pending /\ minted' = minted /\ wire' \subseteq wire
         /\ \/ topup' = topup /\ caller'[c] = caller[c]
            \/ GiveUp(c)
            \/ \E k \in wire : Process(k) /\ KeyOf(c) = k
<1>1. /\ topup = c /\ ~Locked /\ c # Operator /\ c \in Everyone /\ Operator \in Everyone
      /\ caller \in [Everyone -> KnowledgeSpace]
      /\ \A d \in Callers : AtStep(d, "answered") => FALSE
  BY TopupAssumption DEF Going, UntilRestore, SendersHold, AtStep, Locked, Everyone, Sound
<1>2. ASSUME NEW d \in Callers, CallerStep(d)
      PROVE  /\ pending' = pending /\ minted' = minted /\ wire' \subseteq wire
             /\ (topup' = topup /\ caller'[c] = caller[c]) \/ GiveUp(c)
  <2>1. Lookup(d) \/ Retrieve(d) \/ GiveUp(d)
    BY <1>1, <1>2 DEF CallerStep, Prepare, Plan, Retire, BindFound, Dispatch, Answer
  <2>2. CASE Lookup(d) \/ Retrieve(d)
    <3>1. d # c /\ UNCHANGED <<pending, minted, wire, topup>> /\ d \in Everyone
          /\ \E k : caller' = [caller EXCEPT ![d] = k]
      BY <2>2, TopupAssumption DEF Lookup, Retrieve, RowOnly, stripeVars, AtStep, Know, Finish, Proceed, Everyone
    <3> QED BY <1>1, <3>1
  <2>3. CASE GiveUp(d)
    <3>1. UNCHANGED <<pending, minted, wire>> /\ (d # c => topup' = topup) /\ d \in Everyone
          /\ \E k : caller' = [caller EXCEPT ![d] = k]
      BY <1>1, <2>3 DEF GiveUp, rowVars, stripeVars, Know, Finish, Everyone
    <3> QED BY <1>1, <2>3, <3>1
  <2> QED BY <2>1, <2>2, <2>3
<1>3. ASSUME NEW k \in wire, Process(k)
      PROVE  /\ pending' = pending /\ minted' = minted /\ wire' \subseteq wire
             /\ (topup' = topup /\ caller'[c] = caller[c]) \/ KeyOf(c) = k
  <2>1. UNCHANGED <<topup, pending, minted>> /\ wire' \subseteq wire /\ \E p, s : Show(k, p, s)
    BY <1>3 DEF Process, rowVars
  <2> QED BY <1>1, <2>1 DEF Show, Waiting, Everyone
<1>4. ASSUME Operate
      PROVE  /\ pending' = pending /\ minted' = minted /\ wire' \subseteq wire
             /\ topup' = topup /\ caller'[c] = caller[c]
  <2>1. Scan \/ Find \/ Read \/ \E p \in DOMAIN payments : Replay(p)
    BY <1>1, <1>4 DEF Operate, Claim, ClearAbsent, Store, RetireCanceled, CancelForgotten
  <2>2. CASE Scan \/ Find \/ Read
    <3>1. UNCHANGED <<pending, minted, wire, topup>> /\ \E k : caller' = [caller EXCEPT ![Operator] = k]
      BY <2>2 DEF Scan, Find, Read, RowOnly, rowVars, stripeVars, Know, Finish, Proceed, Cancel, Becomes
    <3> QED BY <1>1, <3>1
  <2>3. CASE \E p \in DOMAIN payments : Replay(p)
    BY <2>3 DEF Replay, rowVars
  <2> QED BY <2>1, <2>2, <2>3
<1>5. CASE \E p \in DOMAIN payments : Move(p)
  BY <1>5 DEF Move, Becomes, rowVars
<1>6. CASE Backup \/ UNCHANGED topupVars
  BY <1>6 DEF Backup, topupVars, rowVars, stripeVars
<1>7. ~Pass /\ ~Restore /\ \A e \in events : ~Deliver(e)
  BY <1>1 DEF Pass, Restore, Deliver, Locked, Going
<1>8. [TopupNext]_topupVars
  BY DEF Going
<1> QED BY <1>2, <1>3, <1>4, <1>5, <1>6, <1>7, <1>8 DEF TopupNext


(* Only a dispatch sends, and it leaves its caller waiting with the lock.  *)
LEMMA Dispatched ==
  ASSUME Going, NEW c \in Callers, Dispatch(c)
  PROVE  \/ wire' = wire /\ topup' = topup /\ Finish(c)
         \/ /\ Owned(c) /\ ~OverCap /\ topup' = c /\ pending' = pending
            /\ wire' = wire \cup {KeyOf(c)} /\ caller'[c] = [caller[c] EXCEPT !.pc = "calling"]
            /\ \A d \in Callers \ {c} : caller'[d] = caller[d]
<1>1. caller \in [Everyone -> KnowledgeSpace] /\ c \in Everyone /\ Callers \subseteq Everyone
  BY DEF Going, Sound, Everyone
<1>2. CASE Finish(c) /\ UNCHANGED <<topup, wire>>
  BY <1>2
<1>3. CASE Owned(c) /\ ~OverCap /\ topup' = c /\ wire' = wire \cup {KeyOf(c)} /\ pending' = pending
           /\ Proceed(c, "calling")
  BY <1>1, <1>3 DEF Proceed, Know
<1> QED BY <1>2, <1>3 DEF Dispatch

(* Whoever holds the lock goes on holding it, or has ended.                *)
LEMMA HoldersStep ==
  ASSUME Going, NEW c \in Callers, caller'[c].pc \in {"calling", "answered"}
  PROVE  topup' = c
<1>1. /\ caller \in [Everyone -> KnowledgeSpace] /\ c \in Everyone /\ Callers \subseteq Everyone
      /\ c # Operator /\ Operator \in Everyone /\ Idle.pc = "idle"
      /\ \A d \in Everyone : caller[d].pc \in {"calling", "answered"} /\ d \in Callers => topup = d
      /\ c # Nobody
  BY TopupAssumption, IdleTyped DEF Going, Sound, Everyone, UntilRestore, SendersHold
<1>2. CASE topup' = topup /\ caller'[c] = caller[c]
  BY <1>1, <1>2
<1>3. ASSUME NEW d \in Callers, CallerStep(d)
      PROVE  topup' = c
  <2>1. CASE Prepare(d) \/ Plan(d) \/ Lookup(d) \/ Retire(d) \/ Retrieve(d) \/ BindFound(d)
    <3>1. topup' = topup
      BY <2>1 DEF Prepare, Plan, Lookup, Retire, Retrieve, BindFound, RowOnly
    <3>2. d \in Everyone
      BY DEF Everyone
    <3>3. PICK k : caller' = [caller EXCEPT ![d] = k] /\ k.pc \notin {"calling", "answered"}
      <4>1. CASE Finish(d)
        BY <1>1, <4>1 DEF Finish, Know
      <4>2. CASE \E s \in {"retire", "dispatch"} : Proceed(d, s)
        <5>1. PICK s \in {"retire", "dispatch"} :
                 caller' = [caller EXCEPT ![d] = [caller[d] EXCEPT !.pc = s]]
          BY <4>2 DEF Proceed, Know
        <5>2. [caller[d] EXCEPT !.pc = s].pc = s
          BY <1>1, <3>2 DEF KnowledgeSpace
        <5> QED BY <5>1, <5>2
      <4>3. CASE Prepare(d)
        <5> DEFINE waits == [Idle EXCEPT !.pc = "plan", !.id = pending.id]
                   mine  == [Idle EXCEPT !.pc = "plan", !.id = reserved', !.fresh = TRUE]
        <5>1. waits.pc = "plan" /\ mine.pc = "plan"
          BY DEF Idle
        <5>2. caller' = [caller EXCEPT ![d] = waits] \/ caller' = [caller EXCEPT ![d] = mine]
          BY <4>3 DEF Prepare, Know
        <5> QED BY <5>1, <5>2
      <4>4. CASE Plan(d)
        <5>1. \A x, y : [caller[d] EXCEPT !.pc = "retrieve", !.pi = x].pc = "retrieve"
                     /\ [caller[d] EXCEPT !.pc = "lookup", !.at = y].pc = "lookup"
          BY <1>1, <3>2 DEF KnowledgeSpace
        <5> QED BY <4>1, <4>2, <4>4, <5>1 DEF Plan, Know
      <4>5. CASE Lookup(d)
        <5>1. \A x, y : [caller[d] EXCEPT !.pc = "bind", !.pi = x, !.status = y].pc = "bind"
          BY <1>1, <3>2 DEF KnowledgeSpace
        <5> QED BY <4>1, <4>2, <4>5, <5>1 DEF Lookup, Know
      <4>6. CASE Retrieve(d)
        <5>1. \A x : [caller[d] EXCEPT !.pc = "recover", !.status = x].pc = "recover"
          BY <1>1, <3>2 DEF KnowledgeSpace
        <5> QED BY <4>6, <5>1 DEF Retrieve, Know
      <4> QED BY <2>1, <4>1, <4>3, <4>4, <4>5, <4>6 DEF Retire, BindFound
    <3>4. d # c /\ caller'[c] = caller[c]
      BY <1>1, <3>2, <3>3
    <3> QED BY <1>1, <3>1, <3>4
  <2>2. CASE Dispatch(d)
    <3>1. CASE wire' = wire /\ topup' = topup /\ Finish(d)
      <4>1. d # c
        BY <1>1, <3>1 DEF Finish, Know
      <4> QED BY <1>1, <1>2, <3>1, <4>1 DEF Finish, Know
    <3>2. CASE topup' = d /\ \A e \in Callers \ {d} : caller'[e] = caller[e]
      <4>1. c # d => topup = c /\ topup = Nobody
        BY <1>1, <2>2, <3>2 DEF Dispatch, Locked
      <4> QED BY <1>1, <3>2, <4>1
    <3> QED BY <2>2, <3>1, <3>2, Dispatched
  <2>3. CASE Answer(d) \/ GiveUp(d)
    <3>1. Finish(d) /\ topup' = IF topup = d THEN Nobody ELSE topup
      BY <2>3 DEF Answer, GiveUp
    <3>2. d # c /\ caller'[c] = caller[c]
      BY <1>1, <3>1 DEF Finish, Know
    <3> QED BY <1>1, <3>1, <3>2
  <2> QED BY <1>3, <2>1, <2>2, <2>3 DEF CallerStep
<1>4. CASE \E k \in wire : Process(k)
  <2>1. topup' = topup /\ \E k, p, s : Show(k, p, s)
    BY <1>4 DEF Process
  <2>2. caller[c].pc \in {"calling", "answered"}
    BY <1>1, <2>1 DEF Show, Waiting, AtStep, Everyone
  <2> QED BY <1>1, <2>1, <2>2
<1>5. CASE Operate
  <2>1. topup' = topup
    BY <1>5 DEF Operate, Scan, Find, Claim, ClearAbsent, Store, Read, RetireCanceled, CancelForgotten,
         Replay, RowOnly
  <2>2. caller' = caller \/ \E k : caller' = [caller EXCEPT ![Operator] = k]
    BY <1>5 DEF Operate, Scan, Find, Claim, ClearAbsent, Store, Read, RetireCanceled, CancelForgotten,
         Replay, Know, Finish, Proceed
  <2> QED BY <1>1, <1>2, <2>1, <2>2
<1>6. CASE (\E p \in DOMAIN payments : Move(p)) \/ (\E e \in events : Deliver(e)) \/ Pass \/ Backup
           \/ UNCHANGED topupVars
  BY <1>2, <1>6 DEF Move, Deliver, Pass, Backup, topupVars
<1>7. ~Restore /\ [TopupNext]_topupVars
  BY DEF Going, Restore
<1> QED BY <1>3, <1>4, <1>5, <1>6, <1>7 DEF TopupNext

LEMMA SendersHoldStep ==
  ASSUME Going
  PROVE  SendersHold'
<1>1. ASSUME NEW k \in wire', k.attempt \notin adrift'
      PROVE  \E c \in Callers : AtStep(c, "calling")' /\ Owned(c)' /\ caller'[c].id = k.attempt
  <2>1. CASE k \in wire
    <3>1. PICK c \in Callers : AtStep(c, "calling") /\ Owned(c) /\ caller[c].id = k.attempt
      BY <1>1, <2>1, AttemptsStay DEF Going, UntilRestore, SendersHold
    <3>2. KeyOf(c) = k
      BY <2>1, <3>1 DEF KeyOf, Going, Sound, WireSound
    <3>3. ~GiveUp(c)
      BY <1>1, <2>1, <3>1, <3>2 DEF GiveUp
    <3>4. \A l \in wire : Process(l) => l # k
      BY <1>1 DEF Process
    <3>5. pending' = pending /\ caller'[c] = caller[c]
      BY <3>1, <3>2, <3>3, <3>4, HeldRests
    <3> QED BY <3>1, <3>5 DEF AtStep, Owned, Mine
  <2>2. CASE k \notin wire
    <3>1. PICK c \in Callers : Dispatch(c)
      <4>1. [TopupNext]_topupVars /\ Sound
        BY DEF Going
      <4> QED BY <1>1, <2>2, <4>1, StepCases, LocalMoves, ReconciledMoves, ProviderMoves
           DEF Moves, Process
    <3>2. /\ Owned(c) /\ pending' = pending /\ wire' = wire \cup {KeyOf(c)}
          /\ caller'[c] = [caller[c] EXCEPT !.pc = "calling"]
      BY <1>1, <2>2, <3>1, Dispatched
    <3>3. caller[c] \in KnowledgeSpace
      BY DEF Going, Sound, Everyone
    <3>4. caller'[c].pc = "calling" /\ caller'[c].id = caller[c].id
      BY <3>2, <3>3 DEF KnowledgeSpace
    <3>5. k = KeyOf(c)
      BY <1>1, <2>2, <3>2
    <3> QED BY <3>2, <3>4, <3>5 DEF AtStep, Owned, Mine, KeyOf
  <2> QED BY <2>1, <2>2
<1> QED BY <1>1, HoldersStep DEF SendersHold


(* An attempt that is bound is the same attempt of the same owner.         *)
LEMMA BoundKeeps ==
  ASSUME Sound, NEW p, NEW s
  PROVE  \/ Bound(p, s) = NoAttempt /\ s = "canceled"
         \/ Bound(p, s).id = pending.id /\ Bound(p, s).claim = pending.claim /\ s # "canceled"
<1>1. pending \in RowsSpace
  BY DEF Sound, RowSound
<1> DEFINE row == [pending EXCEPT !.pi = p, !.status = s]
<1>2. row.id = pending.id /\ row.claim = pending.claim
  BY <1>1 DEF RowsSpace
<1>3. Bound(p, s) = IF s = "canceled" THEN NoAttempt ELSE row
  BY DEF Bound
<1> HIDE DEF row
<1> QED BY <1>2, <1>3

(* Only its new owner changes the claim.                                   *)
LEMMA ClaimStep ==
  ASSUME Going, NEW c \in Everyone, pending'.claim = c
  PROVE  \/ pending'.id = pending.id /\ pending.claim = c
         \/ c \in Callers /\ (Prepare(c) \/ Plan(c))
         \/ c = Operator /\ Claim
<1>1. /\ pending \in RowsSpace /\ c # Nobody /\ NoAttempt.claim = Nobody
  BY TopupAssumption DEF Going, Sound, RowSound, Everyone, NoAttempt
<1> USE <1>1
<1>2. pending' # NoAttempt
  OBVIOUS
<1>3. CASE pending' = pending
  BY <1>3
<1>4. CASE \E p, s : pending' = Bound(p, s)
  BY <1>2, <1>4, BoundKeeps DEF Going
<1>5. ASSUME NEW d \in Callers, CallerStep(d)
      PROVE  pending' = pending \/ (\E p, s : pending' = Bound(p, s)) \/ (d = c /\ (Prepare(d) \/ Plan(d)))
  <2>1. CASE Prepare(d)
    BY <2>1 DEF Prepare
  <2>2. CASE Plan(d)
    BY <1>2, <2>2 DEF Plan, RowsSpace
  <2>3. CASE Lookup(d) \/ Retrieve(d) \/ GiveUp(d)
    BY <2>3 DEF Lookup, Retrieve, GiveUp, rowVars
  <2>4. CASE Retire(d) \/ Dispatch(d)
    BY <1>2, <2>4 DEF Retire, Dispatch
  <2>5. CASE BindFound(d)
    BY <2>5 DEF BindFound, Reconcile
  <2>6. CASE Answer(d)
    BY <2>6 DEF Answer, Reconcile
  <2> QED BY <1>5, <2>1, <2>2, <2>3, <2>4, <2>5, <2>6 DEF CallerStep
<1>6. ASSUME Operate
      PROVE  pending' = pending \/ (\E p, s : pending' = Bound(p, s)) \/ (c = Operator /\ Claim)
  <2>1. CASE Scan \/ Find \/ Read
    BY <2>1 DEF Scan, Find, Read, rowVars
  <2>2. CASE Claim
    BY <1>2, <2>2 DEF Claim, RowsSpace
  <2>3. CASE ClearAbsent \/ RetireCanceled
    BY <1>2, <2>3 DEF ClearAbsent, RetireCanceled
  <2>4. CASE Store
    BY <2>4 DEF Store
  <2>5. CASE \E p \in DOMAIN payments : CancelForgotten(p) \/ Replay(p)
    BY <2>5 DEF CancelForgotten, Replay, rowVars
  <2> QED BY <1>6, <2>1, <2>2, <2>3, <2>4, <2>5 DEF Operate
<1>7. ASSUME NEW e \in events, Deliver(e)
      PROVE  pending' = pending \/ (\E p, s : pending' = Bound(p, s))
  BY <1>2, <1>7 DEF Deliver, Settle, Report
<1>8. CASE (\E k \in wire : Process(k)) \/ (\E p \in DOMAIN payments : Move(p)) \/ Pass \/ Backup
           \/ UNCHANGED topupVars
  BY <1>3, <1>8 DEF Process, Move, Pass, Backup, topupVars, rowVars
<1>9. ~Restore /\ [TopupNext]_topupVars
  BY DEF Going, Restore
<1> QED BY <1>3, <1>4, <1>5, <1>6, <1>7, <1>8, <1>9 DEF TopupNext

(* Nobody asks for a payment of an attempt that somebody else owns.        *)
LEMMA UnpaidStays ==
  ASSUME Going, Unpaid(pending.id), pending'.id = pending.id,
         NEW c \in Callers \cup {Operator}, pending.claim = c, ~AtStep(c, "calling") \/ c = Operator
  PROVE  Unpaid(pending.id)'
<1>1. CASE pending.id \in adrift
  BY <1>1, AttemptsStay DEF Unpaid
<1>2. CASE pending.id \notin adrift /\ PaymentsOf(pending.id) = {}
  <2>1. ASSUME NEW k \in wire
        PROVE  k.attempt # pending.id
    <3> SUFFICES ASSUME k.attempt = pending.id
                 PROVE  FALSE
      OBVIOUS
    <3>1. PICK d \in Callers : AtStep(d, "calling") /\ Owned(d)
      BY <1>2 DEF Going, UntilRestore, SendersHold
    <3> QED BY <3>1, TopupAssumption DEF Owned
  <2>2. \A p \in DOMAIN payments' : payments'[p].attempt # pending.id
    <3> SUFFICES ASSUME NEW p \in DOMAIN payments'
                 PROVE  payments'[p].attempt # pending.id
      OBVIOUS
    <3>1. CASE p \in DOMAIN payments
      BY <1>2, <3>1, AttemptsStay DEF PaymentsOf
    <3>2. CASE p \notin DOMAIN payments
      BY <2>1, <3>2, AttemptsStay
    <3> QED BY <3>1, <3>2
  <2> QED BY <2>2 DEF Unpaid, PaymentsOf
<1> QED BY <1>1, <1>2 DEF Unpaid

(* A fresh attempt has no payment.                                         *)
LEMMA FreshIsUnpaid ==
  ASSUME Going, reserved' = reserved + 1, UNCHANGED payments
  PROVE  \A p \in DOMAIN payments' : payments'[p].attempt # reserved'
<1>1. reserved \in Nat /\ \A p \in DOMAIN payments : payments[p].attempt \in 1..reserved
  BY PaymentsTyped DEF Going
<1> QED BY <1>1


(* What a process knows changes in its own steps and with Stripe's answer. *)
LEMMA OthersWait ==
  ASSUME Going, NEW c \in Callers, ~CallerStep(c)
  PROVE  caller'[c] = caller[c] \/ caller'[c].pc = "answered"
<1>1. /\ caller \in [Everyone -> KnowledgeSpace] /\ c \in Everyone /\ Callers \subseteq Everyone
      /\ c # Operator /\ Operator \in Everyone
  BY TopupAssumption DEF Going, Sound, Everyone
<1>2. ASSUME NEW d \in Callers, CallerStep(d)
      PROVE  caller'[c] = caller[c]
  <2>1. d # c /\ d \in Everyone
    BY SMTT(30), <1>1, <1>2
  <2>2. \E k : caller' = [caller EXCEPT ![d] = k]
    BY <1>2 DEF CallerStep, Prepare, Plan, Lookup, Retire, Retrieve, BindFound, Dispatch, Answer, GiveUp,
         Know, Finish, Proceed
  <2> QED BY <1>1, <2>1, <2>2
<1>3. CASE \E k \in wire : Process(k)
  <2>1. \E k, p, s : Show(k, p, s)
    BY <1>3 DEF Process
  <2>2. PICK p, s : caller'[c] = caller[c]
                    \/ caller'[c] = [caller[c] EXCEPT !.pc = "answered", !.pi = p, !.status = s]
    BY ZenonT(30), <1>1, <2>1 DEF Show, Everyone
  <2>3. [caller[c] EXCEPT !.pc = "answered", !.pi = p, !.status = s].pc = "answered"
    BY <1>1 DEF KnowledgeSpace
  <2> QED BY <2>2, <2>3
<1>4. CASE Operate
  <2>1. caller' = caller \/ \E k : caller' = [caller EXCEPT ![Operator] = k]
    BY <1>4 DEF Operate, Scan, Find, Claim, ClearAbsent, Store, Read, RetireCanceled, CancelForgotten,
         Replay, Know, Finish, Proceed
  <2> QED BY <1>1, <2>1
<1>5. CASE (\E p \in DOMAIN payments : Move(p)) \/ (\E e \in events : Deliver(e)) \/ Pass \/ Backup
           \/ UNCHANGED topupVars
  BY <1>5 DEF Move, Deliver, Pass, Backup, topupVars
<1>6. ~Restore /\ [TopupNext]_topupVars
  BY DEF Going, Restore
<1> QED BY <1>2, <1>3, <1>4, <1>5, <1>6 DEF TopupNext

GivesUp(k) == k.pc \in {"retire", "dispatch"} \/ (k.pc = "plan" /\ k.fresh)

(* A caller comes to a step at which it may give the attempt up by looking,*)
(* or with an attempt of its own.                                          *)
LEMMA CallerLooked ==
  ASSUME Going, NEW c \in Callers, CallerStep(c), Owned(c)', GivesUp(caller'[c])
  PROVE  Unpaid(pending.id)'
<1>1. /\ caller \in [Everyone -> KnowledgeSpace] /\ c \in Everyone /\ c # Operator
      /\ pending'.id = caller'[c].id /\ pending'.claim = c /\ Idle.pc = "idle"
  BY TopupAssumption, IdleTyped DEF Going, Sound, Everyone, Owned, Mine
<1>2. ~Finish(c)
  BY <1>1 DEF Finish, Know, GivesUp
<1>3. CASE Prepare(c)
  <2> DEFINE waits == [Idle EXCEPT !.pc = "plan", !.id = pending.id]
  <2>1. waits.pc = "plan" /\ waits.fresh = FALSE
    BY DEF Idle
  <2>2. ~Know(c, waits)
    BY <1>1, <2>1 DEF Know, GivesUp
  <2>3. reserved' = reserved + 1 /\ pending'.id = reserved' /\ UNCHANGED payments
    BY <1>3, <2>2 DEF Prepare, RowOnly, stripeVars
  <2> QED BY <2>3, FreshIsUnpaid DEF Unpaid, PaymentsOf
<1>4. CASE Plan(c)
  <2>1. /\ [caller[c] EXCEPT !.pc = "retrieve", !.pi = pending.pi].pc = "retrieve"
        /\ [caller[c] EXCEPT !.pc = "lookup", !.at = pending.at].pc = "lookup"
    BY <1>1 DEF KnowledgeSpace
  <2>2. ~Know(c, [caller[c] EXCEPT !.pc = "retrieve", !.pi = pending.pi])
        /\ ~Know(c, [caller[c] EXCEPT !.pc = "lookup", !.at = pending.at])
    BY <1>1, <2>1 DEF Know, GivesUp
  <2>3. AtStep(c, "plan") /\ Mine(c) /\ FreshOwner(c) /\ pending' = pending
    BY <1>2, <1>4, <2>2 DEF Plan
  <2>4. Unpaid(pending.id)
    BY <2>3 DEF Going, UntilRestore, OwnersLooked, Owned, FreshOwner
  <2>5. pending.claim = c /\ ~AtStep(c, "calling")
    BY <2>3 DEF FreshOwner, AtStep
  <2> QED BY <2>3, <2>4, <2>5, UnpaidStays
<1>5. CASE Lookup(c)
  <2>1. \A x, y : [caller[c] EXCEPT !.pc = "bind", !.pi = x, !.status = y].pc = "bind"
    BY <1>1 DEF KnowledgeSpace
  <2>2. ASSUME NEW x, NEW y, Know(c, [caller[c] EXCEPT !.pc = "bind", !.pi = x, !.status = y])
        PROVE  FALSE
    <3>1. caller'[c] = [caller[c] EXCEPT !.pc = "bind", !.pi = x, !.status = y]
      BY <1>1, <2>2 DEF Know
    <3> QED BY <1>1, <2>1, <3>1 DEF GivesUp
  <2>3. PaymentsOf(caller[c].id) = {} /\ UNCHANGED payments /\ \E s \in {"retire", "dispatch"} : Proceed(c, s)
    BY <1>2, <1>5, <2>2 DEF Lookup, RowOnly, stripeVars
  <2>4. caller'[c].id = caller[c].id
    BY <1>1, <2>3 DEF Proceed, Know, KnowledgeSpace
  <2> QED BY <1>1, <2>3, <2>4 DEF Unpaid, PaymentsOf
<1>6. ~Retrieve(c)
  <2>1. \A x : [caller[c] EXCEPT !.pc = "recover", !.status = x].pc = "recover"
    BY <1>1 DEF KnowledgeSpace
  <2> QED BY <1>1, <2>1 DEF Retrieve, Know, GivesUp
<1>7. ~Dispatch(c)
  <2>1. [caller[c] EXCEPT !.pc = "calling"].pc = "calling"
    BY <1>1 DEF KnowledgeSpace
  <2>2. ~Proceed(c, "calling")
    BY <1>1, <2>1 DEF Proceed, Know, GivesUp
  <2> QED BY <1>2, <2>2 DEF Dispatch
<1> QED BY <1>2, <1>3, <1>4, <1>5, <1>6, <1>7 DEF CallerStep, Retire, BindFound, Answer, GiveUp

(* So does the operator, between its own claim and its second look.        *)
LEMMA OperatorLooked ==
  ASSUME Going, AtStep(Operator, "clear")', Owned(Operator)'
  PROVE  Unpaid(pending.id)'
<1>1. /\ caller \in [Everyone -> KnowledgeSpace] /\ Operator \in Everyone /\ Operator \notin Callers
      /\ pending'.id = caller'[Operator].id /\ pending'.claim = Operator /\ Idle.pc = "idle"
      /\ caller'[Operator].pc = "clear"
  BY TopupAssumption, IdleTyped DEF Going, Sound, Everyone, Owned, Mine, AtStep
<1>2. CASE caller'[Operator] = caller[Operator]
  <2>1. ~Claim
    <3>1. [caller[Operator] EXCEPT !.pc = "refind"].pc = "refind"
      BY <1>1 DEF KnowledgeSpace
    <3> QED BY <1>1, <3>1 DEF Claim, Finish, Proceed, Know
  <2>2. pending'.id = pending.id /\ pending.claim = Operator
    BY <1>1, <2>1, ClaimStep
  <2>3. Unpaid(pending.id)
    BY <1>1, <1>2, <2>2 DEF Going, UntilRestore, OwnersLooked, Owned, Mine, AtStep
  <2> QED BY <2>2, <2>3, UnpaidStays
<1>3. CASE Find
  <2>1. \A x, y : [caller[Operator] EXCEPT !.pc = "store", !.pi = x, !.status = y].pc = "store"
    BY <1>1 DEF KnowledgeSpace
  <2>2. ASSUME NEW x, NEW y, Know(Operator, [caller[Operator] EXCEPT !.pc = "store", !.pi = x, !.status = y])
        PROVE  FALSE
    <3>1. caller'[Operator] = [caller[Operator] EXCEPT !.pc = "store", !.pi = x, !.status = y]
      BY <1>1, <2>2 DEF Know
    <3> QED BY <1>1, <2>1, <3>1 DEF GivesUp
  <2>3. ~Finish(Operator)
    BY <1>1 DEF Finish, Know
  <2>4. PaymentsOf(caller[Operator].id) = {} /\ UNCHANGED payments /\ \E s : Proceed(Operator, s)
    BY <1>3, <2>2, <2>3 DEF Find, RowOnly, stripeVars
  <2>5. caller'[Operator].id = caller[Operator].id
    BY <1>1, <2>4 DEF Proceed, Know, KnowledgeSpace
  <2> QED BY <1>1, <2>4, <2>5 DEF Unpaid, PaymentsOf
<1>4. ASSUME Operate, ~Find
      PROVE  caller'[Operator] = caller[Operator]
  <2>1. /\ [caller[Operator] EXCEPT !.pc = "refind"].pc = "refind"
        /\ [caller[Operator] EXCEPT !.pc = "read"].pc = "read"
        /\ [caller[Operator] EXCEPT !.pc = "retire", !.status = "canceled"].pc = "retire"
        /\ \A a, b, d, e : [Idle EXCEPT !.id = a, !.claim = b, !.pi = d, !.pc = e].pc = e
    BY <1>1 DEF KnowledgeSpace, Idle
  <2>2. ~Finish(Operator) /\ ~Proceed(Operator, "refind") /\ ~Proceed(Operator, "read")
        /\ ~Know(Operator, [caller[Operator] EXCEPT !.pc = "retire", !.status = "canceled"])
    BY <1>1, <2>1 DEF Finish, Proceed, Know
  <2>3. ~Scan
    <3> SUFFICES ASSUME Scan
                 PROVE  FALSE
      OBVIOUS
    <3>1. PICK e \in {"find", "read"} :
             caller' = [caller EXCEPT ![Operator] =
                          [Idle EXCEPT !.id = pending.id, !.claim = pending.claim, !.pi = pending.pi, !.pc = e]]
      BY DEF Scan, Know
    <3> QED BY <1>1, <2>1, <3>1
  <2> QED BY <1>4, <2>2, <2>3 DEF Operate, Claim, ClearAbsent, Store, Read, RetireCanceled, CancelForgotten,
       Replay
<1>5. ASSUME NEW d \in Callers, CallerStep(d)
      PROVE  caller'[Operator] = caller[Operator]
  <2>1. \E k : caller' = [caller EXCEPT ![d] = k]
    BY <1>5 DEF CallerStep, Prepare, Plan, Lookup, Retire, Retrieve, BindFound, Dispatch, Answer, GiveUp,
         Know, Finish, Proceed
  <2> QED BY <1>1, <2>1
<1>6. ASSUME NEW k \in wire, Process(k)
      PROVE  caller'[Operator] = caller[Operator]
  <2>1. \E p, s : Show(k, p, s)
    BY <1>6 DEF Process
  <2> QED BY <1>1, <2>1 DEF Show, Waiting, Everyone
<1>7. CASE (\E p \in DOMAIN payments : Move(p)) \/ (\E e \in events : Deliver(e)) \/ Pass \/ Backup
           \/ UNCHANGED topupVars
  BY <1>2, <1>7 DEF Move, Deliver, Pass, Backup, topupVars
<1>8. ~Restore /\ [TopupNext]_topupVars
  BY DEF Going, Restore
<1> QED BY <1>2, <1>3, <1>4, <1>5, <1>6, <1>7, <1>8 DEF TopupNext

LEMMA OwnersLookedStep ==
  ASSUME Going
  PROVE  OwnersLooked'
<1>1. ASSUME NEW c \in Callers, Owned(c)', GivesUp(caller'[c])
      PROVE  Unpaid(pending.id)'
  <2>1. CASE ~CallerStep(c)
    <3>1. caller'[c] = caller[c]
      BY <1>1, <2>1, OthersWait DEF GivesUp
    <3>2. pending'.id = pending.id /\ pending.claim = c
      BY <1>1, <2>1, ClaimStep, TopupAssumption DEF Owned, CallerStep, Everyone
    <3>3. Unpaid(pending.id) /\ ~AtStep(c, "calling")
      BY <1>1, <3>1, <3>2 DEF Going, UntilRestore, OwnersLooked, Owned, Mine, AtStep, GivesUp
    <3> QED BY <3>2, <3>3, UnpaidStays
  <2> QED BY <1>1, <2>1, CallerLooked
<1> QED BY <1>1, OperatorLooked DEF OwnersLooked, GivesUp, AtStep


(* A pack, once minted, stays; only an event of its payment adds it.       *)
LEMMA MintedGrows ==
  ASSUME Going
  PROVE  \/ minted' = minted
         \/ \E e \in events : /\ Deliver(e) /\ e.kind = "succeeded" /\ e.pi \notin minted
                              /\ minted' = minted \cup {e.pi}
<1>1. ~Restore /\ [TopupNext]_topupVars
  BY DEF Going, Restore
<1>2. CASE \E e \in events : Deliver(e)
  BY <1>2 DEF Deliver, Settle, Report
<1>3. CASE ~\E e \in events : Deliver(e)
  <2>1. CASE \E c \in Callers : CallerStep(c)
    BY <2>1 DEF CallerStep, Prepare, Plan, Lookup, Retire, Retrieve, BindFound, Dispatch, Answer, GiveUp,
         RowOnly, rowVars
  <2>2. CASE Operate
    BY <2>2 DEF Operate, Scan, Find, Claim, ClearAbsent, Store, Read, RetireCanceled, CancelForgotten,
         Replay, RowOnly, rowVars
  <2> QED BY <1>1, <1>3, <2>1, <2>2 DEF TopupNext, Process, Move, Pass, Backup, topupVars, rowVars
<1> QED BY <1>2, <1>3

(* Bound to a canceled payment, an attempt is given up for that payment.   *)
LEMMA BindsKeeps ==
  ASSUME Going, Binds, NEW p \in DOMAIN payments, payments[p].attempt = pending.id,
         pending'.id # pending.id
  PROVE  payments'[p].status = "canceled"
<1>1. PICK q \in DOMAIN payments, s \in Statuses :
         /\ payments[q].attempt = pending.id /\ pending' = Bound(q, s)
         /\ s = "canceled" => payments'[q].status = "canceled"
  BY DEF Binds
<1>2. s = "canceled"
  BY <1>1, BoundKeeps DEF Going
<1>3. q = p
  BY <1>1 DEF Going, OnePaymentPerAttempt
<1> QED BY <1>1, <1>2, <1>3

(* An attempt is given up when it has no payment, when its payment is      *)
(* canceled, or when its pack is minted.                                   *)
LEMMA GivenUp ==
  ASSUME Going, NEW p \in DOMAIN payments, payments[p].attempt = pending.id,
         payments[p].attempt \notin adrift, pending'.id # pending.id
  PROVE  p \in minted' \/ payments'[p].status = "canceled"
<1>1. /\ pending.id # 0 /\ ~Unpaid(pending.id) /\ pending \in RowsSpace
      /\ \A q \in DOMAIN payments : payments[q].attempt = pending.id => q = p
  <2>1. payments[p].attempt # 0
    BY PaymentsTyped DEF Going
  <2> QED BY <2>1 DEF Unpaid, PaymentsOf, Going, OnePaymentPerAttempt, Sound, RowSound
<1>2. /\ \A c \in Callers : ~(Owned(c) /\ GivesUp(caller[c]))
      /\ ~(AtStep(Operator, "clear") /\ Owned(Operator))
  BY <1>1 DEF Going, UntilRestore, OwnersLooked, GivesUp, AtStep
<1>3. ASSUME NEW c \in Callers, CallerStep(c)
      PROVE  payments'[p].status = "canceled"
  <2>1. ~Prepare(c)
    BY <1>1 DEF Prepare
  <2>2. ~Plan(c)
    <3>1. \A d : [pending EXCEPT !.claim = d].id = pending.id
      BY <1>1 DEF RowsSpace
    <3> QED BY <1>2, <3>1 DEF Plan, FreshOwner, Owned, GivesUp, AtStep
  <2>3. ~Retire(c) /\ ~Dispatch(c)
    BY <1>2 DEF Retire, Dispatch, GivesUp, AtStep
  <2>4. CASE BindFound(c) \/ Answer(c)
    BY <2>4, ReconciledMoves, BindsKeeps DEF Going
  <2> QED BY <1>3, <2>1, <2>2, <2>3, <2>4 DEF CallerStep, Lookup, Retrieve, GiveUp, rowVars
<1>4. ASSUME Operate
      PROVE  payments'[p].status = "canceled"
  <2>1. KnowledgeSound(caller[Operator], payments, reserved)
        /\ (AtStep(Operator, "retire") => caller[Operator].status = "canceled")
    BY DEF Going, Sound, Everyone
  <2>2. ~Claim
    <3>1. \A d : [pending EXCEPT !.claim = d].id = pending.id
      BY <1>1 DEF RowsSpace
    <3> QED BY <3>1 DEF Claim
  <2>3. ~ClearAbsent
    BY <1>2 DEF ClearAbsent, Clearable
  <2>4. CASE Store
    <3>1. Mine(Operator) /\ pending' = Bound(caller[Operator].pi, caller[Operator].status)
          /\ UNCHANGED payments /\ caller[Operator].pc = "store"
      BY <2>4 DEF Store, RowOnly, stripeVars, AtStep
    <3>2. caller[Operator].status = "canceled"
      BY <3>1, BoundKeeps DEF Going
    <3>3. caller[Operator].pi \in DOMAIN payments
          /\ payments[caller[Operator].pi].attempt = pending.id
          /\ payments[caller[Operator].pi].status = "canceled"
      BY <2>1, <3>1, <3>2 DEF KnowledgeSound, Mine
    <3> QED BY <1>1, <3>1, <3>3
  <2>5. CASE RetireCanceled
    <3>1. /\ Mine(Operator) /\ UNCHANGED payments /\ AtStep(Operator, "retire")
      BY <2>5 DEF RetireCanceled, RowOnly, stripeVars
    <3>2. caller[Operator].pi \in DOMAIN payments
          /\ payments[caller[Operator].pi].attempt = pending.id
          /\ payments[caller[Operator].pi].status = "canceled"
      BY <2>1, <3>1 DEF KnowledgeSound, Mine
    <3> QED BY <1>1, <3>1, <3>2
  <2> QED BY <1>4, <2>2, <2>3, <2>4, <2>5 DEF Operate, Scan, Find, Read, CancelForgotten, Replay, RowOnly, rowVars
<1>5. ASSUME NEW e \in events, Deliver(e)
      PROVE  p \in minted' \/ payments'[p].status = "canceled"
  <2>1. CASE e.kind # "succeeded"
    <3>1. Report(e) /\ UNCHANGED payments
      BY <1>5, <2>1 DEF Deliver
    <3> QED BY <2>1, <3>1, DeliveryBinds, BindsKeeps DEF Going
  <2>2. CASE e.kind = "succeeded"
    <3>1. payments[e.pi].attempt = pending.id /\ minted' = minted \cup {e.pi}
      BY <1>5, <2>2 DEF Deliver, Settle
    <3>2. e.pi \in DOMAIN payments
      BY DEF Going, Sound, EventsSound
    <3> QED BY <1>1, <3>1, <3>2
  <2> QED BY <2>1, <2>2
<1>6. ~(\E k \in wire : Process(k)) /\ ~(\E q \in DOMAIN payments : Move(q)) /\ ~Pass /\ ~Backup
      /\ ~UNCHANGED topupVars /\ ~Restore
  BY DEF Process, Move, Pass, Backup, topupVars, rowVars, Restore, Going
<1> QED BY <1>3, <1>4, <1>5, <1>6 DEF Going, TopupNext

LEMMA UnsettledStep ==
  ASSUME Going
  PROVE  UnsettledIsPending'
<1> SUFFICES ASSUME NEW p \in DOMAIN payments', payments'[p].status # "canceled", p \notin minted',
                    payments'[p].attempt \notin adrift'
             PROVE  payments'[p].attempt = pending'.id
  BY DEF UnsettledIsPending
<1>1. minted \subseteq minted' /\ adrift \subseteq adrift'
  BY MintedGrows, AttemptsStay
<1>2. CASE p \in DOMAIN payments
  <2>1. payments'[p].attempt = payments[p].attempt /\ payments[p].status # "canceled"
    BY <1>2, StepGrows DEF Going, GrowsTo, Final
  <2>2. payments[p].attempt = pending.id
    BY <1>1, <1>2, <2>1 DEF Going, UntilRestore, UnsettledIsPending
  <2> QED BY <1>1, <1>2, <2>1, <2>2, GivenUp
<1>3. CASE p \notin DOMAIN payments
  <2>1. PICK k \in wire : Process(k) /\ payments'[p].attempt = k.attempt
    BY <1>3, AttemptsStay
  <2>2. k.attempt = pending.id
    BY <1>1, <2>1 DEF Going, UntilRestore, SendersHold, Owned, Mine
  <2> QED BY <2>1, <2>2 DEF Process, rowVars
<1> QED BY <1>2, <1>3


(* Which attempt is pending after a step.                                  *)
LEMMA PendingStep ==
  ASSUME Going
  PROVE  \/ pending'.id = pending.id \/ pending'.id = 0
         \/ ~OverCap /\ minted' = minted /\ pending'.id = reserved'
            /\ \A p \in DOMAIN payments' : payments'[p].attempt # reserved'
            /\ \A k \in wire' : k.attempt # reserved'
<1>1. Sound /\ [TopupNext]_topupVars /\ pending \in RowsSpace /\ NoAttempt.id = 0
  BY DEF Going, Sound, RowSound, NoAttempt
<1>2. ASSUME NEW c \in Callers, Prepare(c)
      PROVE  \/ pending' = pending
             \/ ~OverCap /\ minted' = minted /\ pending'.id = reserved'
                /\ \A p \in DOMAIN payments' : payments'[p].attempt # reserved'
                /\ \A k \in wire' : k.attempt # reserved'
  <2>1. CASE pending' = pending
    BY <2>1
  <2>2. CASE /\ ~OverCap /\ minted' = minted /\ reserved' = reserved + 1 /\ pending'.id = reserved'
             /\ UNCHANGED <<payments, wire>>
    <3>1. reserved \in Nat /\ \A k \in wire : k.attempt \in 1..reserved
      BY PaymentsTyped DEF Going, Sound, WireSound
    <3> QED BY <2>2, <3>1, FreshIsUnpaid
  <2> QED BY <1>2, <2>1, <2>2 DEF Prepare, RowOnly, stripeVars
<1>3. CASE ~\E c \in Callers : Prepare(c)
  <2>1. CASE Binds
    <3>1. PICK p, s : pending' = Bound(p, s)
      BY <2>1 DEF Binds
    <3> QED BY <1>1, <3>1, BoundKeeps
  <2>2. CASE Claimed
    BY <1>1, <2>2 DEF Claimed, RowsSpace
  <2>3. CASE \E c \in Callers : CallerStep(c)
    <3>1. PICK c \in Callers : CallerStep(c)
      BY <2>3
    <3>2. CASE Plan(c)
      BY <1>1, <3>2 DEF Plan, RowsSpace
    <3>3. CASE BindFound(c) \/ Answer(c)
      BY <1>1, <2>1, <3>3, ReconciledMoves
    <3> QED BY <1>1, <1>3, <3>1, <3>2, <3>3 DEF CallerStep, Lookup, Retire, Retrieve, Dispatch, GiveUp, rowVars
  <2>4. CASE \E e \in events : Deliver(e)
    <3>1. PICK e \in events : Deliver(e)
      BY <2>4
    <3>2. CASE e.kind = "succeeded"
      BY <1>1, <3>1, <3>2 DEF Deliver, Settle
    <3>3. CASE e.kind # "succeeded"
      <4>1. Report(e) /\ UNCHANGED payments
        BY <3>1, <3>3 DEF Deliver
      <4> QED BY <1>1, <2>1, <3>3, <4>1, DeliveryBinds
    <3> QED BY <3>2, <3>3
  <2>5. CASE Operate
    <3>1. CASE Claim
      BY <1>1, <3>1 DEF Claim, RowsSpace
    <3>2. CASE Store
      <4>1. pending' = pending \/ pending' = Bound(caller[Operator].pi, caller[Operator].status)
        BY <3>2 DEF Store
      <4> QED BY <1>1, <4>1, BoundKeeps
    <3>3. CASE ClearAbsent \/ RetireCanceled
      BY <1>1, <3>3 DEF ClearAbsent, RetireCanceled
    <3> QED BY <2>5, <3>1, <3>2, <3>3 DEF Operate, Scan, Find, Read, CancelForgotten, Replay, RowOnly, rowVars
  <2> QED BY <1>1, <2>3, <2>4, <2>5
       DEF TopupNext, Process, Move, Pass, Backup, Restore, topupVars, rowVars, Going
<1> QED BY <1>2, <1>3

(* Until the pack is minted the room that was made for it stays.           *)
LEMMA RoomStep ==
  ASSUME Going
  PROVE  RoomIsLeft'
<1> SUFFICES ASSUME pending'.id \notin adrift',
                    (\E p \in DOMAIN payments' : payments'[p].attempt = pending'.id)
                      \/ \E k \in wire' : k.attempt = pending'.id
             PROVE  ~OverCap'
  BY DEF RoomIsLeft, PaymentsOf
<1>1. pending'.id # 0
  BY AttemptsStay
<1>2. CASE pending'.id = pending.id
  <2>1. minted' = minted
    <3> SUFFICES ASSUME NEW e \in events, Deliver(e), e.kind = "succeeded", e.pi \notin minted
                 PROVE  FALSE
      BY MintedGrows
    <3>1. pending' = NoAttempt \/ pending.id = 0
      BY DEF Deliver, Settle
    <3> QED BY <1>1, <1>2, <3>1 DEF NoAttempt
  <2>2. pending.id \notin adrift
    BY <1>2, AttemptsStay
  <2>3. CASE PaymentsOf(pending.id) # {} \/ \E k \in wire : k.attempt = pending.id
    <3>1. ~OverCap
      BY <2>2, <2>3 DEF Going, UntilRestore, RoomIsLeft
    <3> QED BY <2>1, <3>1 DEF OverCap
  <2>4. CASE PaymentsOf(pending.id) = {} /\ ~\E k \in wire : k.attempt = pending.id
    <3>1. ~\E p \in DOMAIN payments' : payments'[p].attempt = pending.id
      <4> SUFFICES ASSUME NEW p \in DOMAIN payments', payments'[p].attempt = pending.id
                   PROVE  FALSE
        OBVIOUS
      <4>1. CASE p \in DOMAIN payments
        BY <2>4, <4>1, AttemptsStay DEF PaymentsOf
      <4>2. CASE p \notin DOMAIN payments
        BY <2>4, <4>2, AttemptsStay
      <4> QED BY <4>1, <4>2
    <3>2. PICK k \in wire' : k.attempt = pending.id
      BY <1>2, <3>1
    <3>3. k \notin wire
      BY <2>4, <3>2
    <3>4. PICK c \in Callers : Dispatch(c)
      BY <3>3, StepCases, LocalMoves, ReconciledMoves, ProviderMoves DEF Moves, Process, Going
    <3>5. ~OverCap
      BY <3>3, <3>4, Dispatched
    <3> QED BY <2>1, <3>5 DEF OverCap
  <2> QED BY <2>3, <2>4
<1>3. CASE pending'.id # pending.id
  BY <1>1, <1>3, PendingStep DEF OverCap
<1> QED BY <1>2, <1>3

-----------------------------------------------------------------------------
(* Counting                                                                *)

LEMMA PaymentsFinite ==
  ASSUME Sound
  PROVE  IsFiniteSet(DOMAIN payments) /\ IsFiniteSet(minted) /\ Cardinality(minted) \in Nat
<1>1. IsFiniteSet(DOMAIN payments)
  BY PaymentsTyped, FS_Interval
<1>2. IsFiniteSet(minted)
  BY <1>1, FS_Subset DEF Sound
<1> QED BY <1>1, <1>2, FS_CardinalityType

LEMMA MintedWithinCapStep ==
  ASSUME Going
  PROVE  MintedWithinCap'
<1> DEFINE before == {p \in minted : payments[p].attempt \notin adrift}
           after  == {p \in minted' : payments'[p].attempt \notin adrift'}
<1>1. Cardinality(before) <= CapPacks /\ IsFiniteSet(minted) /\ minted \subseteq DOMAIN payments
      /\ Cardinality(minted) \in Nat /\ CapPacks \in Nat
  BY PaymentsFinite, TopupAssumption DEF Going, UntilRestore, MintedWithinCap, Sound
<1>2. IsFiniteSet(before) /\ Cardinality(before) \in Nat
  BY <1>1, FS_Subset, FS_CardinalityType
<1>3. CASE after \subseteq before
  <2>1. Cardinality(after) <= Cardinality(before) /\ Cardinality(after) \in Nat
    BY <1>2, <1>3, FS_Subset, FS_CardinalityType
  <2> QED BY <1>1, <1>2, <2>1 DEF MintedWithinCap
<1>4. CASE minted' = minted
  <2>1. after \subseteq before
    BY <1>1, <1>4, AttemptsStay
  <2> QED BY <1>3, <2>1
<1>5. ASSUME NEW e \in events, Deliver(e), e.kind = "succeeded", e.pi \notin minted,
             minted' = minted \cup {e.pi}
      PROVE  MintedWithinCap'
  <2>1. e.pi \in DOMAIN payments /\ payments[e.pi].status = "succeeded"
        /\ payments' = payments /\ adrift' = adrift /\ payments[e.pi].attempt # 0
    BY <1>5, PaymentsTyped DEF Going, Sound, EventsSound, Deliver
  <2>2. CASE payments[e.pi].attempt \in adrift
    <3>1. after \subseteq before
      BY <1>5, <2>1, <2>2
    <3> QED BY <1>3, <3>1
  <2>3. CASE payments[e.pi].attempt \notin adrift
    <3>1. payments[e.pi].attempt = pending.id
      BY <1>5, <2>1, <2>3 DEF Going, UntilRestore, UnsettledIsPending
    <3>2. ~OverCap
      BY <2>1, <2>3, <3>1 DEF Going, UntilRestore, RoomIsLeft, PaymentsOf
    <3>3. Cardinality(minted) + 1 <= CapPacks
      BY <1>1, <3>2 DEF OverCap
    <3>4. Cardinality(minted') = Cardinality(minted) + 1 /\ IsFiniteSet(minted')
      BY <1>1, <1>5, FS_AddElement
    <3>5. Cardinality(after) <= Cardinality(minted') /\ Cardinality(after) \in Nat
      BY <3>4, FS_Subset, FS_CardinalityType
    <3> QED BY <1>1, <3>3, <3>4, <3>5 DEF MintedWithinCap
  <2> QED BY <2>2, <2>3
<1> QED BY <1>4, <1>5, MintedGrows

-----------------------------------------------------------------------------
(* Theorems                                                                *)

(* The inductive invariant: what is known is true, an attempt has one      *)
(* payment, and until a restore no attempt is given up while money may     *)
(* move for it.                                                            *)
THEOREM TopupInvariant == TopupSpec => []TopupIInv
<1>1. TopupInit => TopupIInv
  <2> SUFFICES ASSUME TopupInit
               PROVE  TopupIInv
    OBVIOUS
  <2>1. /\ payments = <<>> /\ wire = {} /\ minted = {} /\ adrift = {} /\ pending = NoAttempt
        /\ \A c \in Everyone : caller[c] = Idle
    BY DEF TopupInit, Everyone
  <2>2. DOMAIN payments = {} /\ Idle.pc = "idle" /\ NoAttempt.id = 0
    BY <2>1, IdleTyped DEF NoAttempt
  <2>3. SendersHold
    BY <2>1, <2>2 DEF SendersHold, Everyone
  <2>4. OwnersLooked
    BY <2>1, <2>2 DEF OwnersLooked, AtStep, Everyone
  <2>5. UnsettledIsPending /\ RoomIsLeft
    BY <2>1, <2>2 DEF UnsettledIsPending, RoomIsLeft, PaymentsOf
  <2>6. MintedWithinCap
    <3>1. {p \in minted : payments[p].attempt \notin adrift} = {}
      BY <2>1
    <3> QED BY <3>1, FS_EmptySet, TopupAssumption DEF MintedWithinCap
  <2> QED BY <2>3, <2>4, <2>5, <2>6, SoundInit DEF TopupIInv, UntilRestore
<1>2. TopupIInv /\ [TopupNext]_topupVars => TopupIInv'
  <2> SUFFICES ASSUME TopupIInv, [TopupNext]_topupVars
               PROVE  TopupIInv'
    OBVIOUS
  <2>1. Sound' /\ OnePaymentPerAttempt'
    BY SoundStep, OnePaymentStep DEF TopupIInv
  <2>2. CASE restored'
    BY <2>1, <2>2 DEF TopupIInv
  <2>3. CASE ~restored'
    <3>1. ~restored
      BY <2>3 DEF TopupNext, CallerStep, Operate, Prepare, Plan, Lookup, Retire, Retrieve, BindFound,
           Dispatch, Answer, GiveUp, Process, Move, Deliver, Scan, Find, Claim, ClearAbsent, Store, Read,
           RetireCanceled, CancelForgotten, Replay, Pass, Backup, Restore, RowOnly, topupVars
    <3>2. Going
      BY <2>3, <3>1 DEF TopupIInv, Going
    <3> QED BY SMTT(30), <2>1, <3>2, SendersHoldStep, OwnersLookedStep, UnsettledStep, RoomStep, MintedWithinCapStep
         DEF TopupIInv, UntilRestore
  <2> QED BY <2>2, <2>3
<1> QED BY <1>1, <1>2, PTL DEF TopupSpec

(* Whoever dispatches an attempt again, after whatever outcome, crash or   *)
(* restore, Stripe has one payment for it (the idempotency key without the *)
(* claim, and the window it is remembered); and until a restore a payment  *)
(* that may still be taken, or was and has no pack, is the pending         *)
(* attempt's, or its request outlived its sender.                          *)
THEOREM PaymentsTracked == TopupSpec => []PaymentsAreTracked
<1>1. TopupIInv => PaymentsAreTracked
  <2> SUFFICES ASSUME TopupIInv
               PROVE  PaymentsAreTracked
    OBVIOUS
  <2>1. TopupTypeOK
    <3>1. pending \in [id : 0..MaxAttempts, claim : Callers \cup {Operator, Nobody}, at : 0..MaxNow,
                       pi : 0..MaxPayments, status : Persistable \cup {"none"}]
      <4>1. Everyone \cup {Nobody} = Callers \cup {Operator, Nobody}
        BY DEF Everyone
      <4> QED BY <4>1 DEF TopupIInv, Sound, RowSound, RowsSpace
    <3>2. \A p \in DOMAIN payments : payments[p].status \in Statuses
      BY PaymentsTyped DEF TopupIInv, PaymentSpace
    <3> QED BY <3>1, <3>2 DEF TopupIInv, Sound, EventsSound, TopupTypeOK
  <2> QED BY <2>1 DEF TopupIInv, UntilRestore, UnsettledIsPending, PaymentsAreTracked
<1> QED BY <1>1, TopupInvariant, PTL

(* Until a restore, what can be charged stays within the owner's cap: room *)
(* for the pack is made in the transaction that asks for it and stays      *)
(* until the pack is minted (OverCap counts the pending charge).           *)
THEOREM ChargesCapped == TopupSpec => []ChargesWithinCap
<1>1. TopupIInv => ChargesWithinCap
  <2> SUFFICES ASSUME Sound, OnePaymentPerAttempt, UntilRestore, ~restored
               PROVE  ChargesWithinCap
    BY DEF TopupIInv, ChargesWithinCap
  <2> DEFINE paid  == {p \in minted : payments[p].attempt \notin adrift}
             taken == {p \in DOMAIN payments :
                         payments[p].status # "canceled" /\ payments[p].attempt \notin adrift}
  <2>1. /\ Cardinality(paid) <= CapPacks /\ IsFiniteSet(minted) /\ Cardinality(minted) \in Nat
        /\ CapPacks \in Nat
    BY PaymentsFinite, TopupAssumption DEF UntilRestore, MintedWithinCap
  <2>2. ASSUME NEW S, taken \subseteq S, IsFiniteSet(S), Cardinality(S) <= CapPacks
        PROVE  Cardinality(taken) <= CapPacks
    <3>1. Cardinality(taken) <= Cardinality(S) /\ Cardinality(taken) \in Nat /\ Cardinality(S) \in Nat
      BY <2>2, FS_Subset, FS_CardinalityType
    <3> QED BY <2>1, <2>2, <3>1
  <2>3. CASE taken \subseteq paid
    <3>1. IsFiniteSet(paid)
      BY <2>1, FS_Subset
    <3> QED BY <2>1, <2>2, <2>3, <3>1 DEF ChargesWithinCap
  <2>4. ASSUME NEW q \in taken, q \notin paid
        PROVE  Cardinality(taken) <= CapPacks
    <3>1. q \notin minted /\ payments[q].attempt = pending.id /\ pending.id \notin adrift
      BY <2>4 DEF UntilRestore, UnsettledIsPending
    <3>2. ~OverCap
      BY <2>4, <3>1 DEF UntilRestore, RoomIsLeft, PaymentsOf
    <3>3. Cardinality(minted \cup {q}) = Cardinality(minted) + 1 /\ IsFiniteSet(minted \cup {q})
      BY <2>1, <3>1, FS_AddElement
    <3>4. taken \subseteq minted \cup {q}
      BY <2>4, <3>1 DEF UntilRestore, UnsettledIsPending, OnePaymentPerAttempt
    <3>5. Cardinality(minted \cup {q}) <= CapPacks
      BY <2>1, <3>2, <3>3 DEF OverCap
    <3> QED BY <2>2, <3>3, <3>4, <3>5
  <2> QED BY <2>3, <2>4 DEF ChargesWithinCap
<1> QED BY <1>1, TopupInvariant, PTL


-----------------------------------------------------------------------------
(* The cutover from the old binary                                         *)

CallSpace   == [pc : {"idle", "read", "sent"}, since : Nat]
ChargeSpace == [born : Nat, status : {"open", "processing", "succeeded", "canceled"}]

(* A call that left is not older than its window, and none leaves after    *)
(* the fleet has stopped.                                                  *)
CallsEnd ==
  /\ oldCall \in [OldCalls -> CallSpace] /\ alive \in BOOLEAN /\ fenced \in BOOLEAN
  /\ rollout \in [state : {"expanded", "draining", "active"}, revision : Nat, drained : Nat]
  /\ rollout.drained <= ticks
  /\ fenced => ~alive
  /\ \A o \in OldCalls :
       /\ ~alive => oldCall[o].pc # "read"
       /\ oldCall[o].pc = "sent" => /\ oldCall[o].since <= ticks
                                    /\ ticks <= oldCall[o].since + Window
                                    /\ fenced => oldCall[o].since <= rollout.drained

AllSettled ==
  /\ \A o \in OldCalls : oldCall[o].pc # "sent"
  /\ \A p \in DOMAIN charges :
       \/ charges[p].status = "canceled"
       \/ charges[p].status = "succeeded" /\ p \in credited

(* What a clear report of this drain says, if the fleet had stopped, stays *)
(* true, and there is no activation without one.                           *)
ReportHolds ==
  /\ charges \in Seq(ChargeSpace)
  /\ report.revision \in Nat /\ report.revision <= rollout.revision
  /\ fenced /\ report.clear /\ report.revision = rollout.revision => AllSettled
  /\ fenced /\ rollout.state = "active" => AllSettled

(* The old bit and the wish written down are the owner's while there is a  *)
(* cap, and nothing is armed before the activation.                        *)
WishKept ==
  /\ wish \in BOOLEAN
  /\ optin.v1 => rollout.state = "active"
  /\ (optin.rearm \/ optin.legacy) /\ optin.cap => wish
  /\ ArmedAsAsked

RolloutIInv == RolloutTypeOK /\ CallsEnd /\ ReportHolds /\ WishKept

LEMMA OptinTyped ==
  \A a, b, c, d \in BOOLEAN :
    [legacy |-> a, v1 |-> b, rearm |-> c, cap |-> d] \in [{"legacy", "v1", "rearm", "cap"} -> BOOLEAN]
OBVIOUS

LEMMA RolloutTypeStep ==
  ASSUME RolloutIInv, [RolloutNext]_rolloutVars
  PROVE  RolloutTypeOK' /\ DOMAIN charges \subseteq DOMAIN charges'
<1>1. /\ RolloutTypeOK /\ charges \in Seq(ChargeSpace) /\ Len(charges) \in Nat
      /\ DOMAIN charges = 1..Len(charges) /\ optin \in [{"legacy", "v1", "rearm", "cap"} -> BOOLEAN]
      /\ ticks \in 0..MaxTicks /\ cutover \in Never..MaxTicks /\ MaxTicks \in Nat
      /\ rollout.revision \in 0..MaxRevision /\ MaxRevision \in Nat /\ MaxRevision >= 1
  BY RolloutAssumption, LenProperties DEF RolloutIInv, ReportHolds, RolloutTypeOK
<1>2. /\ rollout'.state \in {"expanded", "draining", "active"} /\ rollout'.revision \in 0..MaxRevision
      /\ (rollout'.state = "expanded") = (rollout'.revision = 0)
  <2>1. CASE BeginDrain \/ RestartDrain
    BY <1>1, <2>1 DEF BeginDrain, RestartDrain, Fence, RolloutTypeOK
  <2>2. CASE Activate
    BY <1>1, <2>2 DEF Activate, RolloutTypeOK, RolloutIInv, CallsEnd
  <2>3. CASE ~BeginDrain /\ ~RestartDrain /\ ~Activate
    <3>1. rollout' = rollout
      BY <2>3 DEF RolloutNext, OldSet, OldRead, OldSend, Arrive, StopFleet, MoveLegacy, SettleLegacy,
           ReplayLegacy, Audit, SetAutoTopup, Die, Live, Tick, rolloutVars
    <3> QED BY <1>1, <3>1 DEF RolloutTypeOK
  <2> QED BY <2>1, <2>2, <2>3
<1>3. optin' \in [{"legacy", "v1", "rearm", "cap"} -> BOOLEAN]
  <2>1. CASE \E on \in BOOLEAN : OldSet(on) \/ SetAutoTopup(on)
    <3>1. PICK on \in BOOLEAN : OldSet(on) \/ SetAutoTopup(on)
      BY <2>1
    <3>2. CASE OldSet(on)
      BY <1>1, <3>2 DEF OldSet
    <3>3. CASE SetAutoTopup(on)
      <4> DEFINE armed  == on /\ rollout.state = "active"
                 wished == on /\ ~(rollout.state = "active")
      <4>1. optin' = [legacy |-> FALSE, v1 |-> armed, rearm |-> wished, cap |-> on]
        BY <3>3 DEF SetAutoTopup
      <4>2. armed \in BOOLEAN /\ wished \in BOOLEAN
        OBVIOUS
      <4> HIDE DEF armed, wished
      <4> QED BY <4>1, <4>2, OptinTyped
    <3> QED BY <3>1, <3>2, <3>3
  <2>2. CASE BeginDrain
    <3>1. optin.rearm \in BOOLEAN /\ optin.legacy \in BOOLEAN
      BY <1>1
    <3>2. optin' = [optin EXCEPT !.rearm = optin.rearm \/ optin.legacy, !.legacy = FALSE, !.v1 = FALSE]
      BY <2>2 DEF BeginDrain
    <3>3. (optin.rearm \/ optin.legacy) \in BOOLEAN
      OBVIOUS
    <3> QED BY <1>1, <3>2, <3>3
  <2>3. CASE Activate
    <3>1. Rearms \in BOOLEAN
      BY DEF Rearms
    <3>2. optin' = [optin EXCEPT !.legacy = FALSE, !.v1 = Rearms, !.rearm = FALSE]
      BY <2>3 DEF Activate
    <3> QED BY <1>1, <3>1, <3>2
  <2>4. CASE Die
    <3>1. Disarmed \in [{"legacy", "v1", "rearm", "cap"} -> BOOLEAN]
      BY OptinTyped DEF Disarmed
    <3> QED BY <2>4, <3>1 DEF Die
  <2>5. CASE UNCHANGED optin
    BY <1>1, <2>5
  <2> QED BY <2>1, <2>2, <2>3, <2>4, <2>5 DEF RolloutNext, OldRead, OldSend, Arrive, StopFleet, MoveLegacy,
       SettleLegacy, ReplayLegacy, RestartDrain, Audit, Live, Tick, rolloutVars
<1>4. DOMAIN charges \subseteq DOMAIN charges'
  <2>1. CASE \E o \in OldCalls : Arrive(o)
    <3>1. PICK c : charges' = Append(charges, c)
      BY <2>1 DEF Arrive
    <3>2. DOMAIN charges' = 1..(Len(charges) + 1)
      <4>1. charges \in Seq(ChargeSpace \cup {c}) /\ c \in ChargeSpace \cup {c}
        BY <1>1
      <4> QED BY <3>1, <4>1, AppendProperties, LenProperties
    <3> QED BY <1>1, <3>2
  <2>2. CASE \E p \in DOMAIN charges : MoveLegacy(p)
    BY <2>2 DEF MoveLegacy
  <2>3. CASE charges' = charges
    BY <2>3
  <2> QED BY <2>1, <2>2, <2>3 DEF RolloutNext, OldSet, OldRead, OldSend, StopFleet, SettleLegacy,
       ReplayLegacy, BeginDrain, RestartDrain, Fence, Audit, Activate, SetAutoTopup, Die, Live, Tick, rolloutVars
<1>5. credited' \subseteq DOMAIN charges'
  <2>1. CASE \E p \in DOMAIN charges : SettleLegacy(p)
    BY <1>1, <1>4, <2>1 DEF SettleLegacy, RolloutTypeOK
  <2>2. CASE credited' = credited
    BY <1>1, <1>4, <2>2 DEF RolloutTypeOK
  <2> QED BY <2>1, <2>2 DEF RolloutNext, OldSet, OldRead, OldSend, Arrive, StopFleet, MoveLegacy, ReplayLegacy,
       BeginDrain, RestartDrain, Fence, Audit, Activate, SetAutoTopup, Die, Live, Tick, rolloutVars
<1>6. cutover' \in Never..MaxTicks
  <2>1. cutover' = cutover \/ cutover' = ticks
    BY DEF RolloutNext, OldSet, OldRead, OldSend, Arrive, StopFleet, MoveLegacy, SettleLegacy, ReplayLegacy,
       BeginDrain, RestartDrain, Fence, Audit, Activate, SetAutoTopup, Die, Live, Tick, rolloutVars
  <2> QED BY <1>1, <2>1 DEF Never
<1>7. ticks' \in 0..MaxTicks
  <2>1. ticks' = ticks \/ (ticks < MaxTicks /\ ticks' = ticks + 1)
    BY DEF RolloutNext, OldSet, OldRead, OldSend, Arrive, StopFleet, MoveLegacy, SettleLegacy, ReplayLegacy,
       BeginDrain, RestartDrain, Fence, Audit, Activate, SetAutoTopup, Die, Live, Tick, rolloutVars
  <2> QED BY <1>1, <2>1
<1> QED BY <1>2, <1>3, <1>4, <1>5, <1>6, <1>7 DEF RolloutTypeOK


LEMMA CallsEndStep ==
  ASSUME RolloutIInv, [RolloutNext]_rolloutVars
  PROVE  CallsEnd'
<1>1. /\ oldCall \in [OldCalls -> CallSpace] /\ alive \in BOOLEAN /\ fenced \in BOOLEAN
      /\ rollout \in [state : {"expanded", "draining", "active"}, revision : Nat, drained : Nat]
      /\ rollout.drained <= ticks /\ ticks \in Nat /\ ticks' \in Nat /\ Window \in Nat
      /\ rollout.revision \in Nat /\ rollout.drained \in Nat
      /\ fenced => ~alive
  BY RolloutTypeStep, RolloutAssumption DEF RolloutIInv, CallsEnd, RolloutTypeOK
<1>2. \A o \in OldCalls : /\ ~alive => oldCall[o].pc # "read"
                          /\ oldCall[o].pc = "sent" => /\ oldCall[o].since <= ticks
                                                       /\ ticks <= oldCall[o].since + Window
                                                       /\ fenced => oldCall[o].since <= rollout.drained
  BY DEF RolloutIInv, CallsEnd
<1>3. Parked \in CallSpace /\ Parked.pc = "idle"
  BY DEF Parked, CallSpace
<1>4. ASSUME NEW o \in OldCalls, OldRead(o) \/ OldSend(o) \/ Arrive(o)
      PROVE  CallsEnd'
  <2>1. UNCHANGED <<alive, fenced, rollout, ticks>>
    BY <1>4 DEF OldRead, OldSend, Arrive
  <2>2. PICK k \in CallSpace : /\ oldCall' = [oldCall EXCEPT ![o] = k]
                               /\ k.pc = "read" => alive
                               /\ k.pc = "sent" => k.since = ticks /\ alive
    <3>1. CASE OldRead(o)
      <4> DEFINE k == [oldCall[o] EXCEPT !.pc = "read"]
      <4>1. k \in CallSpace /\ k.pc = "read"
        BY <1>1 DEF CallSpace
      <4>2. oldCall' = [oldCall EXCEPT ![o] = k] /\ alive
        BY <3>1 DEF OldRead
      <4> QED BY <4>1, <4>2
    <3>2. CASE OldSend(o)
      <4> DEFINE k == [pc |-> "sent", since |-> ticks]
      <4>1. k \in CallSpace /\ k.pc = "sent" /\ k.since = ticks
        BY <1>1 DEF CallSpace
      <4>2. oldCall' = [oldCall EXCEPT ![o] = k] /\ alive
        BY <3>2 DEF OldSend
      <4> QED BY <4>1, <4>2
    <3>3. CASE Arrive(o)
      BY <1>3, <3>3 DEF Arrive
    <3> QED BY <1>4, <3>1, <3>2, <3>3
  <2>3. oldCall' \in [OldCalls -> CallSpace] /\ \A q \in OldCalls : oldCall'[q] = IF q = o THEN k ELSE oldCall[q]
    BY <1>1, <2>2
  <2>4. k.since = ticks => ticks <= k.since + Window /\ k.since <= ticks
    BY <1>1
  <2> QED BY <1>1, <1>2, <2>1, <2>2, <2>3, <2>4 DEF CallsEnd
<1>5. CASE StopFleet
  <2>1. UNCHANGED <<fenced, rollout, ticks>> /\ alive' = FALSE
        /\ oldCall' = [o \in OldCalls |-> IF oldCall[o].pc = "read" THEN Parked ELSE oldCall[o]]
    BY <1>5 DEF StopFleet
  <2>2. oldCall' \in [OldCalls -> CallSpace]
        /\ \A o \in OldCalls : oldCall'[o] = IF oldCall[o].pc = "read" THEN Parked ELSE oldCall[o]
    BY <1>1, <1>3, <2>1
  <2> QED BY <1>1, <1>2, <1>3, <2>1, <2>2 DEF CallsEnd
<1>6. CASE BeginDrain \/ RestartDrain
  <2>1. PICK n \in Nat : /\ rollout' = [state |-> "draining", revision |-> n, drained |-> ticks]
                         /\ UNCHANGED <<alive, oldCall, ticks>> /\ fenced' = ~alive
    BY <1>1, <1>6 DEF BeginDrain, RestartDrain, Fence
  <2>2. \A o \in OldCalls : oldCall[o].pc = "sent" => oldCall[o].since <= ticks
    BY <1>2
  <2>3. rollout' \in [state : {"expanded", "draining", "active"}, revision : Nat, drained : Nat]
        /\ rollout'.drained = ticks
    BY <1>1, <2>1
  <2> QED BY <1>1, <1>2, <2>1, <2>2, <2>3 DEF CallsEnd
<1>7. CASE Activate
  <2>1. rollout' = [rollout EXCEPT !.state = "active"] /\ UNCHANGED <<alive, oldCall, ticks, fenced>>
    BY <1>7 DEF Activate
  <2>2. rollout' \in [state : {"expanded", "draining", "active"}, revision : Nat, drained : Nat]
        /\ rollout'.drained = rollout.drained
    BY <1>1, <2>1
  <2> QED BY <1>1, <1>2, <2>1, <2>2 DEF CallsEnd
<1>8. CASE Tick
  <2>1. UNCHANGED <<alive, oldCall, fenced, rollout>> /\ ticks' = ticks + 1
        /\ \A o \in OldCalls : oldCall[o].pc = "sent" => ticks < oldCall[o].since + Window
    BY <1>8 DEF Tick
  <2>2. \A o \in OldCalls : oldCall[o].pc = "sent" =>
           oldCall[o].since <= ticks' /\ ticks' <= oldCall[o].since + Window
    <3> SUFFICES ASSUME NEW o \in OldCalls, oldCall[o].pc = "sent"
                 PROVE  oldCall[o].since <= ticks' /\ ticks' <= oldCall[o].since + Window
      OBVIOUS
    <3>1. oldCall[o].since \in Nat /\ oldCall[o].since <= ticks /\ ticks < oldCall[o].since + Window
      BY <1>1, <1>2, <2>1 DEF CallSpace
    <3> QED BY <1>1, <2>1, <3>1
  <2>3. rollout.drained <= ticks'
    BY <1>1, <2>1
  <2> QED BY <1>1, <1>2, <2>1, <2>2, <2>3 DEF CallsEnd
<1>9. CASE UNCHANGED <<alive, oldCall, fenced, rollout, ticks>>
  BY <1>1, <1>2, <1>9 DEF CallsEnd
<1> QED BY <1>4, <1>5, <1>6, <1>7, <1>8, <1>9 DEF RolloutNext, OldSet, MoveLegacy, SettleLegacy, ReplayLegacy,
     Audit, SetAutoTopup, Die, Live, rolloutVars


LEMMA ChargesStep ==
  ASSUME RolloutIInv, [RolloutNext]_rolloutVars
  PROVE  /\ charges' \in Seq(ChargeSpace) /\ credited \subseteq credited'
         /\ \/ charges' = charges
            \/ \E o \in OldCalls : Arrive(o)
            \/ \E p \in DOMAIN charges, s \in {"succeeded", "canceled"} :
                 /\ charges[p].status \in {"open", "processing"}
                 /\ charges' = [charges EXCEPT ![p].status = s]
<1>1. /\ charges \in Seq(ChargeSpace) /\ Len(charges) \in Nat /\ DOMAIN charges = 1..Len(charges)
      /\ ticks \in Nat
  BY LenProperties, RolloutAssumption DEF RolloutIInv, ReportHolds, RolloutTypeOK
<1>2. ASSUME NEW o \in OldCalls, Arrive(o)
      PROVE  charges' \in Seq(ChargeSpace)
  <2>1. PICK s \in {"open", "processing", "succeeded"} :
           charges' = Append(charges, [born |-> ticks, status |-> s])
    BY <1>2 DEF Arrive
  <2>2. [born |-> ticks, status |-> s] \in ChargeSpace
    BY <1>1 DEF ChargeSpace
  <2> QED BY <1>1, <2>1, <2>2, AppendProperties
<1>3. ASSUME NEW p \in DOMAIN charges, NEW s \in {"succeeded", "canceled"},
             charges' = [charges EXCEPT ![p].status = s]
      PROVE  charges' \in Seq(ChargeSpace)
  <2>1. charges[p] \in ChargeSpace
    BY <1>1, ElementOfSeq
  <2>2. [charges[p] EXCEPT !.status = s] \in ChargeSpace
    BY <2>1 DEF ChargeSpace
  <2> QED BY <1>1, <1>3, <2>2, ExceptSeq
<1>4. CASE \E p \in DOMAIN charges : MoveLegacy(p)
  <2>1. PICK p \in DOMAIN charges, s \in {"succeeded", "canceled"} :
           /\ charges[p].status \in {"open", "processing"}
           /\ charges' = [charges EXCEPT ![p].status = s]
    BY <1>4 DEF MoveLegacy
  <2>2. credited' = credited
    BY <1>4 DEF MoveLegacy
  <2> QED BY <1>3, <2>1, <2>2
<1>5. CASE \E o \in OldCalls : Arrive(o)
  BY <1>2, <1>5 DEF Arrive
<1>6. CASE charges' = charges /\ credited \subseteq credited'
  BY <1>1, <1>6
<1> QED BY <1>4, <1>5, <1>6 DEF RolloutNext, OldSet, OldRead, OldSend, StopFleet, SettleLegacy, ReplayLegacy,
     BeginDrain, RestartDrain, Fence, Audit, Activate, SetAutoTopup, Die, Live, Tick, rolloutVars

(* Once the fleet has stopped nothing is added to what is settled.         *)
LEMMA SettledStays ==
  ASSUME RolloutIInv, [RolloutNext]_rolloutVars, ~alive, AllSettled
  PROVE  AllSettled'
<1>1. /\ oldCall \in [OldCalls -> CallSpace] /\ \A o \in OldCalls : oldCall[o].pc = "idle"
      /\ Parked.pc = "idle"
  BY DEF RolloutIInv, CallsEnd, AllSettled, CallSpace, Parked
<1>2. \A o \in OldCalls : ~OldRead(o) /\ ~OldSend(o) /\ ~Arrive(o)
  BY <1>1 DEF OldRead, OldSend, Arrive
<1>3. oldCall' = oldCall
  BY <1>2 DEF RolloutNext, OldSet, MoveLegacy, SettleLegacy, ReplayLegacy, StopFleet, BeginDrain, RestartDrain,
     Fence, Audit, Activate, SetAutoTopup, Die, Live, Tick, rolloutVars
<1>4. charges' = charges
  BY <1>2, ChargesStep DEF AllSettled
<1> QED BY <1>3, <1>4, ChargesStep DEF AllSettled

(* A clear report, after the wait, of a drain that began when the fleet    *)
(* had stopped.                                                            *)
LEMMA ClearIsSettled ==
  ASSUME RolloutIInv, Audit, report'.clear, fenced
  PROVE  AllSettled
<1>1. ASSUME NEW o \in OldCalls, oldCall[o].pc = "sent"
      PROVE  FALSE
  <2>1. /\ oldCall[o].since <= rollout.drained /\ ticks <= oldCall[o].since + Window
        /\ oldCall[o] \in CallSpace /\ rollout.drained \in Nat
    BY <1>1 DEF RolloutIInv, CallsEnd
  <2>2. oldCall[o].since \in Nat /\ ticks \in Nat /\ ticks - rollout.drained >= Quiescence
    BY <2>1 DEF CallSpace, RolloutIInv, RolloutTypeOK, Audit, Auditable
  <2> QED BY <2>1, <2>2, RolloutAssumption
<1>2. ASSUME NEW p \in DOMAIN charges
      PROVE  charges[p].status = "canceled" \/ (charges[p].status = "succeeded" /\ p \in credited)
  <2>1. ~Blocks(p)
    BY <1>2 DEF Audit
  <2>2. charges[p] \in ChargeSpace
    BY ElementOfSeq, LenProperties DEF RolloutIInv, ReportHolds
  <2> QED BY <2>1, <2>2 DEF Blocks, ChargeSpace
<1> QED BY <1>1, <1>2 DEF AllSettled

LEMMA ReportHoldsStep ==
  ASSUME RolloutIInv, [RolloutNext]_rolloutVars
  PROVE  ReportHolds'
<1>1. /\ report.revision \in Nat /\ rollout.revision \in Nat /\ report.revision <= rollout.revision
      /\ fenced \in BOOLEAN /\ alive \in BOOLEAN /\ (fenced => ~alive)
      /\ fenced /\ report.clear /\ report.revision = rollout.revision => AllSettled
      /\ fenced /\ rollout.state = "active" => AllSettled
      /\ charges' \in Seq(ChargeSpace)
  BY ChargesStep DEF RolloutIInv, ReportHolds, CallsEnd
<1>2. fenced /\ AllSettled => AllSettled'
  BY <1>1, SettledStays
<1>3. CASE BeginDrain \/ RestartDrain
  <2>1. /\ rollout'.revision = rollout.revision + 1 /\ rollout'.state = "draining" /\ report' = report
    <3>1. CASE BeginDrain
      <4>1. rollout.revision = 0
        BY <3>1 DEF RolloutIInv, RolloutTypeOK, BeginDrain
      <4>2. rollout' = [state |-> "draining", revision |-> 1, drained |-> ticks] /\ report' = report
        BY <3>1 DEF BeginDrain, Fence
      <4> QED BY <4>1, <4>2
    <3>2. CASE RestartDrain
      BY <3>2 DEF RestartDrain, Fence
    <3> QED BY <1>3, <3>1, <3>2
  <2> QED BY <1>1, <2>1 DEF ReportHolds
<1>4. CASE Audit
  <2>1. UNCHANGED <<rollout, fenced, oldCall, charges, credited>> /\ report'.revision = rollout.revision
        /\ rollout.state = "draining"
    BY <1>4 DEF Audit, Auditable
  <2>2. fenced /\ report'.clear => AllSettled'
    BY <1>2, <1>4, ClearIsSettled
  <2> QED BY <1>1, <2>1, <2>2 DEF ReportHolds
<1>5. CASE Activate
  <2>1. rollout' = [rollout EXCEPT !.state = "active"] /\ UNCHANGED <<fenced, report>>
        /\ report.clear /\ report.revision = rollout.revision
    BY <1>5 DEF Activate, Stands
  <2>2. rollout'.revision = rollout.revision
    BY <2>1 DEF RolloutIInv, CallsEnd
  <2> QED BY <1>1, <1>2, <2>1, <2>2 DEF ReportHolds
<1>6. CASE UNCHANGED <<rollout, fenced, report>>
  BY <1>1, <1>2, <1>6 DEF ReportHolds
<1> QED BY <1>3, <1>4, <1>5, <1>6 DEF RolloutNext, OldSet, OldRead, OldSend, Arrive, StopFleet, MoveLegacy,
     SettleLegacy, ReplayLegacy, SetAutoTopup, Die, Live, Tick, rolloutVars

LEMMA WishKeptStep ==
  ASSUME RolloutIInv, [RolloutNext]_rolloutVars
  PROVE  WishKept'
<1>1. /\ optin \in [{"legacy", "v1", "rearm", "cap"} -> BOOLEAN]
      /\ fenced => ~alive
      /\ rollout.state \in {"expanded", "draining", "active"}
  BY DEF RolloutIInv, RolloutTypeOK, CallsEnd
<1>2. /\ wish \in BOOLEAN /\ (optin.v1 => rollout.state = "active")
      /\ (optin.rearm \/ optin.legacy) /\ optin.cap => wish
      /\ optin.v1 /\ (optin.cap \/ fenced) => wish
  BY DEF RolloutIInv, WishKept, ArmedAsAsked
<1>3. ASSUME NEW on \in BOOLEAN, OldSet(on)
      PROVE  WishKept'
  <2>1. /\ optin'.legacy = on /\ optin'.cap = on /\ optin'.v1 = optin.v1 /\ optin'.rearm = optin.rearm
        /\ wish' = on /\ UNCHANGED <<rollout, fenced>> /\ alive
    BY <1>1, <1>3 DEF OldSet
  <2> QED BY <1>1, <1>2, <2>1 DEF WishKept, ArmedAsAsked
<1>4. ASSUME NEW on \in BOOLEAN, SetAutoTopup(on)
      PROVE  WishKept'
  <2>1. /\ optin'.legacy = FALSE /\ optin'.v1 = (on /\ rollout.state = "active")
        /\ optin'.rearm = (on /\ ~(rollout.state = "active")) /\ wish' = on /\ UNCHANGED rollout
    BY <1>4 DEF SetAutoTopup
  <2> QED BY <2>1 DEF WishKept, ArmedAsAsked
<1>5. CASE Die
  BY <1>5 DEF Die, Disarmed, WishKept, ArmedAsAsked
<1>6. CASE BeginDrain
  <2>1. optin' = [optin EXCEPT !.rearm = optin.rearm \/ optin.legacy, !.legacy = FALSE, !.v1 = FALSE]
        /\ wish' = wish
    BY <1>6 DEF BeginDrain, Fence
  <2>2. optin'.v1 = FALSE /\ optin'.legacy = FALSE /\ optin'.rearm = (optin.rearm \/ optin.legacy)
        /\ optin'.cap = optin.cap
    BY <1>1, <2>1
  <2> QED BY <1>2, <2>1, <2>2 DEF WishKept, ArmedAsAsked
<1>7. CASE RestartDrain
  <2>1. ~optin.v1
    BY <1>2, <1>7 DEF RestartDrain
  <2> QED BY <1>2, <1>7, <2>1 DEF RestartDrain, Fence, WishKept, ArmedAsAsked
<1>8. CASE Activate
  <2>1. optin' = [optin EXCEPT !.legacy = FALSE, !.v1 = Rearms, !.rearm = FALSE]
        /\ rollout' = [rollout EXCEPT !.state = "active"] /\ UNCHANGED <<fenced, wish>>
    BY <1>8 DEF Activate
  <2>2. optin'.legacy = FALSE /\ optin'.v1 = Rearms /\ optin'.rearm = FALSE /\ optin'.cap = optin.cap
    BY <1>1, <2>1
  <2>3. rollout'.state = "active"
    BY <2>1 DEF RolloutIInv, CallsEnd
  <2>4. Rearms => wish
    BY <1>2 DEF Rearms
  <2> QED BY <1>2, <2>1, <2>2, <2>3, <2>4 DEF WishKept, ArmedAsAsked
<1>9. CASE UNCHANGED <<optin, rollout, fenced, wish>>
  BY <1>2, <1>9 DEF WishKept, ArmedAsAsked
<1> QED BY <1>3, <1>4, <1>5, <1>6, <1>7, <1>8, <1>9 DEF RolloutNext, OldRead, OldSend, Arrive, StopFleet,
     MoveLegacy, SettleLegacy, ReplayLegacy, Audit, Live, Tick, rolloutVars

(* Activated after a drain that began when the old fleet had stopped, no   *)
(* charge of the old binary is under way, unfinished or without its pack   *)
(* (STRIPE_MAX_CALL_WINDOW_MS is shorter than the wait before the audit),  *)
(* and what is armed is what the owner last asked for.                     *)
THEOREM CutoverSafe == RolloutSpec => []CutoverIsSafe
<1>1. RolloutInit => RolloutIInv
  <2> SUFFICES ASSUME RolloutInit
               PROVE  RolloutIInv
    OBVIOUS
  <2>1. rollout = [state |-> "expanded", revision |-> 0, drained |-> 0] /\ optin = Disarmed
        /\ charges = <<>> /\ credited = {} /\ cutover = Never /\ report = NoReport /\ ticks = 0
        /\ oldCall = [o \in OldCalls |-> Parked]
    BY DEF RolloutInit
  <2>2. alive = TRUE /\ wish = FALSE /\ fenced = FALSE
    BY DEF RolloutInit
  <2>3. Disarmed \in [{"legacy", "v1", "rearm", "cap"} -> BOOLEAN]
    BY OptinTyped DEF Disarmed
  <2>4. RolloutTypeOK
    BY <2>1, <2>3, RolloutAssumption DEF RolloutTypeOK, Never
  <2>5. CallsEnd
    <3>1. Parked \in CallSpace /\ Parked.pc = "idle"
      BY DEF Parked, CallSpace
    <3>2. oldCall \in [OldCalls -> CallSpace] /\ \A o \in OldCalls : oldCall[o].pc = "idle"
      BY <2>1, <3>1
    <3>3. rollout \in [state : {"expanded", "draining", "active"}, revision : Nat, drained : Nat]
          /\ rollout.drained <= ticks
      BY <2>1
    <3>4. alive \in BOOLEAN /\ fenced \in BOOLEAN /\ (fenced => ~alive)
      BY <2>2
    <3>5. \A o \in OldCalls : oldCall[o].pc # "sent" /\ oldCall[o].pc # "read"
      BY <3>2
    <3> QED BY <3>2, <3>3, <3>4, <3>5 DEF CallsEnd
  <2>6. ReportHolds
    BY <2>1, <2>2 DEF ReportHolds, NoReport
  <2>7. WishKept
    <3>1. ~optin.v1 /\ ~optin.rearm /\ ~optin.legacy
      BY <2>1 DEF Disarmed
    <3>2. wish \in BOOLEAN
      BY <2>2
    <3> QED BY <3>1, <3>2 DEF WishKept, ArmedAsAsked
  <2> QED BY <2>4, <2>5, <2>6, <2>7 DEF RolloutIInv
<1>2. RolloutIInv /\ [RolloutNext]_rolloutVars => RolloutIInv'
  BY RolloutTypeStep, CallsEndStep, ReportHoldsStep, WishKeptStep DEF RolloutIInv
<1>3. RolloutIInv => CutoverIsSafe
  BY DEF RolloutIInv, ReportHolds, AllSettled, WishKept, NoChargeLeftBehind, CutoverIsSafe
<1> QED BY <1>1, <1>2, <1>3, PTL DEF RolloutSpec
=============================================================================
