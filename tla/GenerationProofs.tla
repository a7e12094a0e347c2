-------------------------- MODULE GenerationProofs --------------------------
(***************************************************************************)
(* The metered generation pipeline for any number of callers, attempts and *)
(* slots, whatever crashes, fails or is repeated: an attempt's vendor run  *)
(* is unique, its charge stands with its generation, no settlement         *)
(* overdraws, and the pipeline implements the contract.                    *)
(***************************************************************************)
EXTENDS WorkspaceRuns, FiniteSetTheorems, TLAPS

(* Once an attempt reached the vendor its row never looks unused again.    *)
RunInv == \A a \in Attempts : vendorRuns[a] # {} => rows[a].state \notin {"none", "claimed"}

IInv ==
  /\ TypeOK
  /\ RunInv
  /\ OneVendorRun
  /\ ChargedForWhatExists
  /\ NoOverdraft

States == Live \cup Terminal \cup {"none"}

RowSpace == [state : States,
             input : {InputOf[c] : c \in Callers} \cup {0},
             brain : 0..MaxBrain,
             age   : 0..Horizon]

-----------------------------------------------------------------------------
(* Types                                                                   *)

LEMMA HorizonNat == Horizon \in Nat \ {0}
BY GenerationAssumption DEF Horizon, StartedLimit

LEMMA InitTypeOK == Init => TypeOK
<1> SUFFICES ASSUME Init PROVE TypeOK
  OBVIOUS
<1>1. NoRow \in RowSpace
  BY HorizonNat, GenerationAssumption DEF NoRow, RowSpace, States
<1>2. rows \in [Attempts -> RowSpace]
  BY <1>1 DEF Init
<1>3. SlotTypeOK
  BY SlotAssumption DEF Init, SlotInit, SlotTypeOK
<1>4. /\ made \in [Attempts -> Nat] /\ charged \in [Attempts -> Nat]
      /\ vendorRuns \in [Attempts -> SUBSET Callers] /\ uncharged \subseteq Attempts
      /\ balance \in Int /\ price \in Prices /\ brain \in 0..MaxBrain
  BY GenerationAssumption DEF Init
<1>5. paused \in BOOLEAN
  BY DEF Init
<1>6. /\ pc \in [Callers -> {"pause"}] /\ result \in [Callers -> {"none"}]
      /\ call \in [Callers -> 0..3] /\ waited \in [Callers -> 0..Deadline]
      /\ seen \in [Callers -> 0..MaxBrain]
  BY GenerationAssumption DEF Init
<1> QED BY <1>2, <1>3, <1>4, <1>6, <1>5 DEF TypeOK, RowSpace, States, Places, Results

LEMMA MovedType ==
  ASSUME TypeOK, NEW r \in RowSpace, NEW s \in States
  PROVE  Moved(r, s) \in RowSpace
BY HorizonNat DEF Moved, RowSpace

LEMMA SetStateType ==
  ASSUME TypeOK, NEW c \in Callers, NEW s \in States, SetState(AttemptOf[c], s)
  PROVE  rows' \in [Attempts -> RowSpace]
<1>1. rows \in [Attempts -> RowSpace]
  BY DEF TypeOK, RowSpace, States
<1>2. Moved(rows[AttemptOf[c]], s) \in RowSpace
  BY <1>1, GenerationAssumption, MovedType
<1> QED BY <1>1, <1>2 DEF SetState

(* The gates, the slot and the brain: nothing but the caller moves on.     *)
LEMMA TypeBefore ==
  ASSUME TypeOK, NEW c \in Callers,
         CheckPause(c) \/ CheckCap(c) \/ CheckFunds(c) \/ AcquireSlot(c) \/ ReadBrain(c)
         \/ Release(c)
  PROVE  TypeOK'
<1> USE DEF TypeOK, SlotTypeOK, Places, Results, At, TurnedAway, GoTo, NoRowChange, slotVars, worldVars, callerVars
<1>1. CASE CheckPause(c)
  BY <1>1 DEF CheckPause
<1>2. CASE CheckCap(c)
  BY <1>2 DEF CheckCap
<1>3. CASE CheckFunds(c)
  BY <1>3 DEF CheckFunds
<1>4. CASE AcquireSlot(c)
  <2>1. lock' \in [Indices -> Callers \cup {Nobody}]
    BY <1>4 DEF AcquireSlot, TakeSlot, PassSlot, NoSlot
  <2>2. probe' \in [Callers -> 0..Limit]
    BY <1>4, SlotAssumption DEF AcquireSlot, TakeSlot, PassSlot, NoSlot
  <2>3. /\ pc' \in {pc, [pc EXCEPT ![c] = "brain"], [pc EXCEPT ![c] = "done"]}
        /\ result' \in {result, [result EXCEPT ![c] = "busy"]}
        /\ UNCHANGED <<call, waited, seen>>
    BY <1>4 DEF AcquireSlot
  <2>4. NoRowChange
    BY <1>4 DEF AcquireSlot
  <2>5. \A x \in {"brain", "done"} : [pc EXCEPT ![c] = x] \in
          [Callers -> Places]
    BY DEF Places
  <2> QED BY ZenonT(30), <2>1, <2>2, <2>3, <2>4, <2>5
<1>5. CASE ReadBrain(c)
  BY <1>5 DEF ReadBrain
<1>6. CASE Release(c)
  BY <1>6 DEF Release, FreeSlot
<1> QED BY <1>1, <1>2, <1>3, <1>4, <1>5, <1>6

LEMMA ObservedResult ==
  ASSUME NEW c \in Callers
  PROVE  Observed(c) \in {"replayed", "refused", "unknown", "inflight"}
BY DEF Observed

LEMMA TypeClaim == ASSUME TypeOK, NEW c \in Callers, Claim(c) PROVE TypeOK'
<1>1. Observed(c) \in {"replayed", "refused", "unknown", "inflight"}
  BY ObservedResult
<1>2. rows' \in [Attempts -> RowSpace]
  <2>1. rows \in [Attempts -> RowSpace]
    BY DEF TypeOK, RowSpace, States
  <2>2. [state |-> "claimed", input |-> InputOf[c], brain |-> seen[c], age |-> 0] \in RowSpace
    BY HorizonNat DEF TypeOK, RowSpace, States, Live
  <2>3. CASE IsNewClaim(c)
    BY <2>1, <2>2, <2>3, GenerationAssumption DEF Claim
  <2>4. CASE ~IsNewClaim(c)
    BY <2>1, <2>4 DEF Claim
  <2> QED BY <2>3, <2>4
<1>3. \/ pc' = [pc EXCEPT ![c] = "start"] /\ UNCHANGED result
      \/ pc' = [pc EXCEPT ![c] = "settle"] /\ UNCHANGED result
      \/ /\ pc' = [pc EXCEPT ![c] = "release"]
         /\ \/ result' = [result EXCEPT ![c] = "mismatch"]
            \/ result' = [result EXCEPT ![c] = Observed(c)]
  BY DEF Claim, GoTo, Leave
<1>4. pc' \in [Callers -> Places]
  <2>1. pc \in [Callers -> Places] /\ {"start", "settle", "release"} \subseteq Places
    BY DEF TypeOK, Places
  <2> QED BY <1>3, <2>1
<1>5. result' \in [Callers -> Results]
  <2>1. /\ result \in [Callers -> Results] /\ "mismatch" \in Results
        /\ Observed(c) \in Results
    BY <1>1 DEF TypeOK, Results
  <2> QED BY <1>3, <2>1
<1>6. UNCHANGED <<call, waited, seen, lock, probe, made, charged, balance, price, paused, brain,
                  uncharged, vendorRuns>>
  BY DEF Claim, GoTo, Leave, slotVars, worldVars
<1> QED
  BY <1>2, <1>4, <1>5, <1>6 DEF TypeOK, SlotTypeOK, RowSpace, States

LEMMA TypeStart == ASSUME TypeOK, NEW c \in Callers, Start(c) PROVE TypeOK'
<1>1. rows' \in [Attempts -> RowSpace]
  BY SetStateType DEF Start, TypeOK, RowSpace, States, Live
<1>2. vendorRuns' \in [Attempts -> SUBSET Callers]
  <2>1. /\ vendorRuns \in [Attempts -> SUBSET Callers] /\ AttemptOf[c] \in Attempts
        /\ vendorRuns' \in {vendorRuns, [vendorRuns EXCEPT ![AttemptOf[c]] = @ \cup {c}]}
    BY GenerationAssumption DEF Start, TypeOK
  <2> QED BY <2>1
<1>3. /\ pc' \in {[pc EXCEPT ![c] = "call"], [pc EXCEPT ![c] = "release"]}
      /\ call' \in {call, [call EXCEPT ![c] = 1]}
      /\ waited' \in {waited, [waited EXCEPT ![c] = 0]}
      /\ result' \in {result, [result EXCEPT ![c] = "moved"]}
      /\ UNCHANGED <<lock, probe, seen, made, charged, balance, price, paused, brain, uncharged>>
  BY DEF Start, Leave, slotVars, worldVars
<1>4. call' \in [Callers -> 0..3]
  BY <1>3 DEF TypeOK
<1>5. waited' \in [Callers -> 0..Deadline]
  <2>1. waited \in [Callers -> 0..Deadline] /\ 0 \in 0..Deadline
    BY GenerationAssumption DEF TypeOK
  <2> QED BY <1>3, <2>1
<1>6. pc' \in [Callers -> Places]
  <2>1. pc \in [Callers -> Places] /\ "call" \in Places /\ "release" \in Places
    BY DEF TypeOK, Places
  <2> QED BY <1>3, <2>1
<1>7. result' \in [Callers -> Results]
  <2>1. result \in [Callers -> Results] /\ "moved" \in Results
    BY DEF TypeOK, Results
  <2> QED BY <1>3, <2>1
<1> QED
  BY <1>1, <1>2, <1>3, <1>4, <1>5, <1>6, <1>7 DEF TypeOK, SlotTypeOK, RowSpace, States

LEMMA TypeVendor == ASSUME TypeOK, NEW c \in Callers, VendorAnswers(c) PROVE TypeOK'
<1>1. /\ pc' \in {pc, [pc EXCEPT ![c] = "checkpoint"], [pc EXCEPT ![c] = "refuse"]}
      /\ call' \in {call, [call EXCEPT ![c] = 2], [call EXCEPT ![c] = 3]}
      /\ waited' \in {waited, [waited EXCEPT ![c] = 0]}
      /\ uncharged' \in {uncharged, uncharged \cup {AttemptOf[c]}}
  BY DEF VendorAnswers, Usable, Accepted, NextCall, Wasted, Failed, GoTo
<1>2. UNCHANGED <<lock, probe, seen, result, rows, made, charged, balance, price, paused, brain, vendorRuns>>
  BY DEF VendorAnswers, Usable, Accepted, NextCall, Wasted, Failed, GoTo, slotVars, worldVars
<1>3. call' \in [Callers -> 0..3]
  BY <1>1 DEF TypeOK
<1>4. pc' \in [Callers -> Places]
  BY <1>1 DEF TypeOK, Places
<1>5. waited' \in [Callers -> 0..Deadline] /\ uncharged' \subseteq Attempts
  BY SMTT(30), <1>1, GenerationAssumption DEF TypeOK
<1> QED
  BY <1>2, <1>3, <1>4, <1>5 DEF TypeOK, SlotTypeOK

(* The steps that write the outcome down.                                  *)
LEMMA TypeOutcome ==
  ASSUME TypeOK, NEW c \in Callers,
         Checkpoint(c) \/ RecordRefusal(c) \/ RecordRecoveryRequired(c)
  PROVE  TypeOK'
<1>1. rows' \in [Attempts -> RowSpace]
  BY SetStateType
     DEF Checkpoint, RecordRefusal, RecordRecoveryRequired, TypeOK, RowSpace, States, Live, Terminal
<1> QED
  BY <1>1
     DEF Checkpoint, RecordRefusal, RecordRecoveryRequired, TypeOK, SlotTypeOK, Places, Results, GoTo, Leave,
         RowSpace, States, slotVars, worldVars

LEMMA TypeSettle == ASSUME TypeOK, NEW c \in Callers, Settle(c) PROVE TypeOK'
<1>1. Observed(c) \in {"replayed", "refused", "unknown", "inflight"}
  BY ObservedResult
<1>2. /\ rows' \in [Attempts -> RowSpace]
      /\ made' \in [Attempts -> Nat] /\ charged' \in [Attempts -> Nat] /\ balance' \in Int
  <2>1. CASE NotDelivered
    BY <2>1 DEF NotDelivered, TypeOK, RowSpace, States, worldVars
  <2>2. CASE Deliver(c)
    <3>1. rows' \in [Attempts -> RowSpace]
      BY <2>2, SetStateType DEF Deliver, States, Terminal
    <3>2. made' \in [Attempts -> Nat] /\ charged' \in [Attempts -> Nat] /\ balance' \in Int
      BY <2>2, GenerationAssumption DEF Deliver, TypeOK
    <3> QED BY <3>1, <3>2
  <2> QED BY <2>1, <2>2 DEF Settle
<1>3. /\ \E here \in {"release", "recover", "refuse"} : pc' = [pc EXCEPT ![c] = here]
      /\ result' \in {result, [result EXCEPT ![c] = "settled"], [result EXCEPT ![c] = Observed(c)]}
  BY DEF Settle, Leave, GoTo
<1>4. UNCHANGED <<call, waited, seen, lock, probe, price, paused, brain, uncharged, vendorRuns>>
  BY DEF Settle, Leave, GoTo, Deliver, NotDelivered, slotVars, worldVars
<1> QED
  BY SMTT(30), <1>1, <1>2, <1>3, <1>4 DEF TypeOK, SlotTypeOK, Places, Results, RowSpace, States

LEMMA EndedStates ==
  ASSUME NEW r \in RowSpace
  PROVE  /\ Ended(r) \in States
         /\ Ended(r) # r.state => r.state \in Live /\ Ended(r) \in {"refused", "recovery_required"}
BY DEF Ended, RowSpace, States, Live, Terminal

LEMMA TypeReceive == ASSUME TypeOK, Receive PROVE TypeOK'
<1>1. rows \in [Attempts -> RowSpace]
  BY DEF TypeOK, RowSpace, States
<1>2. \A a \in Attempts : rows[a] \in RowSpace /\ Moved(rows[a], Ended(rows[a])) \in RowSpace
  BY <1>1, EndedStates, MovedType
<1>3. rows' \in [Attempts -> RowSpace]
  BY <1>2 DEF Receive
<1> QED
  BY <1>3 DEF Receive, TypeOK, SlotTypeOK, RowSpace, States, slotVars, callerVars, worldVars

LEMMA TypeTick == ASSUME TypeOK, Tick PROVE TypeOK'
<1>1. rows \in [Attempts -> RowSpace]
  BY DEF TypeOK, RowSpace, States
<1>2. \A a \in Attempts : rows[a].age < Horizon => Older(rows[a]) \in RowSpace
  BY <1>1, HorizonNat DEF RowSpace, Older
<1>3. rows' \in [Attempts -> RowSpace]
  BY <1>1, <1>2 DEF Tick
<1>4. waited' \in [Callers -> 0..Deadline]
  BY GenerationAssumption DEF Tick, Urgent, TypeOK
<1> QED
  BY <1>3, <1>4 DEF Tick, TypeOK, SlotTypeOK, RowSpace, States, slotVars, worldVars

LEMMA TypeWorld == ASSUME TypeOK, World PROVE TypeOK'
<1>1. balance' \in Int /\ price' \in Prices /\ brain' \in 0..MaxBrain
  BY GenerationAssumption DEF World, TypeOK
<1>2. paused' \in BOOLEAN
  BY DEF World, TypeOK
<1>3. UNCHANGED <<lock, probe, pc, call, waited, seen, result, rows, made, charged, uncharged, vendorRuns>>
  BY DEF World, slotVars, callerVars
<1> QED BY <1>1, <1>2, <1>3 DEF TypeOK, SlotTypeOK

LEMMA TypeLoss ==
  ASSUME TypeOK, NEW c \in Callers, Crash(c) \/ LoseConnection(c)
  PROVE  TypeOK'
BY DEF Crash, LoseConnection, FreeSlot, TypeOK, SlotTypeOK, Places, NoRowChange, callerVars, worldVars

LEMMA TypeNext == TypeOK /\ [Next]_vars => TypeOK'
<1> SUFFICES ASSUME TypeOK, [Next]_vars PROVE TypeOK'
  OBVIOUS
<1>1. CASE \E c \in Callers : Step(c) \/ Crash(c) \/ LoseConnection(c)
  BY <1>1, TypeBefore, TypeClaim, TypeStart, TypeVendor, TypeOutcome, TypeSettle, TypeLoss DEF Step
<1>2. CASE Receive \/ Tick \/ World
  BY <1>2, TypeReceive, TypeTick, TypeWorld
<1>3. CASE UNCHANGED vars
  BY <1>3 DEF vars, callerVars, worldVars, TypeOK, SlotTypeOK
<1> QED BY <1>1, <1>2, <1>3 DEF Next

-----------------------------------------------------------------------------
(* What a step may do to the attempts: leave them, move one on, or one of  *)
(* the steps that are taken up one by one below.                           *)

KeepsAttempts == UNCHANGED <<rows, made, charged, vendorRuns>>

(* Only attempt a is touched, and its row goes to s.                       *)
MovesTo(a, s) ==
  /\ SetState(a, s)
  /\ UNCHANGED <<made, charged, balance, vendorRuns>>

LEMMA KeptInv ==
  ASSUME IInv, KeepsAttempts, TypeOK', balance' >= 0
  PROVE  IInv'
BY DEF IInv, KeepsAttempts, RunInv, OneVendorRun, ChargedForWhatExists, NoOverdraft

LEMMA SetStateOf ==
  ASSUME TypeOK, NEW a \in Attempts, NEW s \in States, SetState(a, s)
  PROVE  /\ rows'[a].state = s
         /\ \A b \in Attempts \ {a} : rows'[b] = rows[b]
BY DEF TypeOK, SetState, Moved

LEMMA MovedInv ==
  ASSUME IInv, NEW a \in Attempts, NEW s \in States, MovesTo(a, s), TypeOK',
         rows[a].state \notin {"settled"}, s \notin {"none", "claimed", "settled"}
  PROVE  IInv'
<1>1. TypeOK
  BY DEF IInv
<1>2. rows'[a].state = s /\ \A b \in Attempts \ {a} : rows'[b] = rows[b]
  BY <1>1, SetStateOf DEF MovesTo
<1> QED
  BY <1>2 DEF IInv, MovesTo, RunInv, OneVendorRun, ChargedForWhatExists, NoOverdraft

-----------------------------------------------------------------------------
(* One lemma for each kind of step                                         *)

LEMMA ClaimInv == ASSUME IInv, NEW c \in Callers, Claim(c) PROVE IInv'
<1>1. TypeOK /\ TypeOK' /\ balance' >= 0
  BY TypeClaim DEF IInv, NoOverdraft, Claim, worldVars
<1>2. CASE ~IsNewClaim(c)
  BY <1>1, <1>2, KeptInv DEF Claim, KeepsAttempts
<1>3. CASE IsNewClaim(c)
  <2>1. /\ rows[AttemptOf[c]].state = "none" /\ AttemptOf[c] \in Attempts
        /\ rows'[AttemptOf[c]].state = "claimed"
        /\ \A b \in Attempts \ {AttemptOf[c]} : rows'[b] = rows[b]
    BY <1>1, <1>3, GenerationAssumption DEF Claim, IsNewClaim, Row, TypeOK
  <2>2. UNCHANGED <<made, charged, balance, vendorRuns>>
    BY <1>3 DEF Claim, worldVars
  <2> QED
    BY <1>1, <2>1, <2>2 DEF IInv, RunInv, OneVendorRun, ChargedForWhatExists, NoOverdraft
<1> QED BY <1>2, <1>3

LEMMA StartInv == ASSUME IInv, NEW c \in Callers, Start(c) PROVE IInv'
<1>1. TypeOK /\ TypeOK' /\ balance' >= 0
  BY TypeStart DEF IInv, NoOverdraft, Start, worldVars
<1>2. CASE Row(c).state # "claimed"
  BY <1>1, <1>2, KeptInv DEF Start, KeepsAttempts
<1>3. CASE Row(c).state = "claimed"
  <2>1. /\ AttemptOf[c] \in Attempts
        /\ rows'[AttemptOf[c]].state = "vendor_started"
        /\ \A b \in Attempts \ {AttemptOf[c]} : rows'[b] = rows[b]
    BY <1>1, <1>3, GenerationAssumption, SetStateOf DEF Start, States, Live
  <2>2. vendorRuns[AttemptOf[c]] = {}
    BY <1>3, <2>1 DEF IInv, RunInv, Row
  <2>3. /\ vendorRuns'[AttemptOf[c]] = {c}
        /\ \A b \in Attempts \ {AttemptOf[c]} : vendorRuns'[b] = vendorRuns[b]
    BY <1>1, <1>3, <2>1, <2>2 DEF Start, TypeOK
  <2>4. UNCHANGED <<made, charged, balance>>
    BY <1>3 DEF Start, worldVars
  <2> QED
    BY <1>1, <1>3, <2>1, <2>3, <2>4
       DEF IInv, RunInv, OneVendorRun, ChargedForWhatExists, NoOverdraft, Row
<1> QED BY <1>2, <1>3

LEMMA OutcomeInv ==
  ASSUME IInv, NEW c \in Callers,
         Checkpoint(c) \/ RecordRefusal(c) \/ RecordRecoveryRequired(c)
  PROVE  IInv'
<1>1. TypeOK /\ TypeOK' /\ balance' >= 0
  BY TypeOutcome DEF IInv, NoOverdraft, Checkpoint, RecordRefusal, RecordRecoveryRequired, worldVars
<1>2. UNCHANGED <<made, charged, balance, vendorRuns>> /\ AttemptOf[c] \in Attempts
  BY GenerationAssumption DEF Checkpoint, RecordRefusal, RecordRecoveryRequired, worldVars
<1>3. CASE UNCHANGED rows
  BY <1>1, <1>2, <1>3, KeptInv DEF KeepsAttempts
<1>4. CASE \E s \in {"vendor_complete", "refused", "recovery_required"} :
             SetState(AttemptOf[c], s) /\ Row(c).state \in Live
  <2>1. PICK s \in {"vendor_complete", "refused", "recovery_required"} :
          SetState(AttemptOf[c], s) /\ Row(c).state \in Live
    BY <1>4
  <2> QED
    BY <1>1, <1>2, <2>1, MovedInv DEF MovesTo, Row, Live, Terminal, States
<1> QED
  BY <1>3, <1>4
     DEF Checkpoint, RecordRefusal, RecordRecoveryRequired, Recoverable, Live

LEMMA SettleInv == ASSUME IInv, NEW c \in Callers, Settle(c) PROVE IInv'
<1>1. TypeOK /\ TypeOK'
  BY TypeSettle DEF IInv
<1>2. UNCHANGED vendorRuns
  BY DEF Settle
<1>3. CASE NotDelivered
  BY <1>1, <1>2, <1>3, KeptInv DEF NotDelivered, KeepsAttempts, IInv, NoOverdraft, worldVars
<1>4. CASE Deliver(c)
  <2> DEFINE a == AttemptOf[c]
  <2>1. a \in Attempts /\ rows[a].state = "vendor_complete"
    BY <1>4, GenerationAssumption DEF Deliver, IsSettleable, Row
  <2>2. rows'[a].state = "settled" /\ \A b \in Attempts \ {a} : rows'[b] = rows[b]
    BY <1>1, <1>4, <2>1, SetStateOf DEF Deliver, States, Terminal
  <2>3. made[a] = 0
    BY <2>1 DEF IInv, ChargedForWhatExists
  <2>4. made'[a] = 1 /\ \A b \in Attempts \ {a} : made'[b] = made[b] /\ charged'[b] = charged[b]
    BY <1>1, <1>4, <2>1, <2>3 DEF Deliver, TypeOK
  <2>5. balance' >= 0
    BY <1>1, <1>4, GenerationAssumption DEF Deliver, DebitRefused, IInv, NoOverdraft, TypeOK
  <2> HIDE DEF a
  <2> QED
    BY <1>1, <1>2, <2>1, <2>2, <2>4, <2>5
       DEF IInv, RunInv, OneVendorRun, ChargedForWhatExists, NoOverdraft
<1> QED BY <1>3, <1>4 DEF Settle

LEMMA ReceiveInv == ASSUME IInv, Receive PROVE IInv'
<1>1. TypeOK /\ TypeOK'
  BY TypeReceive DEF IInv
<1>2. \A a \in Attempts : rows[a] \in RowSpace
  BY <1>1 DEF TypeOK, RowSpace, States
<1>3. \A a \in Attempts :
        \/ rows'[a] = rows[a]
        \/ rows[a].state \in Live /\ rows'[a].state \in {"refused", "recovery_required"}
  BY <1>2, EndedStates DEF Receive, Moved
<1>4. UNCHANGED <<made, charged, balance, vendorRuns>>
  BY DEF Receive, worldVars
<1> QED
  BY <1>1, <1>3, <1>4
     DEF IInv, RunInv, OneVendorRun, ChargedForWhatExists, NoOverdraft, Live

LEMMA TickInv == ASSUME IInv, Tick PROVE IInv'
<1>1. TypeOK /\ TypeOK'
  BY TypeTick DEF IInv
<1>2. \A a \in Attempts : rows'[a].state = rows[a].state
  BY <1>1 DEF Tick, Older, TypeOK
<1>3. UNCHANGED <<made, charged, balance, vendorRuns>>
  BY DEF Tick, worldVars
<1> QED
  BY <1>1, <1>2, <1>3 DEF IInv, RunInv, OneVendorRun, ChargedForWhatExists, NoOverdraft

(* The steps that leave every attempt as it is.                            *)
LEMMA OtherInv ==
  ASSUME IInv, NEW c \in Callers,
         \/ CheckPause(c) \/ CheckCap(c) \/ CheckFunds(c) \/ AcquireSlot(c) \/ ReadBrain(c)
         \/ VendorAnswers(c) \/ Release(c) \/ Crash(c) \/ LoseConnection(c)
  PROVE  IInv'
<1>1. TypeOK'
  BY TypeBefore, TypeVendor, TypeLoss DEF IInv
<1>2. KeepsAttempts /\ UNCHANGED balance
  BY DEF CheckPause, CheckCap, CheckFunds, AcquireSlot, ReadBrain, VendorAnswers, Release, Crash,
         LoseConnection, NoRowChange, KeepsAttempts, worldVars
<1> QED BY <1>1, <1>2, KeptInv DEF IInv, NoOverdraft

LEMMA WorldInv == ASSUME IInv, World PROVE IInv'
<1>1. TypeOK /\ TypeOK'
  BY TypeWorld DEF IInv
<1>2. KeepsAttempts
  BY DEF World, KeepsAttempts
<1>3. balance' >= 0
  BY <1>1 DEF World, IInv, NoOverdraft, TypeOK
<1> QED BY <1>1, <1>2, <1>3, KeptInv

LEMMA InitIInv == Init => IInv
BY InitTypeOK, GenerationAssumption
   DEF Init, IInv, RunInv, OneVendorRun, ChargedForWhatExists, NoOverdraft, NoRow

LEMMA NextIInv == IInv /\ [Next]_vars => IInv'
<1> SUFFICES ASSUME IInv, [Next]_vars PROVE IInv'
  OBVIOUS
<1>1. CASE \E c \in Callers : Step(c) \/ Crash(c) \/ LoseConnection(c)
  BY <1>1, ClaimInv, StartInv, OutcomeInv, SettleInv, OtherInv DEF Step
<1>2. CASE Receive \/ Tick \/ World
  BY <1>2, ReceiveInv, TickInv, WorldInv
<1>3. CASE UNCHANGED vars
  BY <1>3, TypeNext, KeptInv DEF vars, worldVars, KeepsAttempts, IInv, NoOverdraft
<1> QED BY <1>1, <1>2, <1>3 DEF Next

-----------------------------------------------------------------------------
(* The theorems                                                            *)

LEMMA Invariance == Spec => []IInv
BY InitIInv, NextIInv, PTL DEF Spec

(* The variables of the pipeline keep their types.                         *)
THEOREM GenerationTypeOK == Spec => []TypeOK
BY Invariance, PTL DEF IInv

(* The vendor is run for an attempt by one caller at most, whatever is     *)
(* repeated, crashes or is given up.                                       *)
THEOREM GenerationOneVendorRun == Spec => []OneVendorRun
BY Invariance, PTL DEF IInv

(* A charge and its generation stand together, once, on a settled attempt. *)
THEOREM GenerationChargedForWhatExists == Spec => []ChargedForWhatExists
BY Invariance, PTL DEF IInv

(* No settlement takes credits that are not there.                         *)
THEOREM GenerationNoOverdraft == Spec => []NoOverdraft
BY Invariance, PTL DEF IInv

(* A creator pays for a generation that exists, once, out of credits that  *)
(* are there, whatever was spent between the look and the settlement.      *)
THEOREM GenerationChargesAreDue == Spec => []ChargesAreDue
BY GenerationChargedForWhatExists, GenerationNoOverdraft, PTL DEF ChargesAreDue

-----------------------------------------------------------------------------
(* The refinement.  A step that touches no attempt is a stutter of the     *)
(* contract; Claim opens, Settle delivers, and what ends an attempt        *)
(* without a generation closes it, the receiver several at once.           *)

Phase(state) ==
  CASE state = "none"    -> "unused"
    [] state \in Live    -> "open"
    [] state = "settled" -> "delivered"
    [] OTHER             -> "closed"

phase == [a \in Attempts |-> Phase(rows[a].state)]

ContractStep == Contract!ContractNext \/ UNCHANGED <<phase, charged>>

LEMMA PhaseOf ==
  /\ Phase("none") = "unused" /\ Phase("settled") = "delivered"
  /\ \A s \in Live : Phase(s) = "open"
  /\ \A s \in {"refused", "recovery_required"} : Phase(s) = "closed"
BY DEF Phase, Live

LEMMA StutterStep ==
  ASSUME TypeOK, UNCHANGED charged,
         \A a \in Attempts : Phase(rows'[a].state) = Phase(rows[a].state)
  PROVE  ContractStep
BY DEF ContractStep, phase

(* Attempts that were open and are closed now, and no others.              *)
LEMMA CloseStep ==
  ASSUME TypeOK, UNCHANGED charged,
         \A a \in Attempts :
           \/ rows'[a].state = rows[a].state
           \/ rows[a].state \in Live /\ rows'[a].state \in {"refused", "recovery_required"}
  PROVE  ContractStep
<1> DEFINE S == {a \in Attempts : rows'[a].state # rows[a].state}
<1>1. \A a \in S : phase[a] = "open" /\ phase'[a] = "closed"
  BY PhaseOf DEF phase
<1>2. \A a \in Attempts \ S : phase'[a] = phase[a]
  BY DEF phase
<1>3. phase' = [a \in Attempts |-> IF a \in S THEN "closed" ELSE phase[a]]
  BY <1>1, <1>2 DEF phase
<1>4. CASE S = {}
  BY <1>3, <1>4, StutterStep DEF phase
<1>5. CASE S # {}
  <2>1. PICK T \in SUBSET Attempts : T = S
    OBVIOUS
  <2>2. PICK a \in Attempts : a \in T
    BY <1>5, <2>1
  <2>3. Contract!Close(T)
    BY <1>1, <1>3, <2>1 DEF Contract!Close, phase, Phase
  <2>4. Contract!ContractNext
    BY <2>2, <2>3 DEF Contract!ContractNext, Contract!Answer
  <2> QED BY <2>4 DEF ContractStep
<1> QED BY <1>4, <1>5

LEMMA ClaimRefines == ASSUME IInv, NEW c \in Callers, Claim(c) PROVE ContractStep
<1>1. TypeOK
  BY DEF IInv
<1>2. CASE ~IsNewClaim(c)
  BY <1>1, <1>2, StutterStep DEF Claim
<1>3. CASE IsNewClaim(c)
  <2> DEFINE a == AttemptOf[c]
  <2>1. a \in Attempts /\ rows[a].state = "none" /\ rows'[a].state = "claimed"
        /\ \A b \in Attempts \ {a} : rows'[b] = rows[b]
    BY <1>1, <1>3, GenerationAssumption DEF Claim, IsNewClaim, Row, TypeOK
  <2>2. UNCHANGED charged
    BY <1>3 DEF Claim
  <2> HIDE DEF a
  <2>3. phase[a] = "unused" /\ phase' = [phase EXCEPT ![a] = "open"]
    BY <2>1, PhaseOf DEF phase, Live
  <2>4. Contract!Open(a)
    BY <2>2, <2>3 DEF Contract!Open, phase, Phase
  <2> QED BY <2>1, <2>4 DEF ContractStep, Contract!ContractNext
<1> QED BY <1>2, <1>3

LEMMA StartRefines == ASSUME IInv, NEW c \in Callers, Start(c) PROVE ContractStep
<1>1. TypeOK /\ UNCHANGED charged /\ AttemptOf[c] \in Attempts
  BY GenerationAssumption DEF IInv, Start
<1>2. CASE Row(c).state # "claimed"
  BY <1>1, <1>2, StutterStep DEF Start
<1>3. CASE Row(c).state = "claimed"
  <2>1. /\ rows'[AttemptOf[c]].state = "vendor_started"
        /\ \A b \in Attempts \ {AttemptOf[c]} : rows'[b] = rows[b]
    BY <1>1, <1>3, SetStateOf DEF Start, States, Live
  <2> QED BY <1>1, <1>3, <2>1, PhaseOf, StutterStep DEF Row, Live
<1> QED BY <1>2, <1>3

LEMMA OutcomeRefines ==
  ASSUME IInv, NEW c \in Callers,
         Checkpoint(c) \/ RecordRefusal(c) \/ RecordRecoveryRequired(c)
  PROVE  ContractStep
<1>1. TypeOK /\ UNCHANGED charged /\ AttemptOf[c] \in Attempts
  BY GenerationAssumption DEF IInv, Checkpoint, RecordRefusal, RecordRecoveryRequired
<1>2. CASE UNCHANGED rows
  BY <1>1, <1>2, StutterStep
<1>3. CASE SetState(AttemptOf[c], "vendor_complete") /\ Row(c).state = "vendor_started"
  <2>1. /\ rows'[AttemptOf[c]].state = "vendor_complete"
        /\ \A b \in Attempts \ {AttemptOf[c]} : rows'[b] = rows[b]
    BY <1>1, <1>3, SetStateOf DEF States, Live
  <2> QED BY <1>1, <1>3, <2>1, PhaseOf, StutterStep DEF Row, Live
<1>4. CASE \E s \in {"refused", "recovery_required"} :
             SetState(AttemptOf[c], s) /\ Row(c).state \in Live
  <2>1. PICK s \in {"refused", "recovery_required"} :
          SetState(AttemptOf[c], s) /\ Row(c).state \in Live
    BY <1>4
  <2>2. /\ rows'[AttemptOf[c]].state = s
        /\ \A b \in Attempts \ {AttemptOf[c]} : rows'[b] = rows[b]
    BY <1>1, <2>1, SetStateOf DEF States, Terminal
  <2> QED BY <1>1, <2>1, <2>2, CloseStep DEF Row
<1> QED
  BY <1>2, <1>3, <1>4 DEF Checkpoint, RecordRefusal, RecordRecoveryRequired, Recoverable, Live

LEMMA SettleRefines == ASSUME IInv, NEW c \in Callers, Settle(c) PROVE ContractStep
<1>1. TypeOK
  BY DEF IInv
<1>2. CASE NotDelivered
  BY <1>1, <1>2, StutterStep DEF NotDelivered
<1>3. CASE Deliver(c)
  <2> DEFINE a == AttemptOf[c]
  <2>1. a \in Attempts /\ rows[a].state = "vendor_complete"
    BY <1>3, GenerationAssumption DEF Deliver, IsSettleable, Row
  <2>2. rows'[a].state = "settled" /\ \A b \in Attempts \ {a} : rows'[b] = rows[b]
    BY <1>1, <1>3, <2>1, SetStateOf DEF Deliver, States, Terminal
  <2>3. charged[a] = 0
    BY <1>1, <2>1 DEF IInv, ChargedForWhatExists, TypeOK
  <2>4. price \in Prices /\ price \in Nat
    BY <1>1, GenerationAssumption DEF TypeOK
  <2>5. charged' = [charged EXCEPT ![a] = charged[a] + price]
    BY <1>3 DEF Deliver
  <2>6. charged' = [charged EXCEPT ![a] = price]
    BY <2>3, <2>4, <2>5
  <2> HIDE DEF a
  <2>7. phase[a] = "open" /\ phase' = [phase EXCEPT ![a] = "delivered"]
    BY <2>1, <2>2, PhaseOf DEF phase, Live
  <2>8. PICK p \in Prices : p = price
    BY <2>4
  <2>9. Contract!Deliver(a, p)
    BY <2>7, <2>6, <2>8 DEF Contract!Deliver, phase, Phase
  <2> QED BY <2>1, <2>9 DEF ContractStep, Contract!ContractNext, Contract!Answer
<1> QED BY <1>2, <1>3 DEF Settle

LEMMA ReceiveRefines == ASSUME IInv, Receive PROVE ContractStep
<1>1. TypeOK /\ UNCHANGED charged
  BY DEF IInv, Receive
<1>2. \A a \in Attempts : rows[a] \in RowSpace
  BY <1>1 DEF TypeOK, RowSpace, States
<1>3. \A a \in Attempts :
        \/ rows'[a].state = rows[a].state
        \/ rows[a].state \in Live /\ rows'[a].state \in {"refused", "recovery_required"}
  BY <1>2, EndedStates DEF Receive, Moved
<1> QED BY <1>1, <1>3, CloseStep

LEMMA TickRefines == ASSUME IInv, Tick PROVE ContractStep
<1>1. TypeOK /\ UNCHANGED charged
  BY DEF IInv, Tick
<1>2. \A a \in Attempts : rows'[a].state = rows[a].state
  BY <1>1 DEF Tick, Older, TypeOK
<1> QED BY <1>1, <1>2, StutterStep

LEMMA OtherRefines ==
  ASSUME IInv, UNCHANGED <<rows, charged>>
  PROVE  ContractStep
BY StutterStep DEF IInv

LEMMA NextRefines == IInv /\ [Next]_vars => ContractStep
<1> SUFFICES ASSUME IInv, [Next]_vars PROVE ContractStep
  OBVIOUS
<1>1. ASSUME NEW c \in Callers, Step(c) \/ Crash(c) \/ LoseConnection(c)
      PROVE  ContractStep
  <2>1. CASE Claim(c) \/ Start(c) \/ Settle(c)
    BY <2>1, ClaimRefines, StartRefines, SettleRefines
  <2>2. CASE Checkpoint(c) \/ RecordRefusal(c) \/ RecordRecoveryRequired(c)
    BY <2>2, OutcomeRefines
  <2>3. CASE \/ CheckPause(c) \/ CheckCap(c) \/ CheckFunds(c) \/ AcquireSlot(c) \/ ReadBrain(c)
             \/ VendorAnswers(c) \/ Release(c) \/ Crash(c) \/ LoseConnection(c)
    <3>1. UNCHANGED <<rows, charged>>
      BY <2>3
         DEF CheckPause, CheckCap, CheckFunds, AcquireSlot, ReadBrain, VendorAnswers, Release,
             Crash, LoseConnection, NoRowChange
    <3> QED BY <3>1, OtherRefines
  <2> QED BY <1>1, <2>1, <2>2, <2>3 DEF Step
<1>2. CASE Receive \/ Tick
  BY <1>2, ReceiveRefines, TickRefines
<1>3. CASE World \/ UNCHANGED vars
  <2>1. UNCHANGED <<rows, charged>>
    BY <1>3 DEF World, vars
  <2> QED BY <2>1, OtherRefines
<1> QED BY <1>1, <1>2, <1>3 DEF Next

LEMMA InitRefines == Init => Contract!ContractInit
BY PhaseOf DEF Init, NoRow, Contract!ContractInit, Phase

LEMMA StepOfContract == ContractStep => [Contract!ContractNext]_(Contract!contractVars)
BY DEF ContractStep, Contract!contractVars, phase, Phase

(* Every press is answered once, with the work and its charge together or  *)
(* with neither.                                                           *)
THEOREM GenerationImplementsContract == Spec => ImplementsContract
<1>1. Init => Contract!ContractInit
  BY InitRefines
<1>2. IInv /\ [Next]_vars => [Contract!ContractNext]_(Contract!contractVars)
  BY NextRefines, StepOfContract
<1> QED BY <1>1, <1>2, Invariance, PTL DEF Spec, ImplementsContract, Contract!ContractSpec

-----------------------------------------------------------------------------
(***************************************************************************)
(* The receiver judges a run by its age.  A run takes three calls at most, *)
(* each cut off at the deadline, so that its row is no older than that;    *)
(* and a row it has left behind is ended by its own clock, or by a caller  *)
(* whose transaction failed on it.                                         *)
(***************************************************************************)

Past == {"vendor_complete", "settled", "refused", "recovery_required"}

(* Who is at the vendor or stores its answer has entered it, and whoever   *)
(* ends an attempt has either done so or found it answered.                *)
CameByVendor ==
  \A c \in Callers :
    /\ pc[c] \in {"call", "checkpoint"} => c \in vendorRuns[AttemptOf[c]]
    /\ pc[c] \in {"settle", "refuse", "recover"}
         => c \in vendorRuns[AttemptOf[c]] \/ Row(c).state \in Past

Spent(c) ==
  CASE call[c] = 1 -> waited[c]
    [] call[c] = 2 -> Deadline + waited[c]
    [] OTHER       -> 2 * Deadline + waited[c]

(* A row is no older than what its run has spent at the vendor.            *)
RunsAreTimed ==
  \A c \in Callers : At(c, "call") =>
    /\ call[c] \in {1, 2, 3}
    /\ Row(c).state = "vendor_started" => Row(c).age <= Spent(c)

TimedInv == IInv /\ CameByVendor /\ RunsAreTimed

-----------------------------------------------------------------------------
(* What a caller's step does to its attempt's row                          *)
RowMove(c) ==
  LET a == AttemptOf[c] IN
  /\ \A b \in Attempts \ {a} : rows'[b] = rows[b]
  /\ \/ rows'[a] = rows[a]
     \/ At(c, "claim") /\ rows[a].state = "none" /\ rows'[a].state = "claimed"
     \/ /\ At(c, "start") /\ rows[a].state = "claimed"
        /\ rows'[a].state = "vendor_started" /\ rows'[a].age = 0
     \/ /\ At(c, "checkpoint") /\ rows[a].state = "vendor_started"
        /\ rows'[a].state = "vendor_complete"
     \/ At(c, "settle") /\ rows[a].state = "vendor_complete" /\ rows'[a].state = "settled"
     \/ At(c, "refuse") /\ rows'[a].state = "refused"
     \/ At(c, "recover") /\ rows'[a].state = "recovery_required"

LEMMA SetStateMove ==
  ASSUME TypeOK, NEW c \in Callers, NEW s \in States, SetState(AttemptOf[c], s)
  PROVE  /\ \A b \in Attempts \ {AttemptOf[c]} : rows'[b] = rows[b]
         /\ rows'[AttemptOf[c]].state = s /\ rows'[AttemptOf[c]].age = 0
BY GenerationAssumption DEF TypeOK, SetState, Moved

LEMMA StepMoves == ASSUME TypeOK, NEW c \in Callers, Step(c) PROVE RowMove(c)
<1> DEFINE a == AttemptOf[c]
<1>1. a \in Attempts
  BY GenerationAssumption
<1>2. CASE UNCHANGED rows
  BY <1>2 DEF RowMove
<1>3. CASE Claim(c) /\ ~UNCHANGED rows
  <2>1. /\ rows' = [rows EXCEPT ![a] =
                      [state |-> "claimed", input |-> InputOf[c], brain |-> seen[c], age |-> 0]]
        /\ rows[a].state = "none" /\ At(c, "claim")
    BY <1>3 DEF Claim, IsNewClaim, Row
  <2> QED
    BY <1>1, <2>1 DEF RowMove, TypeOK
<1>4. CASE Start(c) /\ ~UNCHANGED rows
  <2>1. SetState(a, "vendor_started") /\ rows[a].state = "claimed" /\ At(c, "start")
    BY <1>4 DEF Start, Row
  <2> QED
    BY <2>1, SetStateMove DEF RowMove, States, Live
<1>5. CASE Checkpoint(c) /\ ~UNCHANGED rows
  <2>1. SetState(a, "vendor_complete") /\ rows[a].state = "vendor_started" /\ At(c, "checkpoint")
    BY <1>5 DEF Checkpoint, Row
  <2> QED
    BY <2>1, SetStateMove DEF RowMove, States, Live
<1>6. CASE Settle(c) /\ ~UNCHANGED rows
  <2>1. SetState(a, "settled") /\ rows[a].state = "vendor_complete" /\ At(c, "settle")
    BY <1>6 DEF Settle, Deliver, NotDelivered, IsSettleable, Row
  <2> QED
    BY <2>1, SetStateMove DEF RowMove, States, Terminal
<1>7. CASE (RecordRefusal(c) \/ RecordRecoveryRequired(c)) /\ ~UNCHANGED rows
  <2>1. \/ SetState(a, "refused") /\ At(c, "refuse")
        \/ SetState(a, "recovery_required") /\ At(c, "recover")
    BY <1>7 DEF RecordRefusal, RecordRecoveryRequired
  <2> QED
    BY <2>1, SetStateMove DEF RowMove, States, Terminal
<1> QED
  BY <1>2, <1>3, <1>4, <1>5, <1>6, <1>7
  DEF Step, CheckPause, CheckCap, CheckFunds, AcquireSlot, ReadBrain, VendorAnswers, Release,
      NoRowChange

(* A step of a caller leaves the others where they are, and the vendor's   *)
(* runs are only added to.                                                 *)
LEMMA StepIsOnesOwn ==
  ASSUME TypeOK, NEW c \in Callers, Step(c) \/ Crash(c) \/ LoseConnection(c)
  PROVE  /\ \A d \in Callers \ {c} : pc'[d] = pc[d] /\ call'[d] = call[d] /\ waited'[d] = waited[d]
         /\ \A a \in Attempts : vendorRuns[a] \subseteq vendorRuns'[a]
<1>1. /\ pc \in [Callers -> Places] /\ call \in [Callers -> 0..3]
      /\ waited \in [Callers -> 0..Deadline] /\ vendorRuns \in [Attempts -> SUBSET Callers]
  BY DEF TypeOK
<1>2. /\ \E p : pc' = [pc EXCEPT ![c] = p] \/ pc' = pc
      /\ \E k : call' = [call EXCEPT ![c] = k] \/ call' = call
      /\ \E n : waited' = [waited EXCEPT ![c] = n] \/ waited' = waited
  BY DEF Step, Crash, LoseConnection, CheckPause, CheckCap, CheckFunds, AcquireSlot, ReadBrain,
         Claim, Start, VendorAnswers, Usable, Accepted, NextCall, Wasted, Failed, Checkpoint,
         Settle, RecordRefusal, RecordRecoveryRequired, Release, GoTo, Leave, TurnedAway, callerVars
<1>3. \/ vendorRuns' = [vendorRuns EXCEPT ![AttemptOf[c]] = @ \cup {c}]
      \/ vendorRuns' = vendorRuns
  BY DEF Step, Crash, LoseConnection, CheckPause, CheckCap, CheckFunds, AcquireSlot, ReadBrain,
         Claim, Start, VendorAnswers, Checkpoint, Settle, RecordRefusal, RecordRecoveryRequired,
         Release, NoRowChange
<1> QED
  BY <1>1, <1>2, <1>3

-----------------------------------------------------------------------------
(* Every step keeps it                                                     *)

LEMMA RowsSpace == ASSUME TypeOK PROVE \A a \in Attempts : rows[a] \in RowSpace
BY DEF TypeOK, RowSpace, States

(* What a worker's scan does to a row.                                     *)
LEMMA ReceiveMoves ==
  ASSUME TypeOK, Receive, NEW a \in Attempts
  PROVE  \/ rows'[a] = rows[a]
         \/ /\ rows'[a].state = Ended(rows[a]) /\ Ended(rows[a]) # rows[a].state
            /\ rows[a].state \in Live /\ Ended(rows[a]) \in {"refused", "recovery_required"}
BY RowsSpace, EndedStates DEF Receive, Moved

(* Time moves nothing on.                                                  *)
LEMMA TickMoves ==
  ASSUME TypeOK, Tick, NEW a \in Attempts
  PROVE  /\ rows'[a].state = rows[a].state
         /\ rows'[a].age \in {rows[a].age, rows[a].age + 1}
BY RowsSpace DEF Tick, Older, RowSpace

LEMMA AnsweredStays ==
  ASSUME TypeOK, [Next]_vars, NEW a \in Attempts, rows[a].state \in Past
  PROVE  rows'[a].state \in Past
<1>1. ASSUME NEW c \in Callers, Step(c) PROVE rows'[a].state \in Past
  BY <1>1, StepMoves DEF RowMove, Past
<1>2. CASE Receive
  BY <1>2, ReceiveMoves DEF Past
<1>3. CASE Tick
  BY <1>3, TickMoves
<1>4. CASE UNCHANGED rows
  BY <1>4
<1> QED
  BY <1>1, <1>2, <1>3, <1>4
  DEF Next, World, Crash, LoseConnection, NoRowChange, vars

(* Where a caller's own step takes it.                                     *)
LEMMA ComesByVendor ==
  ASSUME IInv, CameByVendor, NEW c \in Callers, Step(c)
  PROVE  /\ pc'[c] \in {"call", "checkpoint"} => c \in vendorRuns'[AttemptOf[c]]
         /\ pc'[c] \in {"settle", "refuse", "recover"}
              => \/ c \in vendorRuns'[AttemptOf[c]]
                 \/ rows[AttemptOf[c]].state \in Past
<1> DEFINE a == AttemptOf[c]
<1>1. /\ pc \in [Callers -> Places] /\ vendorRuns \in [Attempts -> SUBSET Callers]
      /\ a \in Attempts
  BY GenerationAssumption DEF IInv, TypeOK
<1>2. vendorRuns[a] \subseteq vendorRuns'[a]
  BY <1>1, StepIsOnesOwn DEF IInv
<1>3. CASE CheckPause(c) \/ CheckCap(c) \/ CheckFunds(c) \/ AcquireSlot(c) \/ ReadBrain(c)
           \/ Release(c)
  <2>1. CASE CheckPause(c) \/ CheckCap(c) \/ CheckFunds(c)
    <3>1. \/ pc' = [pc EXCEPT ![c] = "done"] \/ pc' = [pc EXCEPT ![c] = "cap"]
          \/ pc' = [pc EXCEPT ![c] = "funds"] \/ pc' = [pc EXCEPT ![c] = "slot"]
      BY <2>1 DEF CheckPause, CheckCap, CheckFunds, TurnedAway, GoTo
    <3> QED
      BY <1>1, <3>1
  <2>2. CASE AcquireSlot(c)
    <3>1. \/ pc' = [pc EXCEPT ![c] = "brain"] \/ pc' = [pc EXCEPT ![c] = "done"]
          \/ pc' = pc /\ pc[c] = "slot"
      BY <2>2 DEF AcquireSlot, TurnedAway, GoTo, callerVars, At
    <3> QED
      BY <1>1, <3>1
  <2>3. CASE ReadBrain(c) \/ Release(c)
    <3>1. pc' = [pc EXCEPT ![c] = "claim"] \/ pc' = [pc EXCEPT ![c] = "done"]
      BY <2>3 DEF ReadBrain, Release, GoTo
    <3> QED
      BY <1>1, <3>1
  <2> QED
    BY <1>3, <2>1, <2>2, <2>3
<1>4. CASE Claim(c)
  <2>1. \/ \E p \in {"start", "release"} : pc' = [pc EXCEPT ![c] = p]
        \/ pc' = [pc EXCEPT ![c] = "settle"] /\ rows[a].state = "vendor_complete"
    BY <1>4 DEF Claim, GoTo, Leave, Row
  <2> QED
    BY <1>1, <2>1 DEF Past
<1>5. CASE Start(c)
  <2>1. \/ pc' = [pc EXCEPT ![c] = "release"]
        \/ /\ pc' = [pc EXCEPT ![c] = "call"]
           /\ vendorRuns' = [vendorRuns EXCEPT ![a] = @ \cup {c}]
    BY <1>5 DEF Start, Leave
  <2> QED
    BY <1>1, <2>1
<1>6. CASE VendorAnswers(c)
  <2>1. pc[c] = "call"
    BY <1>6 DEF VendorAnswers, At
  <2> QED
    BY <1>1, <1>2, <2>1 DEF CameByVendor
<1>7. CASE Checkpoint(c)
  <2>1. pc[c] = "checkpoint"
    BY <1>7 DEF Checkpoint, At
  <2> QED
    BY <1>1, <1>2, <2>1 DEF CameByVendor
<1>8. CASE Settle(c)
  <2>1. /\ pc[c] = "settle"
        /\ \E p \in {"release", "recover", "refuse"} : pc' = [pc EXCEPT ![c] = p]
    BY <1>8 DEF Settle, At, Leave, GoTo
  <2> QED
    BY <1>1, <1>2, <2>1 DEF CameByVendor, Row
<1>9. CASE RecordRefusal(c) \/ RecordRecoveryRequired(c)
  <2>1. pc' = [pc EXCEPT ![c] = "release"]
    BY <1>9 DEF RecordRefusal, RecordRecoveryRequired, Leave
  <2> QED
    BY <1>1, <2>1
<1> QED
  BY <1>3, <1>4, <1>5, <1>6, <1>7, <1>8, <1>9 DEF Step

LEMMA CameByVendorStep == ASSUME IInv, CameByVendor, [Next]_vars PROVE CameByVendor'
<1>1. TypeOK /\ \A d \in Callers : AttemptOf[d] \in Attempts
  BY GenerationAssumption DEF IInv
<1>2. \A d \in Callers : Row(d).state \in Past => Row(d)'.state \in Past
  BY <1>1, AnsweredStays DEF Row
<1>3. ASSUME NEW c \in Callers, Step(c) PROVE CameByVendor'
  <2>1. /\ \A d \in Callers \ {c} : pc'[d] = pc[d]
        /\ \A d \in Callers : vendorRuns[AttemptOf[d]] \subseteq vendorRuns'[AttemptOf[d]]
    BY <1>1, <1>3, StepIsOnesOwn
  <2>2. /\ pc'[c] \in {"call", "checkpoint"} => c \in vendorRuns'[AttemptOf[c]]
        /\ pc'[c] \in {"settle", "refuse", "recover"}
             => c \in vendorRuns'[AttemptOf[c]] \/ Row(c).state \in Past
    BY <1>3, ComesByVendor DEF Row
  <2> QED
    BY <1>2, <2>1, <2>2 DEF CameByVendor
<1>4. ASSUME NEW c \in Callers, Crash(c) \/ LoseConnection(c) PROVE CameByVendor'
  <2>1. UNCHANGED <<vendorRuns, rows>> /\ (pc' = pc \/ pc' = [pc EXCEPT ![c] = "crashed"])
    BY <1>4 DEF Crash, LoseConnection, NoRowChange, callerVars
  <2>2. pc \in [Callers -> Places]
    BY <1>1 DEF TypeOK
  <2> QED
    BY <2>1, <2>2 DEF CameByVendor, Row
<1>5. CASE Receive \/ Tick \/ World \/ UNCHANGED vars
  <2>1. UNCHANGED <<pc, vendorRuns>>
    BY <1>5 DEF Receive, Tick, World, vars, callerVars
  <2> QED
    BY <1>2, <2>1 DEF CameByVendor
<1> QED
  BY <1>3, <1>4, <1>5 DEF Next

(* What a run has spent is within three deadlines.                         *)
LEMMA SpentWithin ==
  ASSUME TypeOK, NEW c \in Callers
  PROVE  Spent(c) \in 0..(3 * Deadline)
<1>1. Deadline \in Nat /\ waited[c] \in 0..Deadline
  BY GenerationAssumption DEF TypeOK
<1> QED
  BY <1>1 DEF Spent

(* A call leads to a later one, or away from the vendor.                   *)
LEMMA CallsAreTimed ==
  ASSUME TimedInv, NEW c \in Callers, VendorAnswers(c), At(c, "call")'
  PROVE  call'[c] \in {1, 2, 3} /\ Spent(c) <= Spent(c)' /\ UNCHANGED rows
<1>1. /\ call \in [Callers -> 0..3] /\ waited \in [Callers -> 0..Deadline]
      /\ pc \in [Callers -> Places] /\ Deadline \in Nat /\ pc[c] = "call" /\ call[c] \in {1, 2, 3}
  BY GenerationAssumption DEF TimedInv, IInv, TypeOK, VendorAnswers, At, RunsAreTimed
<1>2. \/ call[c] = 1 /\ (NextCall(c, 2) \/ NextCall(c, 3))
      \/ call[c] = 2 /\ NextCall(c, 3)
  <2>1. pc'[c] = "call"
    BY DEF At
  <2>2. ~GoTo(c, "checkpoint") /\ ~GoTo(c, "refuse")
    BY <1>1, <2>1 DEF GoTo
  <2> QED
    BY <2>2 DEF VendorAnswers, Usable, Accepted, Wasted, Failed
<1>3. /\ waited'[c] = 0
      /\ \/ call[c] = 1 /\ call'[c] \in {2, 3}
         \/ call[c] = 2 /\ call'[c] = 3
  BY <1>1, <1>2 DEF NextCall
<1>4. Spent(c) <= Spent(c)'
  BY <1>1, <1>3 DEF Spent
<1> QED
  BY <1>1, <1>3, <1>4 DEF VendorAnswers

(* Only its first caller makes a row that is at the vendor, and it made it *)
(* before it called: for another run nothing but time touches it.          *)
LEMMA OthersKeepTimes ==
  ASSUME TimedInv, NEW c \in Callers, Step(c), NEW d \in Callers, pc[d] = "call",
         d # c \/ UNCHANGED rows, rows'[AttemptOf[d]].state = "vendor_started"
  PROVE  rows'[AttemptOf[d]] = rows[AttemptOf[d]]
<1>1. TypeOK /\ AttemptOf[d] \in Attempts /\ AttemptOf[c] \in Attempts
  BY GenerationAssumption DEF TimedInv, IInv
<1>2. d \in vendorRuns[AttemptOf[d]]
  BY DEF TimedInv, CameByVendor
<1>3. rows[AttemptOf[d]].state \notin {"none", "claimed"}
  BY <1>1, <1>2 DEF TimedInv, IInv, RunInv
<1>4. RowMove(c)
  BY <1>1, StepMoves
<1> QED
  BY <1>1, <1>3, <1>4 DEF RowMove

LEMMA StepKeepsTimes ==
  ASSUME TimedInv, NEW c \in Callers, Step(c)
  PROVE  RunsAreTimed'
<1> SUFFICES ASSUME NEW d \in Callers, At(d, "call")'
             PROVE  /\ call'[d] \in {1, 2, 3}
                    /\ rows'[AttemptOf[d]].state = "vendor_started"
                         => rows'[AttemptOf[d]].age <= Spent(d)'
  BY DEF RunsAreTimed, Row
<1>1. TypeOK /\ TypeOK' /\ AttemptOf[d] \in Attempts /\ Deadline \in Nat
  <2>1. TypeOK
    BY DEF TimedInv, IInv
  <2>2. [Next]_vars
    BY DEF Next
  <2> QED
    BY <2>1, <2>2, TypeNext, GenerationAssumption
<1>2. rows[AttemptOf[d]].age \in Nat /\ Spent(d) \in Nat /\ Spent(d)' \in Nat
  <2>1. Spent(d) \in 0..(3 * Deadline) /\ rows[AttemptOf[d]].age \in 0..Horizon
    BY <1>1, SpentWithin, RowsSpace DEF RowSpace
  <2>2. waited'[d] \in 0..Deadline
    BY <1>1 DEF TypeOK
  <2>3. Spent(d)' \in Nat
    BY <1>1, <2>2 DEF Spent
  <2> QED
    BY <1>1, <2>1, <2>3, HorizonNat
<1>3. CASE d # c
  <2>1. pc'[d] = pc[d] /\ call'[d] = call[d] /\ waited'[d] = waited[d]
    BY <1>1, <1>3, StepIsOnesOwn
  <2>2. pc[d] = "call" /\ Spent(d)' = Spent(d) /\ At(d, "call")
    BY <2>1 DEF At, Spent
  <2>3. /\ call[d] \in {1, 2, 3}
        /\ rows[AttemptOf[d]].state = "vendor_started" => rows[AttemptOf[d]].age <= Spent(d)
    BY <2>2 DEF TimedInv, RunsAreTimed, Row
  <2> QED
    BY <1>3, <2>1, <2>2, <2>3, OthersKeepTimes
<1>4. CASE d = c /\ VendorAnswers(c)
  <2>1. call'[d] \in {1, 2, 3} /\ Spent(d) <= Spent(d)' /\ UNCHANGED rows
    BY <1>4, CallsAreTimed
  <2>2. At(d, "call")
    BY <1>4 DEF VendorAnswers
  <2>3. rows[AttemptOf[d]].state = "vendor_started" => rows[AttemptOf[d]].age <= Spent(d)
    BY <2>2 DEF TimedInv, RunsAreTimed, Row
  <2> QED
    BY <1>2, <2>1, <2>3
<1>5. CASE d = c /\ Start(c)
  <2>1. pc[d] = "start" /\ pc \in [Callers -> Places] /\ call \in [Callers -> 0..3]
        /\ waited \in [Callers -> 0..Deadline]
    BY <1>1, <1>5 DEF Start, At, TypeOK
  <2>2. Row(c).state = "claimed" /\ SetState(AttemptOf[c], "vendor_started")
        /\ call' = [call EXCEPT ![c] = 1] /\ waited' = [waited EXCEPT ![c] = 0]
    BY <1>5, <2>1 DEF Start, Leave, At
  <2>3. call'[d] = 1
    BY <1>5, <2>1, <2>2
  <2>4. rows'[AttemptOf[d]].age = 0
    BY <1>1, <1>5, <2>2, SetStateMove DEF States, Live
  <2> QED
    BY <1>2, <2>3, <2>4
<1>6. CASE d = c /\ ~VendorAnswers(c) /\ ~Start(c)
  <2>1. pc \in [Callers -> Places]
    BY <1>1 DEF TypeOK
  <2>2. pc'[c] # "call"
    <3>1. ~At(c, "call")
      BY <1>6 DEF Step, At, CheckPause, CheckCap, CheckFunds, AcquireSlot, ReadBrain, Claim,
                  Checkpoint, Settle, RecordRefusal, RecordRecoveryRequired, Release
    <3>2. \/ pc' = pc
          \/ \E p \in Places \ {"call"} : pc' = [pc EXCEPT ![c] = p]
      BY <1>6
      DEF Step, CheckPause, CheckCap, CheckFunds, AcquireSlot, ReadBrain, Claim, Checkpoint,
          Settle, RecordRefusal, RecordRecoveryRequired, Release, TurnedAway, GoTo, Leave,
          callerVars, Places
    <3> QED
      BY <2>1, <3>1, <3>2 DEF At
  <2> QED
    BY <1>6, <2>2 DEF At
<1> QED
  BY <1>3, <1>4, <1>5, <1>6

LEMMA TickKeepsTimes == ASSUME TimedInv, Tick PROVE RunsAreTimed'
<1> SUFFICES ASSUME NEW d \in Callers, At(d, "call")'
             PROVE  /\ call'[d] \in {1, 2, 3}
                    /\ rows'[AttemptOf[d]].state = "vendor_started"
                         => rows'[AttemptOf[d]].age <= Spent(d)'
  BY DEF RunsAreTimed, Row
<1>1. TypeOK /\ AttemptOf[d] \in Attempts /\ Deadline \in Nat
  BY GenerationAssumption DEF TimedInv, IInv
<1>2. At(d, "call") /\ call'[d] = call[d] /\ waited'[d] = waited[d] + 1
  BY DEF Tick, At
<1>3. /\ call[d] \in {1, 2, 3}
      /\ rows[AttemptOf[d]].state = "vendor_started" => rows[AttemptOf[d]].age <= Spent(d)
  BY <1>2 DEF TimedInv, RunsAreTimed, Row
<1>4. /\ rows'[AttemptOf[d]].state = rows[AttemptOf[d]].state
      /\ rows'[AttemptOf[d]].age \in {rows[AttemptOf[d]].age, rows[AttemptOf[d]].age + 1}
  BY <1>1, TickMoves
<1>5. Spent(d)' = Spent(d) + 1 /\ Spent(d) \in Nat
  <2>1. waited[d] \in Nat
    BY <1>1 DEF TypeOK
  <2> QED
    BY <1>1, <1>2, <2>1 DEF Spent
<1>6. rows[AttemptOf[d]].age \in Nat
  BY <1>1, RowsSpace, HorizonNat DEF RowSpace
<1> QED
  BY <1>2, <1>3, <1>4, <1>5, <1>6

LEMMA RestKeepsTimes ==
  ASSUME TimedInv,
         Receive \/ World \/ UNCHANGED vars \/ \E c \in Callers : Crash(c) \/ LoseConnection(c)
  PROVE  RunsAreTimed'
<1> SUFFICES ASSUME NEW d \in Callers, At(d, "call")'
             PROVE  /\ call'[d] \in {1, 2, 3}
                    /\ rows'[AttemptOf[d]].state = "vendor_started"
                         => rows'[AttemptOf[d]].age <= Spent(d)'
  BY DEF RunsAreTimed, Row
<1>1. TypeOK /\ AttemptOf[d] \in Attempts
  BY GenerationAssumption DEF TimedInv, IInv
<1>2. UNCHANGED <<call, waited>> /\ At(d, "call")
  <2>1. pc \in [Callers -> Places]
    BY <1>1 DEF TypeOK
  <2>2. UNCHANGED <<call, waited>>
        /\ (pc' = pc \/ \E c \in Callers : pc' = [pc EXCEPT ![c] = "crashed"])
    BY DEF Receive, World, Crash, LoseConnection, vars, callerVars
  <2> QED
    BY <2>1, <2>2 DEF At
<1>3. \/ rows'[AttemptOf[d]] = rows[AttemptOf[d]]
      \/ rows'[AttemptOf[d]].state # "vendor_started"
  <2>1. CASE Receive
    BY <1>1, <2>1, ReceiveMoves
  <2>2. CASE UNCHANGED rows
    BY <2>2
  <2> QED
    BY <2>1, <2>2 DEF World, Crash, LoseConnection, NoRowChange, vars
<1>4. Spent(d)' = Spent(d)
  BY <1>2 DEF Spent
<1>5. /\ call[d] \in {1, 2, 3}
      /\ rows[AttemptOf[d]].state = "vendor_started" => rows[AttemptOf[d]].age <= Spent(d)
  BY <1>2 DEF TimedInv, RunsAreTimed, Row
<1> QED
  BY <1>2, <1>3, <1>4, <1>5

LEMMA TimedInit == Init => TimedInv
<1> SUFFICES ASSUME Init PROVE TimedInv
  OBVIOUS
<1>1. IInv
  BY InitIInv
<1>2. \A c \in Callers : pc[c] = "pause"
  BY DEF Init
<1> QED
  BY <1>1, <1>2 DEF TimedInv, CameByVendor, RunsAreTimed, At

LEMMA TimedStep == TimedInv /\ [Next]_vars => TimedInv'
<1> SUFFICES ASSUME TimedInv, [Next]_vars PROVE TimedInv'
  OBVIOUS
<1>1. IInv'
  BY NextIInv DEF TimedInv
<1>2. CameByVendor'
  BY CameByVendorStep DEF TimedInv
<1>3. RunsAreTimed'
  BY StepKeepsTimes, TickKeepsTimes, RestKeepsTimes DEF Next
<1> QED
  BY <1>1, <1>2, <1>3 DEF TimedInv

LEMMA TimedInvariance == Spec => []TimedInv
BY TimedInit, TimedStep, PTL DEF Spec

-----------------------------------------------------------------------------
(* Why an attempt ends                                                     *)

LEMMA RunsStand ==
  ASSUME TimedInv, [Next]_vars, 2 * Deadline <= Grace
  PROVE  LiveRunsStand
<1> SUFFICES ASSUME NEW c \in Callers, At(c, "call"), Row(c).state = "vendor_started"
             PROVE  rows'[AttemptOf[c]].state = "vendor_started"
  BY DEF LiveRunsStand
<1> DEFINE a == AttemptOf[c]
<1>1. TypeOK /\ a \in Attempts /\ rows[a].state = "vendor_started" /\ pc[c] = "call"
  BY GenerationAssumption DEF TimedInv, IInv, Row, At
<1>2. c \in vendorRuns[a]
  BY <1>1 DEF TimedInv, CameByVendor
<1>3. ASSUME NEW d \in Callers, Step(d) PROVE rows'[a].state = "vendor_started"
  <2>1. RowMove(d) /\ AttemptOf[d] \in Attempts
    BY <1>1, <1>3, StepMoves, GenerationAssumption
  <2>2. AttemptOf[d] = a /\ d \in vendorRuns[a] => d = c
    BY <1>1, <1>2 DEF TimedInv, IInv, OneVendorRun
  <2>3. AttemptOf[d] = a /\ pc[d] \in {"checkpoint", "settle", "refuse", "recover"} => d = c
    BY <1>1, <2>2 DEF TimedInv, CameByVendor, Row, Past
  <2> QED
    BY <1>1, <2>1, <2>3 DEF RowMove, At
<1>4. CASE Receive
  <2>1. rows[a].age <= Spent(c)
    BY <1>1 DEF TimedInv, RunsAreTimed, Row
  <2>2. Spent(c) \in 0..(3 * Deadline) /\ rows[a].age \in 0..Horizon
    BY <1>1, SpentWithin, RowsSpace DEF RowSpace
  <2>3. rows[a].age <= StartedLimit
    BY <2>1, <2>2, HorizonNat, GenerationAssumption DEF StartedLimit
  <2>4. Ended(rows[a]) = rows[a].state
    <3>1. StartedLimit \in Nat /\ rows[a].age \in Nat
      BY <2>2, HorizonNat, GenerationAssumption DEF StartedLimit
    <3> QED
      BY <1>1, <2>3, <3>1 DEF Ended
  <2> QED
    BY <1>1, <1>4, <2>4, ReceiveMoves
<1>5. CASE Tick
  BY <1>1, <1>5, TickMoves
<1>6. CASE UNCHANGED rows
  BY <1>1, <1>6
<1> QED
  BY <1>3, <1>4, <1>5, <1>6
  DEF Next, World, Crash, LoseConnection, NoRowChange, vars

LEMMA AnswersStand == ASSUME TimedInv, [Next]_vars PROVE AnswersOutliveCrashes
<1> SUFFICES ASSUME NEW a \in Attempts, rows[a].state = "vendor_complete",
                    rows'[a].state = "recovery_required"
             PROVE  \/ rows[a].age > ClearLimit
                    \/ \E c \in Callers : AttemptOf[c] = a /\ At(c, "recover")
  BY DEF AnswersOutliveCrashes
<1>1. TypeOK
  BY DEF TimedInv, IInv
<1>2. ASSUME NEW d \in Callers, Step(d)
      PROVE  \E c \in Callers : AttemptOf[c] = a /\ At(c, "recover")
  <2>1. RowMove(d)
    BY <1>1, <1>2, StepMoves
  <2> QED
    BY <2>1 DEF RowMove
<1>3. CASE Receive
  <2>1. Ended(rows[a]) # rows[a].state
    BY <1>1, <1>3, ReceiveMoves
  <2> QED
    BY <2>1 DEF Ended
<1>4. CASE Tick
  BY <1>1, <1>4, TickMoves
<1>5. CASE UNCHANGED rows
  BY <1>5
<1> QED
  BY <1>2, <1>3, <1>4, <1>5
  DEF Next, World, Crash, LoseConnection, NoRowChange, vars

(* Where the grace leaves room for the two other calls a run may make, the *)
(* receiver gives up no run that is still going, and no stored answer      *)
(* before its own clock runs out or the caller's transaction fails on it.  *)
THEOREM GenerationEndsAreJust ==
  ASSUME 2 * Deadline <= Grace PROVE Spec => EndsAreJust
<1>1. TimedInv /\ [Next]_vars => LiveRunsStand /\ AnswersOutliveCrashes
  BY RunsStand, AnswersStand
<1> QED
  BY <1>1, TimedInvariance, PTL DEF Spec, EndsAreJust

-----------------------------------------------------------------------------
(***************************************************************************)
(* The run slots under the pipeline: as long as no connection that holds a *)
(* slot is lost under its run, the workspace has no more runs at the vendor*)
(* than the tier's limit.                                                  *)
(***************************************************************************)

(* A caller between the slot and its release.                              *)
Inside(c) ==
  pc[c] \in {"brain", "claim", "start", "call", "checkpoint", "settle", "refuse", "recover",
             "release"}

(* Whoever is inside holds an index.  An index has one holder, so there    *)
(* are no more of them than indices.                                       *)
Seated == \A c \in Callers : Inside(c) => \E i \in Indices : lock[i] = c

SlotInv == TypeOK /\ Seated

-----------------------------------------------------------------------------
(* A step that moves no lock, and lets nobody in.                          *)
LEMMA KeepsSeats ==
  ASSUME Seated, UNCHANGED lock, \A c \in Callers : Inside(c)' => Inside(c)
  PROVE  Seated'
BY DEF Seated

(* A step that frees only the locks of one who is no longer inside.        *)
LEMMA LeavesSeat ==
  ASSUME SlotInv, NEW c \in Callers, FreeSlot(c), ~Inside(c)',
         \A d \in Callers \ {c} : Inside(d)' => Inside(d)
  PROVE  Seated'
<1> SUFFICES ASSUME NEW d \in Callers, Inside(d)' PROVE \E i \in Indices : lock'[i] = d
  BY DEF Seated
<1>1. d # c /\ Inside(d)
  OBVIOUS
<1>2. PICK i \in Indices : lock[i] = d
  BY <1>1 DEF SlotInv, Seated
<1> QED
  BY <1>1, <1>2 DEF FreeSlot

LEMMA TakesSeat == ASSUME SlotInv, NEW c \in Callers, AcquireSlot(c) PROVE Seated'
<1>1. pc \in [Callers -> Places] /\ lock \in [Indices -> Callers \cup {Nobody}]
      /\ probe[c] \in 0..Limit
  BY DEF SlotInv, TypeOK, SlotTypeOK
<1>2. CASE TakeSlot(c) /\ GoTo(c, "brain")
  <2>1. probe[c] \in Indices /\ lock[probe[c]] = Nobody
    BY <1>1, <1>2, SlotAssumption DEF TakeSlot, IsFree, Indices
  <2>2. lock'[probe[c]] = c /\ \A i \in Indices \ {probe[c]} : lock'[i] = lock[i]
    BY <1>1, <1>2, <2>1 DEF TakeSlot
  <2> SUFFICES ASSUME NEW d \in Callers, Inside(d)' PROVE \E i \in Indices : lock'[i] = d
    BY DEF Seated
  <2>3. CASE d = c
    BY <2>1, <2>2, <2>3
  <2>4. CASE d # c
    <3>1. Inside(d)
      BY <1>1, <1>2, <2>4 DEF GoTo, Inside
    <3>2. PICK i \in Indices : lock[i] = d
      BY <3>1 DEF SlotInv, Seated
    <3> QED
      BY <2>1, <2>2, <3>2, SlotAssumption
  <2> QED
    BY <2>3, <2>4
<1>3. CASE PassSlot(c) /\ UNCHANGED callerVars
  BY <1>3, KeepsSeats DEF PassSlot, callerVars, Inside, SlotInv
<1>4. CASE NoSlot(c) /\ TurnedAway(c, "busy")
  BY <1>1, <1>4, KeepsSeats DEF NoSlot, TurnedAway, slotVars, Inside, SlotInv
<1> QED
  BY <1>2, <1>3, <1>4 DEF AcquireSlot

(* Every other step of a caller moves no lock, and leaves it outside or    *)
(* where it already was inside.                                            *)
LEMMA OtherStepKeepsSeats ==
  ASSUME SlotInv, NEW c \in Callers,
         \/ CheckPause(c) \/ CheckCap(c) \/ CheckFunds(c) \/ ReadBrain(c) \/ Claim(c)
         \/ Start(c) \/ VendorAnswers(c) \/ Checkpoint(c) \/ Settle(c) \/ RecordRefusal(c)
         \/ RecordRecoveryRequired(c)
  PROVE  Seated'
<1>1. pc \in [Callers -> Places]
  BY DEF SlotInv, TypeOK
<1>2. UNCHANGED lock
  BY DEF CheckPause, CheckCap, CheckFunds, ReadBrain, Claim, Start, VendorAnswers, Checkpoint,
         Settle, RecordRefusal, RecordRecoveryRequired, slotVars
<1>3. CASE CheckPause(c) \/ CheckCap(c) \/ CheckFunds(c)
  <2>1. PICK p \in {"cap", "funds", "slot", "done"} : pc' = [pc EXCEPT ![c] = p]
    BY <1>3 DEF CheckPause, CheckCap, CheckFunds, TurnedAway, GoTo
  <2> QED
    BY <1>1, <1>2, <2>1, KeepsSeats DEF Inside, SlotInv
<1>4. CASE ~(CheckPause(c) \/ CheckCap(c) \/ CheckFunds(c))
  <2>1. Inside(c)
    BY <1>4
    DEF ReadBrain, Claim, Start, VendorAnswers, Checkpoint, Settle, RecordRefusal,
        RecordRecoveryRequired, At, Inside
  <2>2. PICK p \in Places : pc' = [pc EXCEPT ![c] = p] \/ pc' = pc
    BY <1>4
    DEF ReadBrain, Claim, Start, VendorAnswers, Usable, Accepted, NextCall, Wasted, Failed,
        Checkpoint, Settle, RecordRefusal, RecordRecoveryRequired, GoTo, Leave, Places
  <2> QED
    BY <1>1, <1>2, <2>1, <2>2, KeepsSeats DEF Inside, SlotInv
<1> QED
  BY <1>3, <1>4

LEMMA LeavingKeepsSeats ==
  ASSUME SlotInv, NEW c \in Callers, Release(c) \/ Crash(c) PROVE Seated'
<1>1. pc \in [Callers -> Places]
  BY DEF SlotInv, TypeOK
<1>2. PICK p \in {"done", "crashed"} : pc' = [pc EXCEPT ![c] = p]
  BY DEF Release, Crash, GoTo
<1>3. FreeSlot(c)
  BY DEF Release, Crash
<1> QED
  BY <1>1, <1>2, <1>3, LeavesSeat DEF Inside

LEMMA SeatedStep ==
  ASSUME SlotInv, [Next]_vars, "connloss" \notin Happenings PROVE Seated'
<1>1. ASSUME NEW c \in Callers, Step(c) \/ Crash(c) PROVE Seated'
  BY <1>1, TakesSeat, OtherStepKeepsSeats, LeavingKeepsSeats DEF Step
<1>2. ASSUME NEW c \in Callers, LoseConnection(c) PROVE Seated'
  BY <1>2 DEF LoseConnection
<1>3. CASE Receive \/ Tick \/ World \/ UNCHANGED vars
  <2>1. UNCHANGED <<lock, pc>>
    BY <1>3 DEF Receive, Tick, World, vars, slotVars, callerVars
  <2> QED
    BY <2>1, KeepsSeats DEF Inside, SlotInv
<1> QED
  BY <1>1, <1>2, <1>3 DEF Next

-----------------------------------------------------------------------------
(* Callers inside are at most as many as indices: a caller's index tells   *)
(* it from every other.                                                    *)
LEMMA SeatsBoundRuns == SlotInv => RunsWithinLimit
<1> SUFFICES ASSUME SlotInv PROVE RunsWithinLimit
  OBVIOUS
<1> DEFINE S == {c \in Callers : At(c, "call")}
           f == [c \in S |-> CHOOSE i \in Indices : lock[i] = c]
<1>1. \A c \in S : f[c] \in Indices /\ lock[f[c]] = c
  BY DEF SlotInv, Seated, Inside, At
<1>2. f \in Injection(S, Indices)
  <2>1. f \in [S -> Indices]
    BY <1>1
  <2>2. \A c, d \in S : f[c] = f[d] => c = d
    BY <1>1
  <2> QED
    BY <2>1, <2>2 DEF Injection, IsInjective
<1>3. IsFiniteSet(Indices) /\ Cardinality(Indices) = Limit
  BY SlotAssumption, FS_Interval DEF Indices
<1> HIDE DEF f, S
<1>4. Cardinality(S) <= Limit
  BY <1>2, <1>3, FS_Injection
<1> QED
  BY <1>4 DEF RunsWithinLimit, S

LEMMA SeatedInit == Init => Seated
BY DEF Init, Seated, Inside

(* A run holds its slot from before the vendor until it is over, so a      *)
(* workspace's runs at the vendor stay within its tier's limit, unless     *)
(* the connection of a slot is lost.                                       *)
THEOREM SlotsBoundRuns ==
  ASSUME "connloss" \notin Happenings
  PROVE  Spec => []RunsWithinLimit
<1>1. Init => SlotInv
  BY SeatedInit, InitTypeOK DEF SlotInv
<1>2. SlotInv /\ [Next]_vars /\ TypeOK' => SlotInv'
  BY SeatedStep DEF SlotInv
<1>3. Spec => []SlotInv
  BY <1>1, <1>2, GenerationTypeOK, PTL DEF Spec
<1> QED
  BY <1>3, SeatsBoundRuns, PTL

-----------------------------------------------------------------------------
(***************************************************************************)
(* The included build, for any presses, profiles, configurations, slots    *)
(* and turns of the world.                                                 *)
(***************************************************************************)

buildStateVars == <<slotVars, balance, paused, buildVars>>

(* What a press has written by the step it is at: nothing before its       *)
(* answer is recorded, no debit before its debit step, and a charge only   *)
(* for a recorded success.                                                 *)
WrittenInOrder ==
  \A c \in Callers :
    /\ stage[c] \in {"profile", "open", "config", "quote", "uncharged", "credits",
                     "acquire", "vendor", "record"}
         => usage[c] = "none" /\ debit[c] = 0 /\ c \notin settled
    /\ stage[c] = "debit" => usage[c] = "succeeded" /\ debit[c] = 0 /\ c \notin settled
    /\ stage[c] = "store" => c \in settled
    /\ c \in settled => usage[c] = "succeeded"

BuildInv == BuildTypeOK /\ WrittenInOrder /\ OneIncludedBuild

-----------------------------------------------------------------------------
(* Types                                                                   *)

LEMMA SlotTypeStep ==
  ASSUME SlotTypeOK, NEW c \in Callers,
         TakeSlot(c) \/ PassSlot(c) \/ FreeSlot(c) \/ UNCHANGED slotVars
  PROVE  SlotTypeOK'
BY SlotAssumption DEF SlotTypeOK, TakeSlot, PassSlot, FreeSlot, slotVars, Indices

LEMMA PriceIsNat == ASSUME BuildTypeOK, NEW c \in Callers PROVE PriceOf(c) \in Nat
<1>1. told[c] \in [build : Nat, rebuild : Nat]
  BY BuildAssumption DEF BuildTypeOK
<1> QED
  BY <1>1 DEF PriceOf

LEMMA BuildTypeBefore ==
  ASSUME BuildTypeOK, NEW c \in Callers,
         CheckProfile(c) \/ CheckOpen(c) \/ ReadConfig(c) \/ Quote(c) \/ CheckUncharged(c)
           \/ CheckCredits(c) \/ AcquireForBuild(c)
  PROVE  BuildTypeOK'
<1>1. SlotTypeOK'
  BY SlotTypeStep
  DEF BuildTypeOK, CheckProfile, CheckOpen, ReadConfig, Quote, CheckUncharged, CheckCredits,
      AcquireForBuild, Check, NoSlot
<1>2. told' \in [Callers -> Documents] /\ quote' \in [Callers -> Nat]
  BY PriceIsNat
  DEF BuildTypeOK, CheckProfile, CheckOpen, ReadConfig, Quote, CheckUncharged, CheckCredits,
      AcquireForBuild, Check
<1>3. PICK s \in {"profile", "open", "config", "quote", "uncharged", "credits", "acquire",
                  "vendor", "over"} : stage' = [stage EXCEPT ![c] = s] \/ stage' = stage
  BY DEF CheckProfile, CheckOpen, ReadConfig, Quote, CheckUncharged, CheckCredits,
         AcquireForBuild, Check, Onward
<1>4. UNCHANGED <<balance, paused, answer, bookVars, inactive, document>>
  BY DEF CheckProfile, CheckOpen, ReadConfig, Quote, CheckUncharged, CheckCredits,
         AcquireForBuild, Check
<1> QED
  BY <1>1, <1>2, <1>3, <1>4 DEF BuildTypeOK, bookVars

LEMMA BuildTypeAfter ==
  ASSUME BuildTypeOK, NEW c \in Callers,
         HearVendor(c) \/ Record(c) \/ Debit(c) \/ ReleaseBuild(c) \/ StoreVoice(c)
           \/ CrashBuild(c),
         stage[c] = "store" => c \in settled
  PROVE  BuildTypeOK'
<1>1. CASE HearVendor(c)
  BY <1>1, SlotTypeStep DEF HearVendor, BuildTypeOK, Onward, bookVars
<1>2. CASE Record(c)
  <2>1. SlotTypeOK'
    BY <1>2, SlotTypeStep DEF Record, BuildTypeOK
  <2>2. usage' \in [Callers -> Answers \cup {"none"}]
    BY <1>2 DEF Record, RecordUsage, BuildTypeOK
  <2>3. holder' \in [Profiles -> Callers \cup {Nobody}]
    BY <1>2 DEF Record, RecordUsage, BuildTypeOK
  <2>4. PICK s \in {"debit", "free"} : stage' = [stage EXCEPT ![c] = s]
    BY <1>2 DEF Record, Onward
  <2>5. UNCHANGED <<balance, paused, told, quote, answer, debit, settled, built, inactive,
                    document>>
    BY <1>2 DEF Record
  <2> QED
    BY <2>1, <2>2, <2>3, <2>4, <2>5 DEF BuildTypeOK
<1>3. CASE Debit(c)
  BY <1>3, SlotTypeStep, PriceIsNat DEF Debit, PayBuild, DebitPrice, BuildTypeOK, Onward
<1>4. CASE ReleaseBuild(c)
  BY <1>4, SlotTypeStep DEF ReleaseBuild, BuildTypeOK, Onward, bookVars
<1>5. CASE StoreVoice(c)
  BY <1>5, SlotTypeStep DEF StoreVoice, BuildTypeOK, Onward, On
<1>6. CASE CrashBuild(c)
  BY <1>6, SlotTypeStep DEF CrashBuild, BuildTypeOK, Onward, bookVars
<1> QED
  BY <1>1, <1>2, <1>3, <1>4, <1>5, <1>6

LEMMA BuildTypeAround == ASSUME BuildTypeOK, AroundBuilds PROVE BuildTypeOK'
<1>1. SlotTypeOK'
  BY DEF BuildTypeOK, AroundBuilds, SlotTypeOK, slotVars, Indices
<1> QED
  BY <1>1 DEF BuildTypeOK, AroundBuilds, pressVars, bookVars

-----------------------------------------------------------------------------
(* A step of one press that writes none of the books, and leaves the       *)
(* configuration of every press that has written any, keeps the rest.      *)
LEMMA QuietStep ==
  ASSUME BuildInv, NEW c \in Callers, UNCHANGED <<bookVars, balance>>,
         \E s \in {"profile", "open", "config", "quote", "uncharged", "credits",
                   "acquire", "vendor", "record", "free", "store", "over", "crashed"} :
           /\ stage' = [stage EXCEPT ![c] = s] \/ stage' = stage
           /\ s = "store" => c \in settled
           /\ s \notin {"free", "store", "over", "crashed"}
                => usage[c] = "none" /\ debit[c] = 0 /\ c \notin settled,
         \A d \in settled : told'[d] = told[d]
  PROVE  WrittenInOrder' /\ OneIncludedBuild'
<1>1. WrittenInOrder'
  BY DEF BuildInv, WrittenInOrder, BuildTypeOK, bookVars
<1>2. HolderConsumed'
  BY DEF BuildInv, OneIncludedBuild, HolderConsumed, bookVars
<1>3. ChargedByTheClaim'
  BY DEF BuildInv, OneIncludedBuild, ChargedByTheClaim, bookVars, Holder
<1> QED
  BY <1>1, <1>2, <1>3 DEF OneIncludedBuild

LEMMA BeforeVendor ==
  ASSUME BuildInv, NEW c \in Callers,
         CheckProfile(c) \/ CheckOpen(c) \/ ReadConfig(c) \/ Quote(c) \/ CheckUncharged(c)
           \/ CheckCredits(c) \/ AcquireForBuild(c) \/ HearVendor(c)
  PROVE  WrittenInOrder' /\ OneIncludedBuild'
<1>1. stage[c] \in {"profile", "open", "config", "quote", "uncharged", "credits",
                    "acquire", "vendor"}
  BY DEF CheckProfile, CheckOpen, ReadConfig, Quote, CheckUncharged, CheckCredits,
         AcquireForBuild, HearVendor, Check, On
<1>2. usage[c] = "none" /\ debit[c] = 0 /\ c \notin settled
  BY <1>1 DEF BuildInv, WrittenInOrder
<1>3. PICK s \in {"profile", "open", "config", "quote", "uncharged", "credits", "acquire",
                  "vendor", "record", "over"} :
        stage' = [stage EXCEPT ![c] = s] \/ stage' = stage
  BY DEF CheckProfile, CheckOpen, ReadConfig, Quote, CheckUncharged, CheckCredits,
         AcquireForBuild, HearVendor, Check, Onward
<1>4. UNCHANGED <<bookVars, balance>>
  BY DEF CheckProfile, CheckOpen, ReadConfig, Quote, CheckUncharged, CheckCredits,
         AcquireForBuild, HearVendor, Check
<1>5. \A d \in settled : told'[d] = told[d]
  BY <1>2
  DEF CheckProfile, CheckOpen, ReadConfig, Quote, CheckUncharged, CheckCredits,
      AcquireForBuild, HearVendor, Check, BuildInv, BuildTypeOK
<1> QED
  BY <1>2, <1>3, <1>4, <1>5, QuietStep

LEMMA AfterDebit ==
  ASSUME BuildInv, NEW c \in Callers, ReleaseBuild(c) \/ CrashBuild(c)
  PROVE  WrittenInOrder' /\ OneIncludedBuild'
<1>1. UNCHANGED <<bookVars, balance, told>>
  BY DEF ReleaseBuild, CrashBuild
<1>2. \E s \in {"store", "over", "crashed"} :
        stage' = [stage EXCEPT ![c] = s] /\ (s = "store" => c \in settled)
  BY DEF ReleaseBuild, CrashBuild, Onward
<1> QED
  BY <1>1, <1>2, QuietStep

LEMMA StoredIsQuiet ==
  ASSUME BuildInv, NEW c \in Callers, StoreVoice(c) PROVE WrittenInOrder' /\ OneIncludedBuild'
<1>1. WrittenInOrder'
  BY DEF StoreVoice, Onward, BuildInv, WrittenInOrder, BuildTypeOK
<1>2. OneIncludedBuild'
  BY DEF StoreVoice, BuildInv, OneIncludedBuild, HolderConsumed, ChargedByTheClaim, Holder
<1> QED
  BY <1>1, <1>2

-----------------------------------------------------------------------------
(* The two steps that write the books                                      *)

LEMMA RecordKeeps ==
  ASSUME BuildInv, NEW c \in Callers, Record(c) PROVE WrittenInOrder' /\ OneIncludedBuild'
<1>1. usage[c] = "none" /\ debit[c] = 0 /\ c \notin settled
  BY DEF BuildInv, WrittenInOrder, Record, On
<1>2. ProfileOf[c] \in Profiles
  BY BuildAssumption
<1>3. UNCHANGED <<balance, told, debit, settled>>
  BY DEF Record
<1>4. CASE UNCHANGED <<usage, holder>>
  <2>1. \E s \in {"free"} : stage' = [stage EXCEPT ![c] = s]
    BY <1>4, <1>1 DEF Record, Onward, RecordUsage, BuildInv, BuildTypeOK
  <2> QED
    BY <2>1, <1>3, <1>4, QuietStep DEF Record, bookVars
<1>5. CASE RecordUsage(c)
  <2>1. \/ stage' = [stage EXCEPT ![c] = "free"]
        \/ stage' = [stage EXCEPT ![c] = "debit"] /\ answer[c] = "succeeded"
    BY DEF Record, Onward
  <2>2. usage' = [usage EXCEPT ![c] = answer[c]]
    BY <1>5 DEF RecordUsage
  <2>3. WrittenInOrder'
    BY <1>1, <1>3, <2>1, <2>2 DEF BuildInv, WrittenInOrder, BuildTypeOK
  <2>4. HolderConsumed'
    BY <1>1, <1>2, <1>5
    DEF RecordUsage, BuildInv, OneIncludedBuild, HolderConsumed, Holder, BuildTypeOK, Consuming
  <2>5. \A d \in settled : Holder(d) # Nobody
    BY SlotAssumption, BuildAssumption
    DEF BuildInv, WrittenInOrder, OneIncludedBuild, HolderConsumed, Holder, Consuming, BuildTypeOK
  <2>6. \A d \in settled : Holder(d)' = Holder(d)
    BY <2>5, <1>5, BuildAssumption DEF RecordUsage, Holder, BuildInv, BuildTypeOK
  <2>7. ChargedByTheClaim'
    BY <2>6, <1>3 DEF BuildInv, OneIncludedBuild, ChargedByTheClaim
  <2> QED
    BY <2>3, <2>4, <2>7 DEF OneIncludedBuild
<1> QED
  BY <1>4, <1>5 DEF Record

LEMMA DebitKeeps ==
  ASSUME BuildInv, NEW c \in Callers, Debit(c) PROVE WrittenInOrder' /\ OneIncludedBuild'
<1>1. usage[c] = "succeeded" /\ debit[c] = 0 /\ c \notin settled
  BY DEF BuildInv, WrittenInOrder, Debit, On
<1>2. UNCHANGED <<told, usage, holder>> /\ stage' = [stage EXCEPT ![c] = "free"]
  BY DEF Debit, Onward
<1>3. HolderConsumed'
  BY <1>2 DEF BuildInv, OneIncludedBuild, HolderConsumed
<1>4. WrittenInOrder'
  <2>1. \A d \in Callers \ {c} : debit'[d] = debit[d] /\ (d \in settled' <=> d \in settled)
    BY DEF Debit, PayBuild, BuildInv, BuildTypeOK
  <2> QED
    BY <1>1, <1>2, <2>1 DEF BuildInv, WrittenInOrder, BuildTypeOK
<1>5. ChargedByTheClaim'
  <2>1. CASE PayBuild(c) /\ (settled' = settled \cup {c} \/ settled' = settled)
    <3>1. PriceOf(c) \in Nat
      BY PriceIsNat DEF BuildInv
    <3>2. balance' >= 0
      BY <2>1, <3>1
      DEF PayBuild, DebitPrice, DebitRefused, BuildInv, BuildTypeOK, OneIncludedBuild,
          ChargedByTheClaim
    <3>3. debit'[c] = IF Holder(c) = c THEN told[c].build ELSE told[c].rebuild
      BY <2>1 DEF PayBuild, DebitPrice, PriceOf, BuildInv, BuildTypeOK
    <3>4. \A d \in settled : d # c /\ debit'[d] = debit[d]
      BY <1>1, <2>1 DEF PayBuild, BuildInv, BuildTypeOK
    <3> QED
      BY <1>2, <2>1, <3>2, <3>3, <3>4
      DEF BuildInv, OneIncludedBuild, ChargedByTheClaim, Holder
  <2>2. CASE UNCHANGED <<balance, debit, settled>>
    BY <1>2, <2>2 DEF BuildInv, OneIncludedBuild, ChargedByTheClaim, Holder
  <2> QED
    BY <2>1, <2>2 DEF Debit
<1> QED
  BY <1>3, <1>4, <1>5 DEF OneIncludedBuild

-----------------------------------------------------------------------------
LEMMA BuildInvInit == BuildInit => BuildInv
<1> SUFFICES ASSUME BuildInit PROVE BuildInv
  OBVIOUS
<1>1. BuildTypeOK
  <2>1. SlotTypeOK
    BY SlotAssumption DEF BuildInit, SlotInit, SlotTypeOK, Indices
  <2>2. balance \in Int
    BY BuildAssumption DEF BuildInit
  <2>3. paused \in BOOLEAN
    BY DEF BuildInit
  <2>4. /\ stage \in [Callers -> {"profile"}] /\ holder \in [Profiles -> {Nobody}]
        /\ told \in [Callers -> Documents] /\ document \in Documents
    BY DEF BuildInit
  <2>5. /\ answer \in [Callers -> {"none"}] /\ usage \in [Callers -> {"none"}]
        /\ quote \in [Callers -> {0}] /\ debit \in [Callers -> {0}]
        /\ settled = {} /\ built = {} /\ inactive = {}
    BY DEF BuildInit
  <2> QED
    BY <2>1, <2>2, <2>3, <2>4, <2>5 DEF BuildTypeOK
<1>2. WrittenInOrder
  BY DEF BuildInit, WrittenInOrder
<1>3. HolderConsumed
  BY DEF BuildInit, HolderConsumed, Consuming
<1>4. ChargedByTheClaim
  BY BuildAssumption DEF BuildInit, ChargedByTheClaim
<1> QED
  BY <1>1, <1>2, <1>3, <1>4 DEF BuildInv, OneIncludedBuild

LEMMA BuildInvStep == BuildInv /\ [BuildNext]_buildStateVars => BuildInv'
<1> SUFFICES ASSUME BuildInv, [BuildNext]_buildStateVars PROVE BuildInv'
  OBVIOUS
<1>1. ASSUME NEW c \in Callers, BuildStep(c) \/ CrashBuild(c) PROVE BuildInv'
  <2>1. BuildTypeOK'
    BY <1>1, BuildTypeBefore, BuildTypeAfter DEF BuildStep, BuildInv, WrittenInOrder
  <2>2. WrittenInOrder' /\ OneIncludedBuild'
    BY <1>1, BeforeVendor, RecordKeeps, DebitKeeps, AfterDebit, StoredIsQuiet DEF BuildStep
  <2> QED
    BY <2>1, <2>2 DEF BuildInv
<1>2. CASE AroundBuilds
  <2>1. BuildTypeOK'
    BY <1>2, BuildTypeAround DEF BuildInv
  <2>2. UNCHANGED <<pressVars, bookVars, balance>>
    BY <1>2 DEF AroundBuilds
  <2>3. WrittenInOrder'
    BY <2>2 DEF BuildInv, WrittenInOrder, pressVars, bookVars
  <2>4. OneIncludedBuild'
    BY <2>2
    DEF BuildInv, OneIncludedBuild, HolderConsumed, ChargedByTheClaim, Holder, pressVars, bookVars
  <2> QED
    BY <2>1, <2>3, <2>4 DEF BuildInv
<1>3. CASE UNCHANGED buildStateVars
  <2>1. BuildTypeOK'
    BY <1>3
    DEF buildStateVars, buildVars, pressVars, bookVars, slotVars, BuildInv, BuildTypeOK, SlotTypeOK
  <2>2. WrittenInOrder' /\ OneIncludedBuild'
    BY <1>3
    DEF buildStateVars, buildVars, pressVars, bookVars, BuildInv, WrittenInOrder, OneIncludedBuild,
        HolderConsumed, ChargedByTheClaim, Holder
  <2> QED
    BY <2>1, <2>2 DEF BuildInv
<1> QED
  BY <1>1, <1>2, <1>3 DEF BuildNext

LEMMA BuildInvariant == BuildSpec => []BuildInv
<1> QED
  BY BuildInvInit, BuildInvStep, PTL DEF BuildSpec, buildStateVars

(* Types of the variables of inference.ts's presses and rows.              *)
THEOREM BuildTypes == BuildSpec => []BuildTypeOK
<1>1. BuildInv => BuildTypeOK
  BY DEF BuildInv
<1> QED
  BY <1>1, BuildInvariant, PTL

(* However presses of a profile race, one attempt has its included build,  *)
(* and every charge follows from which attempt that is.                    *)
THEOREM BuildsHaveOneIncluded == BuildSpec => []OneIncludedBuild
<1>1. BuildInv => OneIncludedBuild
  BY DEF BuildInv
<1> QED
  BY <1>1, BuildInvariant, PTL

(* The operator's report misses no debit that a build lost.                *)
THEOREM LostBuildDebitsAreReported == BuildSpec => []LostDebitsAreReported
<1>1. BuildInv => LostDebitsAreReported
  <2> SUFFICES ASSUME BuildInv PROVE LostDebitsAreReported
    OBVIOUS
  <2>1. \A c \in Delivered \ Unbilled : Holder(c) = c /\ told[c].build = 0
    BY DEF Delivered, Unbilled, Exempt
  <2>2. \A c \in Unbilled \cap settled : told[c].rebuild = 0
    BY DEF BuildInv, OneIncludedBuild, ChargedByTheClaim, Unbilled, Delivered, Exempt
  <2>3. \A c, d \in (Delivered \ Unbilled) : ProfileOf[c] = ProfileOf[d] => c = d
    BY <2>1 DEF Holder
  <2> QED
    BY <2>1, <2>2, <2>3 DEF LostDebitsAreReported
<1> QED
  BY <1>1, BuildInvariant, PTL


-----------------------------------------------------------------------------
(***************************************************************************)
(* Both operations of one workspace at once.  Each keeps what is proved of *)
(* the other, and they share the slots: whoever is between the slot and    *)
(* its release holds an index, whichever operation it runs.                *)
(***************************************************************************)

runsVars == <<vars, buildVars>>

(* A caller that builds has generated nothing, and the other way round.    *)
OneOperation ==
  \A c \in Callers : IF c \in Builders THEN pc[c] = "pause" ELSE stage[c] = "profile"

Building(c) == stage[c] \in {"vendor", "record", "debit", "free"}

Busy(c) == Inside(c) \/ Building(c)

AllSeated == \A c \in Callers : Busy(c) => \E i \in Indices : lock[i] = c

RunsInv == IInv /\ BuildInv /\ OneOperation /\ AllSeated

-----------------------------------------------------------------------------
LEMMA KeepsAllSeats ==
  ASSUME AllSeated, UNCHANGED lock, \A c \in Callers : Busy(c)' => Busy(c)
  PROVE  AllSeated'
BY DEF AllSeated

LEMMA LeavesOneSeat ==
  ASSUME AllSeated, NEW c \in Callers, FreeSlot(c), ~Busy(c)',
         \A d \in Callers \ {c} : Busy(d)' => Busy(d)
  PROVE  AllSeated'
<1> SUFFICES ASSUME NEW d \in Callers, Busy(d)' PROVE \E i \in Indices : lock'[i] = d
  BY DEF AllSeated
<1>1. d # c /\ Busy(d)
  OBVIOUS
<1>2. PICK i \in Indices : lock[i] = d
  BY <1>1 DEF AllSeated
<1> QED
  BY <1>1, <1>2 DEF FreeSlot

LEMMA TakesOneSeat ==
  ASSUME AllSeated, SlotTypeOK, NEW c \in Callers, TakeSlot(c),
         \A d \in Callers \ {c} : Busy(d)' => Busy(d)
  PROVE  AllSeated'
<1>1. probe[c] \in Indices /\ lock[probe[c]] = Nobody /\ lock \in [Indices -> Callers \cup {Nobody}]
  BY SlotAssumption DEF SlotTypeOK, TakeSlot, IsFree, Indices
<1>2. lock'[probe[c]] = c /\ \A i \in Indices \ {probe[c]} : lock'[i] = lock[i]
  BY <1>1 DEF TakeSlot
<1> SUFFICES ASSUME NEW d \in Callers, Busy(d)' PROVE \E i \in Indices : lock'[i] = d
  BY DEF AllSeated
<1>3. CASE d = c
  BY <1>1, <1>2, <1>3
<1>4. CASE d # c
  <2>1. PICK i \in Indices : lock[i] = d
    BY <1>4 DEF AllSeated
  <2> QED
    BY <1>1, <1>2, <2>1, SlotAssumption
<1> QED
  BY <1>3, <1>4

-----------------------------------------------------------------------------
(* The steps of a generation, where only the caller's place matters.       *)

LEMMA PlaceOfStep ==
  ASSUME TypeOK, NEW c \in Callers, Step(c) \/ Crash(c)
  PROVE  /\ \A d \in Callers \ {c} : pc'[d] = pc[d]
         /\ \/ UNCHANGED lock /\ (Inside(c)' => Inside(c))
            \/ FreeSlot(c) /\ ~Inside(c)'
            \/ TakeSlot(c)
<1>1. pc \in [Callers -> Places]
  BY DEF TypeOK
<1>2. CASE AcquireSlot(c)
  <2>1. \/ TakeSlot(c) /\ pc' = [pc EXCEPT ![c] = "brain"]
        \/ UNCHANGED lock /\ UNCHANGED pc
        \/ UNCHANGED lock /\ pc' = [pc EXCEPT ![c] = "done"]
    BY <1>2 DEF AcquireSlot, PassSlot, NoSlot, GoTo, TurnedAway, callerVars, slotVars
  <2> QED
    BY <1>1, <2>1 DEF Inside
<1>3. CASE Release(c) \/ Crash(c)
  <2>1. PICK p \in {"done", "crashed"} : pc' = [pc EXCEPT ![c] = p]
    BY <1>3 DEF Release, Crash, GoTo
  <2> QED
    BY <1>1, <1>3, <2>1 DEF Release, Crash, Inside
<1>4. CASE CheckPause(c) \/ CheckCap(c) \/ CheckFunds(c)
  <2>1. PICK p \in {"cap", "funds", "slot", "done"} : pc' = [pc EXCEPT ![c] = p]
    BY <1>4 DEF CheckPause, CheckCap, CheckFunds, TurnedAway, GoTo
  <2>2. UNCHANGED lock
    BY <1>4 DEF CheckPause, CheckCap, CheckFunds, slotVars
  <2> QED
    BY <1>1, <2>1, <2>2 DEF Inside
<1>5. CASE \/ ReadBrain(c) \/ Claim(c) \/ Start(c) \/ VendorAnswers(c) \/ Checkpoint(c)
           \/ Settle(c) \/ RecordRefusal(c) \/ RecordRecoveryRequired(c)
  <2>1. Inside(c) /\ UNCHANGED lock
    BY <1>5
    DEF ReadBrain, Claim, Start, VendorAnswers, Checkpoint, Settle, RecordRefusal,
        RecordRecoveryRequired, At, Inside, slotVars
  <2>2. PICK p \in Places : pc' = [pc EXCEPT ![c] = p] \/ pc' = pc
    BY <1>5
    DEF ReadBrain, Claim, Start, VendorAnswers, Usable, Accepted, NextCall, Wasted, Failed,
        Checkpoint, Settle, RecordRefusal, RecordRecoveryRequired, GoTo, Leave, Places
  <2> QED
    BY <1>1, <2>1, <2>2
<1> QED
  BY <1>2, <1>3, <1>4, <1>5 DEF Step

(* A builder is at the first step of a generation, from which a caller     *)
(* cannot but move on.                                                     *)
LEMMA BuildersDoNotGenerate ==
  ASSUME TypeOK, NEW c \in Callers, pc[c] = "pause", Step(c) \/ Crash(c) PROVE pc'[c] # pc[c]
<1>1. pc \in [Callers -> Places]
  BY DEF TypeOK
<1> QED
  BY <1>1
  DEF Step, Crash, CheckPause, CheckCap, CheckFunds, AcquireSlot, ReadBrain, Claim, Start,
      VendorAnswers, Checkpoint, Settle, RecordRefusal, RecordRecoveryRequired, Release, At,
      TurnedAway, GoTo

LEMMA GenerationKeepsSeats ==
  ASSUME RunsInv, Next, "connloss" \notin Happenings, UNCHANGED buildVars,
         \A c \in Builders : pc'[c] = pc[c]
  PROVE  OneOperation' /\ AllSeated'
<1>1. /\ TypeOK /\ SlotTypeOK /\ AllSeated /\ OneOperation /\ UNCHANGED stage
      /\ Builders \subseteq Callers
  BY RunsAssumption DEF RunsInv, IInv, TypeOK, buildVars, pressVars
<1>2. OneOperation'
  BY <1>1 DEF OneOperation
<1>3. ASSUME NEW c \in Callers, Step(c) \/ Crash(c) PROVE AllSeated'
  <2>1. c \notin Builders /\ ~Building(c)
    BY <1>1, <1>3, BuildersDoNotGenerate DEF OneOperation, Building
  <2>2. /\ \A d \in Callers \ {c} : pc'[d] = pc[d]
        /\ \/ UNCHANGED lock /\ (Inside(c)' => Inside(c))
           \/ FreeSlot(c) /\ ~Inside(c)'
           \/ TakeSlot(c)
    BY <1>1, <1>3, PlaceOfStep
  <2>3. \A d \in Callers : Building(d)' <=> Building(d)
    BY <1>1 DEF Building
  <2>4. \A d \in Callers \ {c} : Busy(d)' => Busy(d)
    BY <2>2, <2>3 DEF Busy, Inside
  <2> QED
    BY <1>1, <2>1, <2>2, <2>3, <2>4, KeepsAllSeats, LeavesOneSeat, TakesOneSeat DEF Busy
<1>4. ASSUME NEW c \in Callers, LoseConnection(c) PROVE AllSeated'
  BY <1>4 DEF LoseConnection
<1>5. CASE Receive \/ Tick \/ World
  <2>1. UNCHANGED <<lock, pc>>
    BY <1>5 DEF Receive, Tick, World, slotVars, callerVars
  <2>2. \A c \in Callers : (Inside(c)' <=> Inside(c)) /\ (Building(c)' <=> Building(c))
    BY <1>1, <2>1 DEF Inside, Building
  <2> QED
    BY <1>1, <1>2, <2>1, <2>2, KeepsAllSeats DEF Busy
<1> QED
  BY <1>2, <1>3, <1>4, <1>5 DEF Next

-----------------------------------------------------------------------------
(* The steps of a build                                                    *)

LEMMA StageOfStep ==
  ASSUME BuildTypeOK, NEW c \in Callers, BuildStep(c) \/ CrashBuild(c)
  PROVE  /\ \A d \in Callers \ {c} : stage'[d] = stage[d]
         /\ \/ UNCHANGED lock /\ (Building(c)' => Building(c))
            \/ FreeSlot(c) /\ ~Building(c)'
            \/ TakeSlot(c)
<1>1. stage \in [Callers -> {"profile", "open", "config", "quote", "uncharged", "credits",
                             "acquire", "vendor", "record", "debit", "free", "store",
                             "over", "crashed"}]
  BY DEF BuildTypeOK
<1>2. CASE AcquireForBuild(c)
  <2>1. \/ TakeSlot(c) /\ stage' = [stage EXCEPT ![c] = "vendor"]
        \/ UNCHANGED lock /\ UNCHANGED stage
        \/ UNCHANGED lock /\ stage' = [stage EXCEPT ![c] = "over"]
    BY <1>2 DEF AcquireForBuild, PassSlot, NoSlot, Onward, slotVars
  <2> QED
    BY <1>1, <2>1 DEF Building
<1>3. CASE ReleaseBuild(c) \/ CrashBuild(c)
  <2>1. PICK s \in {"store", "over", "crashed"} : stage' = [stage EXCEPT ![c] = s]
    BY <1>3 DEF ReleaseBuild, CrashBuild, Onward
  <2> QED
    BY <1>1, <1>3, <2>1 DEF ReleaseBuild, CrashBuild, Building
<1>4. CASE \/ CheckProfile(c) \/ CheckOpen(c) \/ ReadConfig(c) \/ Quote(c) \/ CheckUncharged(c)
           \/ CheckCredits(c) \/ StoreVoice(c)
  <2>1. PICK s \in {"open", "config", "quote", "uncharged", "credits", "acquire", "over"} :
          stage' = [stage EXCEPT ![c] = s]
    BY <1>4
    DEF CheckProfile, CheckOpen, ReadConfig, Quote, CheckUncharged, CheckCredits, StoreVoice,
        Check, Onward
  <2>2. UNCHANGED lock
    BY <1>4
    DEF CheckProfile, CheckOpen, ReadConfig, Quote, CheckUncharged, CheckCredits, StoreVoice,
        Check, slotVars
  <2> QED
    BY <1>1, <2>1, <2>2 DEF Building
<1>5. CASE HearVendor(c) \/ Record(c) \/ Debit(c)
  <2>1. Building(c) /\ UNCHANGED lock
    BY <1>5 DEF HearVendor, Record, Debit, On, Building, slotVars
  <2>2. PICK s \in {"record", "free", "debit"} : stage' = [stage EXCEPT ![c] = s]
    BY <1>5 DEF HearVendor, Record, Debit, Onward
  <2> QED
    BY <1>1, <2>1, <2>2
<1> QED
  BY <1>2, <1>3, <1>4, <1>5 DEF BuildStep

LEMMA GeneratorsDoNotBuild ==
  ASSUME BuildTypeOK, NEW c \in Callers, stage[c] = "profile", BuildStep(c) \/ CrashBuild(c)
  PROVE  stage'[c] # stage[c]
<1>1. stage'[c] \in {"open", "over", "crashed"}
  BY DEF BuildTypeOK, BuildStep, CrashBuild, CheckProfile, CheckOpen, ReadConfig, Quote,
         CheckUncharged, CheckCredits, AcquireForBuild, HearVendor, Record, Debit, ReleaseBuild,
         StoreVoice, Check, On, Onward
<1> QED
  BY <1>1

LEMMA BuildsKeepSeats ==
  ASSUME RunsInv, BuildNext, UNCHANGED generationVars,
         \A c \in Callers \ Builders : stage'[c] = stage[c]
  PROVE  OneOperation' /\ AllSeated'
<1>1. /\ BuildTypeOK /\ SlotTypeOK /\ AllSeated /\ OneOperation /\ UNCHANGED pc
  BY DEF RunsInv, IInv, TypeOK, BuildInv, generationVars, callerVars
<1>2. OneOperation'
  BY <1>1 DEF OneOperation
<1>3. ASSUME NEW c \in Callers, BuildStep(c) \/ CrashBuild(c) PROVE AllSeated'
  <2>1. ~Inside(c)
    BY <1>1, <1>3, GeneratorsDoNotBuild DEF OneOperation, Inside
  <2>2. /\ \A d \in Callers \ {c} : stage'[d] = stage[d]
        /\ \/ UNCHANGED lock /\ (Building(c)' => Building(c))
           \/ FreeSlot(c) /\ ~Building(c)'
           \/ TakeSlot(c)
    BY <1>1, <1>3, StageOfStep
  <2>3. \A d \in Callers : Inside(d)' <=> Inside(d)
    BY <1>1 DEF Inside
  <2>4. \A d \in Callers \ {c} : Busy(d)' => Busy(d)
    BY <2>2, <2>3 DEF Busy, Building
  <2> QED
    BY <1>1, <2>1, <2>2, <2>3, <2>4, KeepsAllSeats, LeavesOneSeat, TakesOneSeat DEF Busy
<1>4. CASE AroundBuilds
  <2>1. UNCHANGED <<lock, stage>>
    BY <1>4 DEF AroundBuilds, slotVars, pressVars
  <2>2. \A c \in Callers : (Inside(c)' <=> Inside(c)) /\ (Building(c)' <=> Building(c))
    BY <1>1, <2>1 DEF Inside, Building
  <2> QED
    BY <1>1, <1>2, <2>1, <2>2, KeepsAllSeats DEF Busy
<1> QED
  BY <1>2, <1>3, <1>4 DEF BuildNext


-----------------------------------------------------------------------------
LEMMA GenerationKeepsBuilds ==
  ASSUME BuildInv, IInv', UNCHANGED buildVars PROVE BuildInv'
<1>1. SlotTypeOK' /\ balance' \in Int /\ paused' \in BOOLEAN /\ balance' >= 0
  BY DEF IInv, TypeOK, NoOverdraft
<1>2. /\ UNCHANGED <<stage, told, quote, answer>>
      /\ UNCHANGED <<usage, holder, debit, settled, built, inactive, document>>
  BY DEF buildVars, pressVars, bookVars
<1>3. BuildTypeOK'
  BY <1>1, <1>2 DEF BuildInv, BuildTypeOK
<1>4. WrittenInOrder' /\ HolderConsumed'
  BY <1>2 DEF BuildInv, WrittenInOrder, OneIncludedBuild, HolderConsumed
<1>5. ChargedByTheClaim'
  BY <1>1, <1>2 DEF BuildInv, OneIncludedBuild, ChargedByTheClaim, Holder
<1> QED
  BY <1>3, <1>4, <1>5 DEF BuildInv, OneIncludedBuild

LEMMA BuildsKeepGeneration ==
  ASSUME IInv, BuildInv', UNCHANGED generationVars PROVE IInv'
<1>1. SlotTypeOK' /\ balance' \in Int /\ paused' \in BOOLEAN /\ balance' >= 0
  BY DEF BuildInv, BuildTypeOK, OneIncludedBuild, ChargedByTheClaim
<1>2. UNCHANGED <<pc, call, waited, seen, result, rows, made, charged, price, brain, uncharged,
                  vendorRuns>>
  BY DEF generationVars, callerVars
<1>3. TypeOK'
  BY <1>1, <1>2 DEF IInv, TypeOK
<1>4. RunInv' /\ OneVendorRun' /\ ChargedForWhatExists'
  BY <1>2 DEF IInv, RunInv, OneVendorRun, ChargedForWhatExists
<1>5. NoOverdraft'
  BY <1>1 DEF NoOverdraft
<1> QED
  BY <1>3, <1>4, <1>5 DEF IInv

(* What each operation keeps alone, both keep together.                    *)
BothInv == IInv /\ BuildInv

LEMMA BothStep == BothInv /\ [RunsNext]_runsVars => BothInv'
<1> SUFFICES ASSUME BothInv, [RunsNext]_runsVars PROVE BothInv'
  OBVIOUS
<1>1. CASE Next /\ UNCHANGED buildVars
  BY <1>1, NextIInv, GenerationKeepsBuilds DEF BothInv
<1>2. CASE BuildNext /\ UNCHANGED generationVars
  BY <1>2, BuildInvStep, BuildsKeepGeneration DEF BothInv
<1>3. CASE UNCHANGED runsVars
  <2>1. UNCHANGED vars /\ UNCHANGED buildVars
    BY <1>3 DEF runsVars
  <2> QED
    BY <2>1, NextIInv, GenerationKeepsBuilds DEF BothInv
<1> QED
  BY <1>1, <1>2, <1>3 DEF RunsNext

LEMMA BothInvariant == RunsSpec => []BothInv
<1>1. RunsInit => BothInv
  BY InitIInv, BuildInvInit DEF RunsInit, BothInv
<1> QED
  BY <1>1, BothStep, PTL DEF RunsSpec, runsVars

(* Generations and builds spend the same credits: with both under way, the *)
(* one's charges are still due and never overdraw, and the other's still   *)
(* follow from which attempt used the included build.                      *)
THEOREM RunsChargeOnce == RunsSpec => [](ChargesAreDue /\ OneVendorRun /\ OneIncludedBuild)
<1>1. BothInv => ChargesAreDue /\ OneVendorRun /\ OneIncludedBuild
  BY DEF BothInv, IInv, BuildInv, ChargesAreDue
<1> QED
  BY <1>1, BothInvariant, PTL

-----------------------------------------------------------------------------
LEMMA RunsSeatedInit == RunsInit => OneOperation /\ AllSeated
<1> SUFFICES ASSUME RunsInit PROVE OneOperation /\ AllSeated
  OBVIOUS
<1>1. \A c \in Callers : pc[c] = "pause" /\ stage[c] = "profile"
  BY DEF RunsInit, Init, BuildInit
<1> QED
  BY <1>1 DEF OneOperation, AllSeated, Busy, Inside, Building

LEMMA RunsSeatedStep ==
  ASSUME RunsInv, [RunsNext]_runsVars, "connloss" \notin Happenings
  PROVE  OneOperation' /\ AllSeated'
<1>1. CASE UNCHANGED runsVars
  <2>1. UNCHANGED <<lock, pc, stage>>
    BY <1>1 DEF runsVars, vars, buildVars, callerVars, pressVars
  <2> QED
    BY <2>1 DEF RunsInv, OneOperation, AllSeated, Busy, Inside, Building
<1> QED
  BY <1>1, GenerationKeepsSeats, BuildsKeepSeats DEF RunsNext

LEMMA SeatsBoundCalls == ASSUME AllSeated PROVE VendorCallsWithinLimit
<1> DEFINE S == {c \in Callers : At(c, "call") \/ On(c, "vendor")}
           f == [c \in S |-> CHOOSE i \in Indices : lock[i] = c]
<1>1. \A c \in S : f[c] \in Indices /\ lock[f[c]] = c
  BY DEF AllSeated, Busy, Inside, Building, At, On
<1>2. f \in Injection(S, Indices)
  <2>1. f \in [S -> Indices]
    BY <1>1
  <2>2. \A c, d \in S : f[c] = f[d] => c = d
    BY <1>1
  <2> QED
    BY <2>1, <2>2 DEF Injection, IsInjective
<1>3. IsFiniteSet(Indices) /\ Cardinality(Indices) = Limit
  BY SlotAssumption, FS_Interval DEF Indices
<1> HIDE DEF f, S
<1>4. Cardinality(S) <= Limit
  BY <1>2, <1>3, FS_Injection
<1> QED
  BY <1>4 DEF VendorCallsWithinLimit, S

(* The limit is the workspace's: as long as no connection that holds a     *)
(* slot is lost, its generations and builds at the vendor are together no  *)
(* more than that.                                                         *)
THEOREM SlotsBoundAllRuns ==
  ASSUME "connloss" \notin Happenings
  PROVE  RunsSpec => []VendorCallsWithinLimit
<1>1. RunsInit => RunsInv
  BY RunsSeatedInit, InitIInv, BuildInvInit DEF RunsInit, RunsInv
<1>2. RunsInv /\ [RunsNext]_runsVars => RunsInv'
  BY RunsSeatedStep, BothStep DEF RunsInv, BothInv
<1>3. RunsSpec => []RunsInv
  BY <1>1, <1>2, PTL DEF RunsSpec, runsVars
<1>4. RunsInv => VendorCallsWithinLimit
  BY SeatsBoundCalls DEF RunsInv
<1> QED
  BY <1>3, <1>4, PTL
=============================================================================
