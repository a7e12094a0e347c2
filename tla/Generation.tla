----------------------------- MODULE Generation -----------------------------
(***************************************************************************)
(* The metered generation pipeline (credits/src/generate.ts) of one        *)
(* workspace: the checks before the vendor is paid, the run slot, the      *)
(* durable claim on an attempt id, the vendor's calls, the stored answer,  *)
(* its settlement with the debit, and the one-minute receiver that ends    *)
(* what a dead process left behind (db/src/generation-recovery.ts).        *)
(*                                                                         *)
(* A caller is one execution of `generate`; callers that share an attempt  *)
(* id are a press and its repeats.  Each action is one database            *)
(* transaction, one query outside any, or one answer of the vendor.        *)
(***************************************************************************)
EXTENDS Workspace

CONSTANTS
  Attempts,
  AttemptOf,    \* the attempt id of each caller
  InputOf,      \* the creator's input of each caller
  Prices,       \* what the operation may be configured to cost
  Funds,        \* credits at the start
  MaxFunds,     \* bound: grants stop there
  Cap,          \* generation.maxUnchargedBillableAttempts
  MaxBrain,     \* bound: brain activations
  Deadline,     \* llm.overallDeadlineMs, in ticks
  Grace,        \* VENDOR_STARTED_GRACE_MS
  ClaimLimit,   \* CLAIMED_ABANDON_MS
  ClearLimit,   \* VENDOR_COMPLETE_HARD_CLEAR_MS
  Happenings    \* bound: what may happen around the callers, see World

ASSUME GenerationAssumption ==
  /\ AttemptOf \in [Callers -> Attempts]
  /\ Prices \subseteq Nat
  /\ Funds \in Nat /\ MaxFunds \in Nat /\ Cap \in Nat /\ MaxBrain \in Nat
  /\ Deadline \in Nat \ {0}
  /\ Grace \in Nat /\ ClaimLimit \in Nat /\ ClearLimit \in Nat

VARIABLES
  pc,         \* where each caller is
  call,       \* the vendor call it is in: 1 draft, 2 rewrite, 3 scoring
  waited,     \* how long that call has taken
  seen,       \* the brain activation it assembled its request from
  result,     \* how it ended
  rows,       \* generation_attempts
  made,       \* generations stored for each attempt
  charged,    \* credits debited for each attempt
  price,      \* the configured cost of the operation
  brain,      \* the newest coherent activation
  uncharged,  \* attempts with a billable model_usage row that bought nothing
  vendorRuns  \* history: the callers that entered the vendor sequence

callerVars == <<pc, call, waited, seen, result>>
worldVars  == <<balance, price, paused, brain>>
generationVars == <<callerVars, rows, made, charged, price, brain, uncharged, vendorRuns>>
vars == <<lock, probe, callerVars, rows, made, charged, worldVars, uncharged, vendorRuns>>

Live     == {"claimed", "vendor_started", "vendor_complete"}
Terminal == {"settled", "refused", "recovery_required"}

Places   == {"pause", "cap", "funds", "slot", "brain", "claim", "start", "call", "checkpoint",
             "settle", "refuse", "recover", "release", "done", "crashed"}
Results  == {"none", "paused", "capped", "unfunded", "busy", "mismatch", "moved",
             "replayed", "refused", "unknown", "inflight", "settled"}

NoRow    == [state |-> "none", input |-> 0, brain |-> 0, age |-> 0]

StartedLimit == Deadline + Grace

(* Ages are counted up to one tick more than any limit tells apart.        *)
Horizon ==
  LET Larger(m, n) == IF m < n THEN n ELSE m
  IN  1 + Larger(StartedLimit, Larger(ClaimLimit, ClearLimit))

Row(c) == rows[AttemptOf[c]]

Init ==
  /\ SlotInit
  /\ pc = [c \in Callers |-> "pause"]
  /\ call = [c \in Callers |-> 0]
  /\ waited = [c \in Callers |-> 0]
  /\ seen = [c \in Callers |-> 0]
  /\ result = [c \in Callers |-> "none"]
  /\ rows = [a \in Attempts |-> NoRow]
  /\ made = [a \in Attempts |-> 0]
  /\ charged = [a \in Attempts |-> 0]
  /\ balance = Funds
  /\ price \in Prices
  /\ paused = FALSE
  /\ brain = 0
  /\ uncharged = {}
  /\ vendorRuns = [a \in Attempts |-> {}]

-----------------------------------------------------------------------------
(* Steps of a caller                                                       *)

At(c, here) == pc[c] = here

GoTo(c, there) ==
  /\ pc' = [pc EXCEPT ![c] = there]
  /\ UNCHANGED <<call, waited, seen, result>>

(* Leave the try block: the finally releases the slot.                     *)
Leave(c, how) ==
  /\ pc' = [pc EXCEPT ![c] = "release"]
  /\ result' = [result EXCEPT ![c] = how]
  /\ UNCHANGED <<call, waited, seen>>

(* A refusal from before the slot was taken.                               *)
TurnedAway(c, how) ==
  /\ pc' = [pc EXCEPT ![c] = "done"]
  /\ result' = [result EXCEPT ![c] = how]
  /\ UNCHANGED <<call, waited, seen>>

NoRowChange == UNCHANGED <<rows, made, charged, worldVars, uncharged, vendorRuns>>

(* The row moved on, stamped now.                                          *)
Moved(r, state) == [state |-> state, input |-> r.input, brain |-> r.brain, age |-> 0]

Older(r) == [state |-> r.state, input |-> r.input, brain |-> r.brain, age |-> r.age + 1]

SetState(a, state) == rows' = [rows EXCEPT ![a] = Moved(rows[a], state)]

CheckPause(c) ==
  /\ At(c, "pause")
  /\ IF paused THEN TurnedAway(c, "paused") ELSE GoTo(c, "cap")
  /\ NoRowChange /\ UNCHANGED slotVars

CheckCap(c) ==
  /\ At(c, "cap")
  /\ IF Cardinality(uncharged) >= Cap THEN TurnedAway(c, "capped") ELSE GoTo(c, "funds")
  /\ NoRowChange /\ UNCHANGED slotVars

CheckFunds(c) ==
  /\ At(c, "funds")
  /\ IF balance < price THEN TurnedAway(c, "unfunded") ELSE GoTo(c, "slot")
  /\ NoRowChange /\ UNCHANGED slotVars

AcquireSlot(c) ==
  /\ At(c, "slot")
  /\ \/ TakeSlot(c) /\ GoTo(c, "brain")
     \/ PassSlot(c) /\ UNCHANGED callerVars
     \/ NoSlot(c) /\ TurnedAway(c, "busy")
  /\ NoRowChange

ReadBrain(c) ==
  /\ At(c, "brain")
  /\ pc' = [pc EXCEPT ![c] = "claim"]
  /\ seen' = [seen EXCEPT ![c] = brain]
  /\ UNCHANGED <<call, waited, result>>
  /\ NoRowChange /\ UNCHANGED slotVars

-----------------------------------------------------------------------------
(* The claim                                                               *)

(* Mutant: a claim without an answer is taken over by the next press.      *)
IsNewClaimAgain(c) == Row(c).state \in {"none", "claimed", "vendor_started"}

(* Mutant: a refused attempt may be pressed again under its id.            *)
IsNewClaimAfterRefusal(c) == Row(c).state \in {"none", "refused"}

IsNewClaim(c) == Row(c).state = "none"

SamePayload(c) == Row(c).input = InputOf[c] /\ Row(c).brain = seen[c]

(* What a repeat is told of an attempt that is not for it to settle.       *)
Observed(c) ==
  CASE Row(c).state = "settled"           -> "replayed"
    [] Row(c).state = "refused"           -> "refused"
    [] Row(c).state = "recovery_required" -> "unknown"
    [] OTHER                              -> "inflight"

Claim(c) ==
  /\ At(c, "claim")
  /\ IF IsNewClaim(c)
     THEN /\ rows' = [rows EXCEPT ![AttemptOf[c]] =
                        [state |-> "claimed", input |-> InputOf[c], brain |-> seen[c], age |-> 0]]
          /\ GoTo(c, "start")
     ELSE /\ IF ~SamePayload(c) THEN Leave(c, "mismatch")
             ELSE IF Row(c).state = "vendor_complete" THEN GoTo(c, "settle")
             ELSE Leave(c, Observed(c))
          /\ UNCHANGED rows
  /\ UNCHANGED <<slotVars, made, charged, worldVars, uncharged, vendorRuns>>

(* The row has to be where the caller left it, or the advance throws.      *)
Start(c) ==
  /\ At(c, "start")
  /\ \/ /\ Row(c).state = "claimed"
        /\ SetState(AttemptOf[c], "vendor_started")
        /\ vendorRuns' = [vendorRuns EXCEPT ![AttemptOf[c]] = @ \cup {c}]
        /\ pc' = [pc EXCEPT ![c] = "call"]
        /\ call' = [call EXCEPT ![c] = 1]
        /\ waited' = [waited EXCEPT ![c] = 0]
        /\ UNCHANGED <<seen, result>>
     \/ /\ Row(c).state # "claimed"
        /\ Leave(c, "moved")
        /\ UNCHANGED <<rows, vendorRuns>>
  /\ UNCHANGED <<slotVars, made, charged, worldVars, uncharged>>

-----------------------------------------------------------------------------
(* The vendor.  An answer and its model_usage row are one step.            *)

NextCall(c, k) ==
  /\ call' = [call EXCEPT ![c] = k]
  /\ waited' = [waited EXCEPT ![c] = 0]
  /\ UNCHANGED <<pc, seen, result>>

Accepted(c) == NextCall(c, 3) \/ GoTo(c, "checkpoint")

(* Mutant: every call leads to another.                                    *)
UsableWithoutEnd(c) == NextCall(c, call[c] + 1) /\ UNCHANGED uncharged

(* The draft is accepted or rewritten once; the rewrite is accepted or     *)
(* becomes the honest refusal that is stored and charged like any answer.  *)
Usable(c) ==
  /\ \/ call[c] = 1 /\ (Accepted(c) \/ NextCall(c, 2))
     \/ call[c] = 2 /\ (Accepted(c) \/ GoTo(c, "checkpoint"))
     \/ call[c] = 3 /\ GoTo(c, "checkpoint")
  /\ UNCHANGED uncharged

(* A reply that was truncated or does not parse costs us and not them.     *)
Wasted(c) ==
  /\ uncharged' = uncharged \cup {AttemptOf[c]}
  /\ GoTo(c, "refuse")

Failed(c) == GoTo(c, "refuse") /\ UNCHANGED uncharged

VendorAnswers(c) ==
  /\ At(c, "call")
  /\ Usable(c) \/ Wasted(c) \/ Failed(c)
  /\ UNCHANGED <<slotVars, rows, made, charged, worldVars, vendorRuns>>

Checkpoint(c) ==
  /\ At(c, "checkpoint")
  /\ \/ /\ Row(c).state = "vendor_started"
        /\ SetState(AttemptOf[c], "vendor_complete")
        /\ GoTo(c, "settle") \/ ("dbfault" \in Happenings /\ GoTo(c, "recover"))
     \/ /\ Row(c).state # "vendor_started" \/ "dbfault" \in Happenings
        /\ GoTo(c, "recover")
        /\ UNCHANGED rows
  /\ UNCHANGED <<slotVars, made, charged, worldVars, uncharged, vendorRuns>>

-----------------------------------------------------------------------------
(* The settlement: one transaction under the workspace lock.  "dbfault" is *)
(* a transaction that failed, or committed without the caller hearing of   *)
(* it; before the vendor is called such a fault is no more than a crash.   *)

(* Mutant: the row is settled from where the caller last saw it.           *)
IsSettleableAgain(c) == Row(c).state \in {"vendor_complete", "settled"}

IsSettleable(c) == Row(c).state = "vendor_complete"


Deliver(c) ==
  LET a == AttemptOf[c] IN
  /\ IsSettleable(c) /\ ~DebitRefused(price)
  /\ SetState(a, "settled")
  /\ made' = [made EXCEPT ![a] = @ + 1]
  /\ charged' = [charged EXCEPT ![a] = @ + price]
  /\ balance' = balance - price
  /\ UNCHANGED <<price, paused, brain>>

NotDelivered == UNCHANGED <<rows, made, charged, worldVars>>

Settle(c) ==
  /\ At(c, "settle")
  /\ \/ Deliver(c) /\ Leave(c, "settled")
     \/ Deliver(c) /\ "dbfault" \in Happenings /\ GoTo(c, "recover")
     \/ NotDelivered /\ "dbfault" \in Happenings /\ GoTo(c, "recover")
     \/ NotDelivered /\ IsSettleable(c) /\ DebitRefused(price) /\ GoTo(c, "refuse")
     \/ NotDelivered /\ ~IsSettleable(c) /\ Leave(c, Observed(c))
  /\ UNCHANGED <<slotVars, uncharged, vendorRuns>>

(* recordRefusal and recordRecoveryRequired, each a transaction of its     *)
(* own, and each without effect on a row that has ended meanwhile.         *)
RecordRefusal(c) ==
  /\ At(c, "refuse")
  /\ \/ Row(c).state \in Live /\ SetState(AttemptOf[c], "refused")
     \/ (Row(c).state \notin Live \/ "dbfault" \in Happenings) /\ UNCHANGED rows
  /\ Leave(c, "refused")
  /\ UNCHANGED <<slotVars, made, charged, worldVars, uncharged, vendorRuns>>

Recoverable == {"vendor_started", "vendor_complete"}

RecordRecoveryRequired(c) ==
  /\ At(c, "recover")
  /\ \/ Row(c).state \in Recoverable /\ SetState(AttemptOf[c], "recovery_required")
     \/ (Row(c).state \notin Recoverable \/ "dbfault" \in Happenings) /\ UNCHANGED rows
  /\ Leave(c, "unknown")
  /\ UNCHANGED <<slotVars, made, charged, worldVars, uncharged, vendorRuns>>

Release(c) ==
  /\ At(c, "release")
  /\ FreeSlot(c)
  /\ GoTo(c, "done")
  /\ NoRowChange

Step(c) ==
  \/ CheckPause(c) \/ CheckCap(c) \/ CheckFunds(c) \/ AcquireSlot(c) \/ ReadBrain(c)
  \/ Claim(c) \/ Start(c) \/ VendorAnswers(c) \/ Checkpoint(c) \/ Settle(c)
  \/ RecordRefusal(c) \/ RecordRecoveryRequired(c) \/ Release(c)

-----------------------------------------------------------------------------
(* The receiver (generation-recovery.ts), every minute                     *)

(* Mutant: an answer is given as long as a call and no longer.             *)
EndedAsIfStarted(r) ==
  CASE r.state = "claimed" /\ r.age > ClaimLimit -> "refused"
    [] r.state = "vendor_started" /\ r.age > StartedLimit -> "recovery_required"
    [] r.state = "vendor_complete" /\ r.age > StartedLimit -> "recovery_required"
    [] OTHER -> r.state

(* Mutant: claims that never reached the vendor are left alone.            *)
EndedButClaims(r) ==
  CASE r.state = "vendor_started" /\ r.age > StartedLimit -> "recovery_required"
    [] r.state = "vendor_complete" /\ r.age > ClearLimit -> "recovery_required"
    [] OTHER -> r.state

(* Mutant: a run is given the time of one call.                            *)
EndedAfterOneCall(r) ==
  CASE r.state = "claimed" /\ r.age > ClaimLimit -> "refused"
    [] r.state = "vendor_started" /\ r.age > Deadline -> "recovery_required"
    [] r.state = "vendor_complete" /\ r.age > ClearLimit -> "recovery_required"
    [] OTHER -> r.state

Ended(r) ==
  CASE r.state = "claimed" /\ r.age > ClaimLimit -> "refused"
    [] r.state = "vendor_started" /\ r.age > StartedLimit -> "recovery_required"
    [] r.state = "vendor_complete" /\ r.age > ClearLimit -> "recovery_required"
    [] OTHER -> r.state

Receive ==
  /\ \E a \in Attempts : Ended(rows[a]) # rows[a].state
  /\ rows' = [a \in Attempts |->
                IF Ended(rows[a]) = rows[a].state THEN rows[a]
                ELSE Moved(rows[a], Ended(rows[a]))]
  /\ UNCHANGED <<slotVars, callerVars, made, charged, worldVars, uncharged, vendorRuns>>

-----------------------------------------------------------------------------
(* The world                                                               *)

InFlight(c) == pc[c] \notin {"done", "crashed"}

Crash(c) ==
  /\ "crash" \in Happenings /\ InFlight(c)
  /\ pc' = [pc EXCEPT ![c] = "crashed"]
  /\ FreeSlot(c)
  /\ UNCHANGED <<call, waited, seen, result>>
  /\ NoRowChange

(* The connection that holds the slot is lost; the run does not know.      *)
LoseConnection(c) ==
  /\ "connloss" \in Happenings /\ Held(c) # {} /\ InFlight(c)
  /\ FreeSlot(c)
  /\ UNCHANGED callerVars /\ NoRowChange

(* A call is cut off at its deadline, and the answer is stored at once.    *)
Urgent(c) == At(c, "checkpoint") \/ (At(c, "call") /\ waited[c] >= Deadline)

Tick ==
  /\ "time" \in Happenings
  /\ \A c \in Callers : ~Urgent(c)
  /\ waited' = [c \in Callers |-> IF At(c, "call") THEN waited[c] + 1 ELSE waited[c]]
  /\ rows' = [a \in Attempts |->
                IF rows[a].state \in Live /\ rows[a].age < Horizon
                THEN Older(rows[a]) ELSE rows[a]]
  /\ UNCHANGED <<slotVars, pc, call, seen, result, made, charged, worldVars, uncharged, vendorRuns>>

World ==
  /\ \/ "pause" \in Happenings /\ paused' = ~paused /\ UNCHANGED <<balance, price, brain>>
     \/ "publish" \in Happenings /\ price' \in Prices \ {price} /\ UNCHANGED <<balance, paused, brain>>
     \/ "grant" \in Happenings /\ balance < MaxFunds
        /\ balance' = balance + 1 /\ UNCHANGED <<price, paused, brain>>
     \/ "spend" \in Happenings /\ balance > 0
        /\ balance' = balance - 1 /\ UNCHANGED <<price, paused, brain>>
     \/ "activate" \in Happenings /\ brain < MaxBrain
        /\ brain' = brain + 1 /\ UNCHANGED <<balance, price, paused>>
  /\ UNCHANGED <<slotVars, callerVars, rows, made, charged, uncharged, vendorRuns>>

Next ==
  \/ \E c \in Callers : Step(c) \/ Crash(c) \/ LoseConnection(c)
  \/ Receive \/ Tick \/ World

Spec == Init /\ [][Next]_vars

(* The worker keeps its schedule and time passes; no caller is assumed to  *)
(* go on but those whose call or answer the deadline drives.               *)
FairSpec ==
  /\ Spec
  /\ WF_vars(Receive) /\ WF_vars(Tick)
  /\ \A c \in Callers : WF_vars(Urgent(c) /\ Step(c))

-----------------------------------------------------------------------------
(* Types of the variables.                                                 *)
TypeOK ==
  /\ SlotTypeOK
  /\ pc \in [Callers -> Places]
  /\ call \in [Callers -> 0..3]
  /\ waited \in [Callers -> 0..Deadline]
  /\ seen \in [Callers -> 0..MaxBrain]
  /\ result \in [Callers -> Results]
  /\ rows \in [Attempts -> [state : Live \cup Terminal \cup {"none"},
                            input : {InputOf[c] : c \in Callers} \cup {0},
                            brain : 0..MaxBrain,
                            age   : 0..Horizon]]
  /\ made \in [Attempts -> Nat] /\ charged \in [Attempts -> Nat]
  /\ balance \in Int /\ price \in Prices /\ paused \in BOOLEAN /\ brain \in 0..MaxBrain
  /\ uncharged \subseteq Attempts /\ vendorRuns \in [Attempts -> SUBSET Callers]

(* Whatever is repeated, crashes or is given up, the vendor is run for an  *)
(* attempt once: an outcome that is not known is never tried again.        *)
OneVendorRun == \A a \in Attempts : \A c, d \in vendorRuns[a] : c = d

(* A charge and its generation stand together, once, on a settled attempt. *)
ChargedForWhatExists ==
  \A a \in Attempts :
    /\ made[a] = IF rows[a].state = "settled" THEN 1 ELSE 0
    /\ charged[a] > 0 => rows[a].state = "settled"

(* No settlement takes credits that are not there, though the balance was  *)
(* looked at before the vendor's calls and others have spent since.        *)
NoOverdraft == balance >= 0

(* Money goes with work: what is charged exists, and was there to be       *)
(* charged.                                                                *)
ChargesAreDue == ChargedForWhatExists /\ NoOverdraft

(* A workspace has no more runs at the vendor than its tier's limit.       *)
RunsWithinLimit == Cardinality({c \in Callers : At(c, "call")}) <= Limit

(* The receiver does not give up a run that is still going.                *)
LiveRunsStand ==
  \A c \in Callers :
    At(c, "call") /\ Row(c).state = "vendor_started"
      => rows'[AttemptOf[c]].state = "vendor_started"

(* A stored answer outlives the process that bought it: nothing but its    *)
(* own clock makes it unknown, or the caller whose transaction failed on   *)
(* it.                                                                     *)
AnswersOutliveCrashes ==
  \A a \in Attempts :
    rows[a].state = "vendor_complete" /\ rows'[a].state = "recovery_required"
      => rows[a].age > ClearLimit
         \/ \E c \in Callers : AttemptOf[c] = a /\ At(c, "recover")

(* Nothing ends an attempt before its time: neither a run that is still    *)
(* going nor an answer that is still to be charged.                        *)
EndsAreJust == [][LiveRunsStand /\ AnswersOutliveCrashes]_vars

(* Attempts that cost us and charge nobody overshoot their cap by no more  *)
(* than the slots of one burst.                                            *)
UnchargedWithinSlots == Cardinality(uncharged) <= Cap + Limit

(* No attempt stays unanswered, whoever has crashed.                       *)
EveryClaimEnds ==
  \A a \in Attempts : rows[a].state \in Live ~> rows[a].state \in Terminal

Contract == INSTANCE AttemptContract WITH
  phase <- [a \in Attempts |->
              CASE rows[a].state = "none"    -> "unused"
                [] rows[a].state \in Live    -> "open"
                [] rows[a].state = "settled" -> "delivered"
                [] OTHER                     -> "closed"],
  paid <- charged

(* Every press is answered once, with the work and its charge together or  *)
(* with neither.                                                           *)
ImplementsContract == Contract!ContractSpec
=============================================================================
