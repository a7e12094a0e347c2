---------------------------- MODULE IncludedBuild ----------------------------
(***************************************************************************)
(* The onboarding brain build (credits/src/inference.ts): one build of     *)
(* every profile is included, the later ones are rebuilds at a price.      *)
(* Which build was the included one is a row of first_billable_attempts,   *)
(* written with the usage row of the first attempt that consumed it; and   *)
(* the operator's report (db/src/spend-rollup.ts) looks for the builds     *)
(* whose debit was lost.                                                   *)
(*                                                                         *)
(* A caller is one press, with an attempt id of its own.  Each action is   *)
(* one query, one transaction, or one answer of the vendor.                *)
(***************************************************************************)
EXTENDS Workspace

CONSTANTS
  Profiles,
  ProfileOf,  \* the profile each caller builds
  Documents,  \* configurations: what a build and what a rebuild costs
  Credits,    \* credits at the start
  BuildCap,   \* onboarding.maxUnchargedBillableAttempts
  Turns       \* bound: what may happen around the callers

ASSUME BuildAssumption ==
  /\ ProfileOf \in [Callers -> Profiles]
  /\ Documents \subseteq [build : Nat, rebuild : Nat]
  /\ Credits \in Nat /\ BuildCap \in Nat

VARIABLES
  stage,     \* where each press is
  told,      \* the configuration it read
  quote,     \* the price it was given before the call
  answer,    \* what the vendor answered
  usage,     \* the outcome of its model_usage row
  holder,    \* first_billable_attempts: the attempt that used the included build
  debit,     \* the credits of its ledger row, 0 if there is none
  settled,   \* presses whose debit transaction has told them their charge
  built,     \* presses whose voice document is stored
  inactive,  \* profiles that are not active
  document   \* the active configuration

pressVars == <<stage, told, quote, answer>>
bookVars  == <<usage, holder, debit, settled, built>>
buildVars == <<pressVars, bookVars, inactive, document>>

Answers == {"succeeded", "declined", "truncated", "failed"}

\* What the vendor is paid for, and what uses up the included build: a reply
\* cut off at our own ceiling is the first and not the second.
Billable  == {"succeeded", "declined", "truncated"}
Consuming == {"succeeded", "declined"}

BuildInit ==
  /\ SlotInit /\ balance = Credits /\ paused = FALSE
  /\ document \in Documents
  /\ stage = [c \in Callers |-> "profile"]
  /\ told = [c \in Callers |-> document]
  /\ quote = [c \in Callers |-> 0]
  /\ answer = [c \in Callers |-> "none"]
  /\ usage = [c \in Callers |-> "none"]
  /\ holder = [p \in Profiles |-> Nobody]
  /\ debit = [c \in Callers |-> 0]
  /\ settled = {} /\ built = {} /\ inactive = {}

Holder(c) == holder[ProfileOf[c]]

(* The price of a build: the first of its profile, and every other one.    *)
PriceOf(c) ==
  IF Holder(c) \in {Nobody, c} THEN told[c].build ELSE told[c].rebuild

(* Mutant: the price is the one quoted before the vendor was called.       *)
PriceQuoted(c) == quote[c]

DebitPrice(c) == PriceOf(c)

-----------------------------------------------------------------------------
(* Before the vendor                                                       *)

On(c, here) == stage[c] = here

Onward(c, there) == stage' = [stage EXCEPT ![c] = there]

\* A check before the slot is taken: on to the next step, or turned away.
Check(c, here, passes, there) ==
  /\ On(c, here)
  /\ Onward(c, IF passes THEN there ELSE "over")
  /\ UNCHANGED <<slotVars, balance, paused, answer, bookVars, inactive, document>>

CheckProfile(c) ==
  /\ Check(c, "profile", ProfileOf[c] \notin inactive, "open")
  /\ UNCHANGED <<told, quote>>

CheckOpen(c) ==
  /\ Check(c, "open", ~paused, "config")
  /\ UNCHANGED <<told, quote>>

ReadConfig(c) ==
  /\ Check(c, "config", TRUE, "quote")
  /\ told' = [told EXCEPT ![c] = document]
  /\ UNCHANGED quote

Quote(c) ==
  /\ Check(c, "quote", TRUE, "uncharged")
  /\ quote' = [quote EXCEPT ![c] = PriceOf(c)]
  /\ UNCHANGED told

Uncharged(p) ==
  {c \in Callers : ProfileOf[c] = p /\ usage[c] \in Billable \ Consuming}

CheckUncharged(c) ==
  /\ Check(c, "uncharged", Cardinality(Uncharged(ProfileOf[c])) < BuildCap, "credits")
  /\ UNCHANGED <<told, quote>>

\* Short of credits, the press is refused whatever the auto-topup does.
CheckCredits(c) ==
  /\ Check(c, "credits", quote[c] = 0 \/ balance >= quote[c], "acquire")
  /\ UNCHANGED <<told, quote>>

AcquireForBuild(c) ==
  /\ On(c, "acquire")
  /\ \/ TakeSlot(c) /\ Onward(c, "vendor")
     \/ PassSlot(c) /\ UNCHANGED stage
     \/ NoSlot(c) /\ Onward(c, "over")
  /\ UNCHANGED <<balance, paused, told, quote, answer, bookVars, inactive, document>>

-----------------------------------------------------------------------------
(* The vendor's answer, its usage row, and the debit                       *)

HearVendor(c) ==
  /\ On(c, "vendor")
  /\ answer' \in {[answer EXCEPT ![c] = reply] : reply \in Answers}
  /\ Onward(c, "record")
  /\ UNCHANGED <<slotVars, balance, paused, told, quote, bookVars, inactive, document>>

(* recordModelUsage: the included build goes to the first attempt that     *)
(* commits a consuming row for its profile.                                *)
RecordUsage(c) ==
  /\ usage' = [usage EXCEPT ![c] = answer[c]]
  /\ holder' = IF answer[c] \in Consuming /\ Holder(c) = Nobody
               THEN [holder EXCEPT ![ProfileOf[c]] = c] ELSE holder

\* Only an answer whose row is known to be written goes on to its debit.
Record(c) ==
  /\ On(c, "record")
  /\ \/ /\ RecordUsage(c)
        /\ \/ answer[c] = "succeeded" /\ Onward(c, "debit")
           \/ answer[c] # "succeeded" /\ Onward(c, "free")
           \/ "dbfault" \in Turns /\ Onward(c, "free")
     \/ "dbfault" \in Turns /\ Onward(c, "free") /\ UNCHANGED <<usage, holder>>
  /\ UNCHANGED <<slotVars, balance, paused, told, quote, answer, debit, settled, built,
                 inactive, document>>

PayBuild(c) ==
  /\ Holder(c) # Nobody /\ ~DebitRefused(DebitPrice(c))
  /\ debit' = [debit EXCEPT ![c] = DebitPrice(c)]
  /\ balance' = balance - DebitPrice(c)

Debit(c) ==
  /\ On(c, "debit")
  /\ Onward(c, "free")
  /\ \/ PayBuild(c) /\ settled' = settled \cup {c}
     \/ PayBuild(c) /\ "dbfault" \in Turns /\ UNCHANGED settled
     \/ /\ Holder(c) = Nobody \/ DebitRefused(DebitPrice(c)) \/ "dbfault" \in Turns
        /\ UNCHANGED <<balance, debit, settled>>
  /\ UNCHANGED <<slotVars, paused, told, quote, answer, usage, holder, built,
                 inactive, document>>

ReleaseBuild(c) ==
  /\ On(c, "free")
  /\ FreeSlot(c)
  /\ Onward(c, IF c \in settled THEN "store" ELSE "over")
  /\ UNCHANGED <<balance, paused, told, quote, answer, bookVars, inactive, document>>

(* After the money, the reply may still turn out useless, and a pause      *)
(* refuses the document.                                                   *)
StoreVoice(c) ==
  /\ On(c, "store")
  /\ Onward(c, "over")
  /\ \/ ~paused /\ built' = built \cup {c}
     \/ UNCHANGED built
  /\ UNCHANGED <<slotVars, balance, paused, told, quote, answer, usage, holder, debit,
                 settled, inactive, document>>

BuildStep(c) ==
  \/ CheckProfile(c) \/ CheckOpen(c) \/ ReadConfig(c) \/ Quote(c) \/ CheckUncharged(c)
  \/ CheckCredits(c) \/ AcquireForBuild(c) \/ HearVendor(c) \/ Record(c) \/ Debit(c)
  \/ ReleaseBuild(c) \/ StoreVoice(c)

-----------------------------------------------------------------------------
(* The world                                                               *)

Over(c) == stage[c] \in {"over", "crashed"}

CrashBuild(c) ==
  /\ "crash" \in Turns /\ ~Over(c)
  /\ Onward(c, "crashed")
  /\ FreeSlot(c)
  /\ UNCHANGED <<balance, paused, told, quote, answer, bookVars, inactive, document>>

AroundBuilds ==
  /\ \/ /\ "pause" \in Turns /\ paused' = ~paused
        /\ UNCHANGED <<balance, inactive, document>>
     \/ /\ "configure" \in Turns /\ document' \in Documents \ {document}
        /\ UNCHANGED <<balance, paused, inactive>>
     \/ /\ "profile" \in Turns
        /\ inactive' \in {inactive \cup {p} : p \in Profiles}
        /\ UNCHANGED <<balance, paused, document>>
  /\ UNCHANGED <<slotVars, pressVars, bookVars>>

BuildNext == AroundBuilds \/ \E c \in Callers : BuildStep(c) \/ CrashBuild(c)

BuildSpec == BuildInit /\ [][BuildNext]_<<slotVars, balance, paused, buildVars>>

-----------------------------------------------------------------------------
(* The operator's report (reconcileSpend)                                  *)

(* Mutant: the exemption is judged by the configuration of today.          *)
ExemptToday(c) == Holder(c) = c /\ document.build = 0

\* The included build, if under the configuration it was priced by it is free.
Exempt(c) == Holder(c) = c /\ told[c].build = 0

\* Builds the vendor was paid for and the creator was not charged for.
Delivered == {c \in Callers : usage[c] = "succeeded" /\ debit[c] = 0}

Unbilled == {c \in Delivered : ~Exempt(c)}

-----------------------------------------------------------------------------
(* Types of the variables.                                                 *)
BuildTypeOK ==
  /\ SlotTypeOK
  /\ stage \in [Callers -> {"profile", "open", "config", "quote", "uncharged", "credits",
                            "acquire", "vendor", "record", "debit", "free", "store",
                            "over", "crashed"}]
  /\ told \in [Callers -> Documents]
  /\ quote \in [Callers -> Nat]
  /\ answer \in [Callers -> Answers \cup {"none"}]
  /\ usage \in [Callers -> Answers \cup {"none"}]
  /\ holder \in [Profiles -> Callers \cup {Nobody}]
  /\ debit \in [Callers -> Nat]
  /\ settled \subseteq Callers /\ built \subseteq settled /\ inactive \subseteq Profiles
  /\ document \in Documents
  /\ balance \in Int /\ paused \in BOOLEAN

(* However the presses of a profile race, exactly one attempt uses its     *)
(* included build, and it is one the vendor answered: a reply cut off at   *)
(* our own ceiling, or a failure, never does.                              *)
HolderConsumed ==
  \A p \in Profiles :
    LET consumers == {c \in Callers : ProfileOf[c] = p /\ usage[c] \in Consuming}
    IN  IF consumers = {} THEN holder[p] = Nobody ELSE holder[p] \in consumers

(* The presses that were charged paid by that, and not by the quote they   *)
(* went to the vendor with: two of a profile are never both included, and  *)
(* never both rebuilds of a build that nobody had.  No charge takes        *)
(* credits that are not there.                                             *)
ChargedByTheClaim ==
  /\ balance >= 0
  /\ \A c \in settled :
       debit[c] = IF Holder(c) = c THEN told[c].build ELSE told[c].rebuild

OneIncludedBuild == HolderConsumed /\ ChargedByTheClaim

(* Whatever a crash, a pause, a fault or a balance spent meanwhile does to *)
(* a debit, the report misses nothing that was owed: of the delivered      *)
(* builds of a profile without a debit it leaves out one at most, and that *)
(* one was free when it was priced, whatever was configured since.  A      *)
(* press that was told its charge is on it only if a rebuild was free.     *)
LostDebitsAreReported ==
  /\ \A c, d \in (Delivered \ Unbilled) : ProfileOf[c] = ProfileOf[d] => c = d
  /\ \A c \in Delivered \ Unbilled : told[c].build = 0
  /\ \A c \in Unbilled \cap settled : told[c].rebuild = 0
=============================================================================
