--------------------------- MODULE BackOfficeProofs ---------------------------
(***************************************************************************)
(* Two things the product does behind the workspace.  The deletion of a    *)
(* workspace, for any number of workers, attempts and failures: the journal*)
(* and the row tell one story, nothing irreversible happens before the     *)
(* journal says so, no attempt is carried out twice, and a cancelled       *)
(* deletion leaves the subscription as it found it.  The product's own     *)
(* spend, for every ceiling, cap, cost and number of attempts and requests:*)
(* the budget's safety and its sums, the steps of the pasted reference and *)
(* of the Sample Spin as steps of the budget, and what each of the two     *)
(* promises of its own.                                                    *)
(***************************************************************************)
EXTENDS DeletionLifecycle, AutopsyWork, SampleSpin, FiniteSums, SequenceTheorems, TLAPS
Goals == {"external_actions_pending", "grace", "erasing", "blocked"}

Resumable == {"tombstoned", "external_actions_pending", "grace", "erasing"}

Pcs ==
  {"idle", "enqueue", "dispatch", "grace", "retry", "call", "ask", "record", "decide", "prepare",
   "append", "tally", "reserve", "erase", "abandon", "release"}

Replies == {"none", "succeeded", "failed", "unknown"}

RowSpace ==
  [state : States, resume : Resumable \cup {"none"}, ver : Nat, plan : Seq(States \X States),
   at : BOOLEAN, acked : BOOLEAN, failures : 0..MaxFailures]

CmdSpace ==
  [status : {"none", "pending", "unknown", "succeeded", "failed"}, sent : BOOLEAN,
   attempt : 0..MaxAttempts, calls : 0..1]

WorkerSpace ==
  [pc : Pcs, saw : States, resume : Resumable \cup {"none"}, failures : 0..MaxFailures,
   reply : Replies, attempt : 0..MaxAttempts, from : States, goal : Goals \cup {"none"},
   tally : BOOLEAN, counts : BOOLEAN]

Typed ==
  /\ op \in RowSpace /\ journal \in Seq([from : States, to : States, at : BOOLEAN])
  /\ cmds \in [Kinds -> CmdSpace] /\ worker \in [Workers -> WorkerSpace]
  /\ stripe \in {"open", "closing", "gone"} /\ adrift \subseteq Kinds
  /\ home \in {"active", "tombstoned", "erased"}
  /\ misread \in BOOLEAN /\ window \in BOOLEAN /\ own \in BOOLEAN

-----------------------------------------------------------------------------
(* The row and the journal                                                 *)

(* A reserved plan leads on from where the row is, and bears the instant   *)
(* it was decided: a cancellation within the window, an erasure after it.  *)
PlanFits(p, r, at) ==
  \/ p = RequestPlan /\ r.state = "requested"
  \/ p = ErasurePlan /\ r.state = "erasing"
  \/ \E g \in (Goals \cup Resumable \cup {"cancelled"}) \cap Transitions[r.state] :
       /\ p = Step(r.state, g)
       /\ r.state = "blocked" => g = r.resume
       /\ g = "cancelled" => at
       /\ g = "erasing" => ~at

PastErasing(r) == r.state \in {"erasing", "complete"} \/ r.resume = "erasing"

(* What is committed, and what an interrupted transaction may have added.  *)
StoryHolds ==
  /\ op.state \notin {"journal_pending", "verifying"}
  /\ op.resume # "none" <=> op.state = "blocked"
  /\ op.plan # NoPlan => PlanFits(op.plan, op, op.at)
  /\ op.state = "none" => op.plan = NoPlan
  /\ op.state \in {"none", "requested"} => op.ver = 0
  /\ Len(journal) \in op.ver..(op.ver + 2)
  /\ op.ver > 0 => journal[op.ver].to = op.state
  /\ \A i \in 1..(Len(journal) - 1) : journal[i].to = journal[i + 1].from
  /\ WindowHonoured

(* Before the erasing is committed nothing committed says so, nor that the *)
(* deletion is cancelled before that is; afterwards the journal says the   *)
(* one and never the other.                                                *)
NoWayBack ==
  /\ op.state # "cancelled" => \A i \in 1..op.ver : journal[i].to # "cancelled"
  /\ ~PastErasing(op) => \A i \in 1..op.ver : journal[i].to # "erasing"
  /\ PastErasing(op) => Journaled("erasing") /\ ~Journaled("cancelled")

-----------------------------------------------------------------------------
(* The outbox and the workers                                              *)

(* A row of the outbox through its life.                                   *)
RowFits(k) ==
  /\ cmds[k].status = "none" => cmds[k].attempt = 0 /\ ~cmds[k].sent
  /\ cmds[k].status # "none" => cmds[k].attempt # 0
  /\ ~cmds[k].sent => cmds[k].calls = 0 /\ cmds[k].status \in {"none", "pending"}
  /\ cmds[k].status = "unknown" => cmds[k].calls = 1

RowsSound == \A k \in Kinds : RowFits(k)

Kind(w) == KindOf(Phase(w))

OnCommand(w) == worker[w].pc \in {"call", "ask", "record"}

(* Who has marked an attempt is the only one to call for it, and no call   *)
(* was made before; who asks or records comes after the call.              *)
CallFits(w) ==
  /\ OnCommand(w) => worker[w].attempt \in 1..cmds[Kind(w)].attempt
  /\ At(w, "call") => /\ worker[w].attempt = cmds[Kind(w)].attempt
                      /\ cmds[Kind(w)].status = "pending" /\ cmds[Kind(w)].sent
                      /\ cmds[Kind(w)].calls = 0
  /\ worker[w].pc \in {"ask", "record"} /\ worker[w].attempt = cmds[Kind(w)].attempt =>
       cmds[Kind(w)].calls = 1

OneCaller == \A v, w \in Workers : At(v, "call") /\ At(w, "call") /\ Kind(v) = Kind(w) => v = w

CallsSound == OneCaller /\ \A w \in Workers : CallFits(w)

(* A worker that erases, or cancels a fence, works for an operation that   *)
(* is past the point of no return, or cancelled; and the one that erases   *)
(* has seen the subscription ended.                                        *)
WorkFits(w) ==
  /\ At(w, "enqueue") => worker[w].saw \in {"tombstoned", "erasing"}
  /\ At(w, "retry") => worker[w].saw \in {"blocked", "cancelled"}
  /\ At(w, "record") => worker[w].reply # "none"
  /\ worker[w].pc \in {"dispatch", "call", "ask", "record", "decide"} =>
       worker[w].saw \in {"external_actions_pending", "erasing", "blocked", "cancelled"}
  /\ worker[w].pc \in {"dispatch", "call", "ask", "record", "decide"} /\ worker[w].saw = "blocked" =>
       worker[w].resume \in {"external_actions_pending", "erasing"}
  /\ worker[w].saw = "cancelled" => op.state = "cancelled"
  /\ Phase(w) = "erasing" => PastErasing(op)
  /\ worker[w].saw = "erasing" /\ worker[w].pc \in {"dispatch", "call", "ask", "record", "decide"} =>
       cmds["end"].status # "none"
  /\ worker[w].pc \in {"reserve", "erase"} =>
       worker[w].saw = "erasing" /\ cmds["end"].status = "succeeded"
  /\ At(w, "record") /\ worker[w].reply = "succeeded" /\ Kind(w) = "end" => stripe = "gone"
  /\ worker[w].pc \in {"prepare", "append"} => worker[w].goal # "none"

WorkSound == \A w \in Workers : WorkFits(w)

EndSound ==
  /\ \A k \in adrift : cmds[k].status # "none"
  /\ "end" \in adrift \/ stripe = "gone" \/ home = "erased" \/ cmds["end"].status # "none"
       => PastErasing(op)
  /\ cmds["end"].status = "succeeded" \/ home = "erased" => stripe = "gone"

-----------------------------------------------------------------------------
(* The fence and its reversal                                              *)

FenceIsTheirs == own => cmds["close"].status = "none" /\ cmds["reopen"].status = "none"
                        /\ stripe # "open"

(* Of an operation that is cancelled the fence is settled, and a reversal  *)
(* is owed exactly for a fence that was set.                               *)
ReversalFollows ==
  /\ op.state = "cancelled" =>
       /\ cmds["close"].status # "unknown"
       /\ ~(cmds["close"].status = "pending" /\ cmds["close"].sent)
       /\ cmds["close"].status = "succeeded" => cmds["reopen"].status # "none"
  /\ cmds["reopen"].status # "none" =>
       op.state = "cancelled" /\ cmds["close"].status = "succeeded"

(* What is known of the fence at Stripe, as long as no failure was read    *)
(* into a request that did reach it.                                       *)
FenceFacts ==
  /\ cmds["close"].status = "failed" \/ cmds["close"].calls = 0 =>
       stripe # "closing" /\ "close" \notin adrift
  /\ "close" \in adrift => stripe # "closing"
  /\ cmds["close"].status = "succeeded" => "close" \notin adrift
  /\ cmds["reopen"].status = "succeeded" => stripe # "closing"

AnswerIsTrue(w) ==
  At(w, "record") /\ worker[w].reply = "succeeded" =>
    /\ Kind(w) = "close" /\ worker[w].attempt = cmds["close"].attempt => "close" \notin adrift
    /\ Kind(w) = "reopen" => stripe # "closing"

FenceKnown ==
  ~own /\ ~misread /\ stripe # "gone" => FenceFacts /\ \A w \in Workers : AnswerIsTrue(w)

DeletionIInv ==
  /\ Typed /\ StoryHolds /\ NoWayBack
  /\ RowsSound /\ CallsSound /\ WorkSound /\ EndSound
  /\ FenceIsTheirs /\ ReversalFollows /\ FenceKnown


-----------------------------------------------------------------------------
(* The row and the journal, step by step                                   *)

Entry == [from : States, to : States, at : BOOLEAN]

LEMMA OpTyped ==
  ASSUME Typed
  PROVE  /\ op \in RowSpace
         /\ op.state \in States /\ op.resume \in Resumable \cup {"none"} /\ op.ver \in Nat
         /\ op.plan \in Seq(States \X States) /\ op.at \in BOOLEAN /\ op.acked \in BOOLEAN
         /\ op.failures \in 0..MaxFailures
         /\ journal \in Seq(Entry) /\ Len(journal) \in Nat /\ DOMAIN journal = 1..Len(journal)
         /\ \A i \in 1..Len(journal) : journal[i] \in Entry
<1>1. op \in RowSpace /\ journal \in Seq(Entry)
  BY DEF Typed, Entry
<1>2. Len(journal) \in Nat /\ DOMAIN journal = 1..Len(journal)
      /\ \A i \in 1..Len(journal) : journal[i] \in Entry
  BY <1>1, LenProperties, ElementOfSeq
<1> QED BY <1>1, <1>2 DEF RowSpace

LEMMA StepShape ==
  ASSUME NEW s \in States, NEW g \in States
  PROVE  /\ Step(s, g) \in Seq(States \X States) /\ Len(Step(s, g)) = 1
         /\ Step(s, g)[1] = <<s, g>> /\ Step(s, g)[1][1] = s /\ Step(s, g)[1][2] = g
         /\ Step(s, g) # NoPlan /\ Step(s, g) # RequestPlan /\ Step(s, g) # ErasurePlan
<1>1. <<s, g>> \in States \X States
  OBVIOUS
<1>2. Step(s, g) \in Seq(States \X States) /\ Len(Step(s, g)) = 1 /\ Step(s, g)[1] = <<s, g>>
  BY <1>1 DEF Step
<1>3. Len(RequestPlan) = 2 /\ Len(ErasurePlan) = 2 /\ Len(NoPlan) = 0
  BY DEF RequestPlan, ErasurePlan, NoPlan
<1> QED BY SMTT(30), <1>2, <1>3

LEMMA LongShape ==
  /\ RequestPlan \in Seq(States \X States) /\ ErasurePlan \in Seq(States \X States)
  /\ Len(RequestPlan) = 2 /\ Len(ErasurePlan) = 2
  /\ RequestPlan[1] = <<"requested", "journal_pending">>
  /\ RequestPlan[2] = <<"journal_pending", "tombstoned">>
  /\ ErasurePlan[1] = <<"erasing", "verifying">> /\ ErasurePlan[2] = <<"verifying", "complete">>
  /\ RequestPlan # ErasurePlan /\ RequestPlan # NoPlan /\ ErasurePlan # NoPlan
<1>1. /\ <<"requested", "journal_pending">> \in States \X States
      /\ <<"journal_pending", "tombstoned">> \in States \X States
      /\ <<"erasing", "verifying">> \in States \X States
      /\ <<"verifying", "complete">> \in States \X States
  BY DEF States
<1>2. RequestPlan \in Seq(States \X States) /\ ErasurePlan \in Seq(States \X States)
  BY <1>1 DEF RequestPlan, ErasurePlan
<1>3. /\ Len(RequestPlan) = 2 /\ Len(ErasurePlan) = 2 /\ Len(NoPlan) = 0
      /\ RequestPlan[1] = <<"requested", "journal_pending">>
      /\ RequestPlan[2] = <<"journal_pending", "tombstoned">>
      /\ ErasurePlan[1] = <<"erasing", "verifying">> /\ ErasurePlan[2] = <<"verifying", "complete">>
  BY DEF RequestPlan, ErasurePlan, NoPlan
<1>4. RequestPlan # ErasurePlan
  <2>1. RequestPlan[1][1] = "requested" /\ ErasurePlan[1][1] = "erasing"
    BY <1>3
  <2> QED BY <2>1
<1> QED BY <1>2, <1>3, <1>4

(* The transition table, state by state.                                   *)
LEMMA TransitionsAre ==
  /\ Transitions["requested"] = {"journal_pending"}
  /\ Transitions["journal_pending"] = {"tombstoned", "cancelled"}
  /\ Transitions["tombstoned"] = {"external_actions_pending", "cancelled", "blocked"}
  /\ Transitions["external_actions_pending"] = {"grace", "cancelled", "blocked"}
  /\ Transitions["grace"] = {"erasing", "cancelled", "blocked"}
  /\ Transitions["erasing"] = {"verifying", "blocked"}
  /\ Transitions["verifying"] = {"complete", "blocked"}
  /\ Transitions["blocked"] = {"tombstoned", "external_actions_pending", "grace", "erasing",
                               "verifying"}
  /\ Transitions["none"] = {} /\ Transitions["complete"] = {} /\ Transitions["cancelled"] = {}
BY DEF Transitions, States

(* What a plan that fits adds to the journal, and where it leads.          *)
LeadsOn(p, r, at) ==
  /\ p \in Seq(States \X States) /\ Len(p) \in {1, 2} /\ p # NoPlan
  /\ p[1][1] = r.state /\ (Len(p) = 2 => p[1][2] = p[2][1])
  /\ r.state \notin {"none", "cancelled", "complete"}
  /\ \A i \in 1..Len(p) :
       /\ p[i] \in States \X States
       /\ p[i][2] = "cancelled" => at /\ i = Len(p) /\ ~PastErasing(r)
       /\ p[i][2] = "erasing" => ~at /\ i = Len(p)
  /\ LET last == p[Len(p)][2] IN
       /\ last \in {"tombstoned", "complete", "cancelled"} \cup Goals
       /\ last = "blocked" => r.state \in Resumable
       /\ PastErasing(r) => last \in {"erasing", "complete"} \/ (last = "blocked" /\ r.state = "erasing")
       /\ last = "complete" => r.state = "erasing"

LEMMA PlanLeads ==
  ASSUME NEW p, NEW r, NEW at \in BOOLEAN, r.state \in States, r.resume \in Resumable \cup {"none"},
         r.state \notin {"journal_pending", "verifying"},
         r.resume # "none" <=> r.state = "blocked", PlanFits(p, r, at)
  PROVE  LeadsOn(p, r, at)
<1>1. CASE p = RequestPlan /\ r.state = "requested"
  <2>1. ~PastErasing(r)
    BY <1>1 DEF PastErasing
  <2>2. \A i \in 1..Len(p) : i = 1 \/ i = 2
    BY <1>1, LongShape
  <2>3. p[1] \in States \X States /\ p[2] \in States \X States
    BY <1>1, LongShape DEF States
  <2>4. p[1][1] = "requested" /\ p[1][2] = "journal_pending" /\ p[2][1] = "journal_pending"
        /\ p[2][2] = "tombstoned"
    BY <1>1, LongShape
  <2> QED BY <1>1, <2>1, <2>2, <2>3, <2>4, LongShape DEF LeadsOn
<1>2. CASE p = ErasurePlan /\ r.state = "erasing"
  <2>2. \A i \in 1..Len(p) : i = 1 \/ i = 2
    BY <1>2, LongShape
  <2>3. p[1] \in States \X States /\ p[2] \in States \X States
    BY <1>2, LongShape DEF States
  <2>4. p[1][1] = "erasing" /\ p[1][2] = "verifying" /\ p[2][1] = "verifying" /\ p[2][2] = "complete"
    BY <1>2, LongShape
  <2> QED BY <1>2, <2>2, <2>3, <2>4, LongShape DEF LeadsOn
<1>3. ASSUME NEW g \in (Goals \cup Resumable \cup {"cancelled"}) \cap Transitions[r.state],
             p = Step(r.state, g), r.state = "blocked" => g = r.resume,
             g = "cancelled" => at, g = "erasing" => ~at
      PROVE  LeadsOn(p, r, at)
  <2>1. g \in States
    BY DEF Goals, Resumable, States
  <2>2. /\ p \in Seq(States \X States) /\ Len(p) = 1 /\ p # NoPlan /\ p[1] = <<r.state, g>>
        /\ p[1][1] = r.state /\ p[1][2] = g
    BY SMTT(30), <1>3, <2>1, StepShape
  <2>3. \A i \in 1..Len(p) : i = 1
    BY <2>2
  <2>4. /\ r.state \notin {"none", "cancelled", "complete"}
        /\ g = "cancelled" => ~PastErasing(r)
        /\ g \in {"tombstoned", "complete", "cancelled"} \cup Goals
        /\ g = "blocked" => r.state \in Resumable
        /\ PastErasing(r) => g \in {"erasing", "complete"} \/ (g = "blocked" /\ r.state = "erasing")
        /\ g = "complete" => r.state = "erasing"
    <3>1. g \in Goals \cup Resumable \cup {"cancelled"} /\ g \in Transitions[r.state]
      OBVIOUS
    <3>2. /\ r.state = "requested" => Transitions[r.state] = {"journal_pending"}
          /\ r.state = "tombstoned" =>
               Transitions[r.state] = {"external_actions_pending", "cancelled", "blocked"}
          /\ r.state = "external_actions_pending" =>
               Transitions[r.state] = {"grace", "cancelled", "blocked"}
          /\ r.state = "grace" => Transitions[r.state] = {"erasing", "cancelled", "blocked"}
          /\ r.state = "erasing" => Transitions[r.state] = {"verifying", "blocked"}
          /\ r.state = "blocked" =>
               Transitions[r.state] = {"tombstoned", "external_actions_pending", "grace",
                                       "erasing", "verifying"}
          /\ r.state \in {"none", "complete", "cancelled"} => Transitions[r.state] = {}
      BY TransitionsAre
    <3>3. r.state \in States
      OBVIOUS
    <3> QED BY <1>3, <3>1, <3>2, <3>3 DEF Goals, Resumable, PastErasing, States
  <2>5. \A i \in 1..Len(p) : p[i] \in States \X States
    <3>1. <<r.state, g>> \in States \X States
      BY <2>1
    <3> QED BY <2>2, <2>3, <3>1
  <2> QED BY <1>3, <2>2, <2>3, <2>4, <2>5 DEF LeadsOn
<1> QED BY <1>1, <1>2, <1>3 DEF PlanFits

(* What a transaction appends, whether it commits or not.                  *)
LEMMA Appended ==
  ASSUME Typed, NEW p, LeadsOn(p, op, op.at), NEW n \in 0..Len(p),
         journal' = journal \o Objects(p, n)
  PROVE  /\ n \in Nat /\ n <= 2
         /\ journal' \in Seq(Entry) /\ Len(journal') = Len(journal) + n
         /\ \A i \in 1..Len(journal) : journal'[i] = journal[i]
         /\ \A i \in 1..n : /\ journal'[Len(journal) + i].from = p[i][1]
                            /\ journal'[Len(journal) + i].to = p[i][2]
                            /\ journal'[Len(journal) + i].at = op.at
<1>1. n \in Nat /\ n <= 2 /\ Len(p) \in 1..2
  BY DEF LeadsOn
<1>2. \A i \in 1..n : [from |-> p[i][1], to |-> p[i][2], at |-> op.at] \in Entry
  <2> SUFFICES ASSUME NEW i \in 1..n
               PROVE  [from |-> p[i][1], to |-> p[i][2], at |-> op.at] \in Entry
    OBVIOUS
  <2>1. i \in 1..Len(p)
    BY <1>1
  <2>2. p[i] \in States \X States
    BY <2>1 DEF LeadsOn
  <2>3. p[i][1] \in States /\ p[i][2] \in States
    BY <2>2
  <2> QED BY <2>3, OpTyped DEF Entry
<1>3. Objects(p, n) \in Seq(Entry) /\ Len(Objects(p, n)) = n
      /\ \A i \in 1..n : Objects(p, n)[i] = [from |-> p[i][1], to |-> p[i][2], at |-> op.at]
  BY <1>1, <1>2 DEF Objects
<1>4. journal \in Seq(Entry) /\ Len(journal) \in Nat
  BY OpTyped
<1>5. /\ journal' \in Seq(Entry) /\ Len(journal') = Len(journal) + n
      /\ \A i \in 1..Len(journal) : journal'[i] = journal[i]
      /\ \A i \in 1..n : journal'[Len(journal) + i] = Objects(p, n)[i]
  <2>1. \A i \in 1..(Len(journal) + n) :
          journal'[i] = IF i <= Len(journal) THEN journal[i] ELSE Objects(p, n)[i - Len(journal)]
    BY <1>3, <1>4, ConcatProperties
  <2>2. journal' \in Seq(Entry) /\ Len(journal') = Len(journal) + n
    BY <1>3, <1>4, ConcatProperties
  <2> QED BY <2>1, <2>2, <1>1, <1>4
<1> QED BY <1>1, <1>3, <1>5

(* What a step makes of the row and of the journal.                        *)
Rests == journal' = journal /\ \E f \in 0..MaxFailures : op' = [op EXCEPT !.failures = f]

Requested ==
  /\ home = "active" /\ op.state \in {"none", "requested"} /\ op.plan = NoPlan
  /\ op' = [op EXCEPT !.state = "requested"] /\ journal' = journal

KeepsPlan ==
  /\ op.plan = NoPlan /\ journal' = journal
  /\ \E p : PlanFits(p, op, window) /\ op' = [op EXCEPT !.plan = p, !.at = window]

Abandoned == op' = [op EXCEPT !.plan = NoPlan, !.at = FALSE] /\ journal' = journal

Commits == op.plan # NoPlan /\ Committed(op.plan)

RollsBack == op.plan # NoPlan /\ RolledBack(op.plan)

OpMoves == Rests \/ Requested \/ KeepsPlan \/ Abandoned \/ Commits \/ RollsBack

(* The plan that is reserved leads on.                                     *)
LEMMA PlanReserved ==
  ASSUME Typed, StoryHolds, op.plan # NoPlan
  PROVE  LeadsOn(op.plan, op, op.at)
BY OpTyped, PlanLeads DEF StoryHolds

(* The operation keeps what it has passed.                                 *)
OpGoesOn ==
  /\ PastErasing(op) => PastErasing(op')
  /\ op.state = "cancelled" => op'.state = "cancelled"

StoryStep ==
  /\ op' \in RowSpace /\ journal' \in Seq(Entry)
  /\ StoryHolds' /\ NoWayBack' /\ OpGoesOn

LEMMA PlanFitsOn ==
  ASSUME NEW p, NEW q, NEW r, NEW at, r.state = q.state, r.resume = q.resume, PlanFits(p, q, at)
  PROVE  PlanFits(p, r, at)
BY DEF PlanFits

LEMMA StoryRests ==
  ASSUME Typed, StoryHolds, NoWayBack, Rests
  PROVE  StoryStep
<1> PICK f \in 0..MaxFailures : op' = [op EXCEPT !.failures = f]
  BY DEF Rests
<1>1. journal' = journal /\ op \in RowSpace
  BY OpTyped DEF Rests
<1>2. /\ op'.state = op.state /\ op'.resume = op.resume /\ op'.ver = op.ver
      /\ op'.plan = op.plan /\ op'.at = op.at /\ op' \in RowSpace
  BY <1>1 DEF RowSpace
<1>3. PastErasing(op') <=> PastErasing(op)
  BY <1>2 DEF PastErasing
<1>4. PlanFits(op.plan, op, op.at) => PlanFits(op'.plan, op', op'.at)
  BY <1>2, PlanFitsOn
<1>5. StoryHolds'
  BY <1>1, <1>2, <1>4 DEF StoryHolds, WindowHonoured
<1>6. NoWayBack'
  BY <1>1, <1>2, <1>3 DEF NoWayBack, Journaled
<1> QED BY <1>1, <1>2, <1>3, <1>5, <1>6, OpTyped DEF StoryStep, OpGoesOn

LEMMA StoryRequested ==
  ASSUME Typed, StoryHolds, NoWayBack, Requested
  PROVE  StoryStep
<1>1. journal' = journal /\ op \in RowSpace /\ op' = [op EXCEPT !.state = "requested"]
  BY OpTyped DEF Requested
<1>2. /\ op'.state = "requested" /\ op'.resume = op.resume /\ op'.ver = op.ver
      /\ op'.plan = NoPlan /\ op' \in RowSpace
  BY <1>1 DEF RowSpace, Requested, States
<1>3. op.resume = "none" /\ op.ver = 0
  BY DEF Requested, StoryHolds
<1>4. ~PastErasing(op') /\ ~PastErasing(op)
  BY <1>2, <1>3 DEF PastErasing, Requested
<1>5. StoryHolds'
  <2>1. WindowHonoured' /\ op'.ver = 0 /\ op'.resume = "none"
    BY <1>1, <1>2, <1>3 DEF StoryHolds, WindowHonoured
  <2>2. Len(journal') \in op'.ver..(op'.ver + 2) /\ ~(op'.ver > 0)
    <3>1. Len(journal) \in op.ver..(op.ver + 2) /\ op.ver = 0
      BY <1>3 DEF StoryHolds
    <3>2. Len(journal) \in 0..2 /\ ~(0 > 0)
      BY <3>1
    <3>3. journal' = journal
      BY <1>1
    <3> QED BY <2>1, <3>2, <3>3
  <2> QED BY <1>1, <1>2, <2>1, <2>2 DEF StoryHolds
<1>6. NoWayBack'
  BY <1>1, <1>2, <1>3, <1>4 DEF NoWayBack, Journaled
<1> QED BY <1>1, <1>2, <1>4, <1>5, <1>6, OpTyped DEF StoryStep, OpGoesOn, Requested

LEMMA StoryReserved ==
  ASSUME Typed, StoryHolds, NoWayBack, KeepsPlan
  PROVE  StoryStep
<1> PICK p : PlanFits(p, op, window) /\ op' = [op EXCEPT !.plan = p, !.at = window]
  BY DEF KeepsPlan
<1>1. journal' = journal /\ op \in RowSpace /\ window \in BOOLEAN
  BY OpTyped DEF KeepsPlan, Typed
<1>2. LeadsOn(p, op, window)
  BY <1>1, OpTyped, PlanLeads DEF StoryHolds
<1>3. p \in Seq(States \X States) /\ op.state # "none"
  BY <1>2 DEF LeadsOn
<1>4. /\ op'.state = op.state /\ op'.resume = op.resume /\ op'.ver = op.ver
      /\ op'.plan = p /\ op'.at = window /\ op' \in RowSpace
  BY <1>1, <1>3 DEF RowSpace
<1>5. PastErasing(op') <=> PastErasing(op)
  BY <1>4 DEF PastErasing
<1>6. PlanFits(op'.plan, op', op'.at)
  BY <1>4 DEF PlanFits
<1>7. StoryHolds'
  BY <1>1, <1>3, <1>4, <1>6 DEF StoryHolds, WindowHonoured
<1>8. NoWayBack'
  BY <1>1, <1>4, <1>5 DEF NoWayBack, Journaled
<1> QED BY <1>1, <1>4, <1>5, <1>7, <1>8, OpTyped DEF StoryStep, OpGoesOn

LEMMA StoryAbandoned ==
  ASSUME Typed, StoryHolds, NoWayBack, Abandoned
  PROVE  StoryStep
<1>1. journal' = journal /\ op \in RowSpace /\ op' = [op EXCEPT !.plan = NoPlan, !.at = FALSE]
  BY OpTyped DEF Abandoned
<1>2. NoPlan \in Seq(States \X States)
  BY DEF NoPlan
<1>3. /\ op'.state = op.state /\ op'.resume = op.resume /\ op'.ver = op.ver
      /\ op'.plan = NoPlan /\ op' \in RowSpace
  BY <1>1, <1>2 DEF RowSpace
<1>4. PastErasing(op') <=> PastErasing(op)
  BY <1>3 DEF PastErasing
<1>5. StoryHolds'
  BY <1>1, <1>3 DEF StoryHolds, WindowHonoured
<1>6. NoWayBack'
  BY <1>1, <1>3, <1>4 DEF NoWayBack, Journaled
<1> QED BY <1>1, <1>3, <1>4, <1>5, <1>6, OpTyped DEF StoryStep, OpGoesOn

(* A commit finds the journal where the row is, and adds the whole plan.   *)
LEMMA JustBeyond ==
  ASSUME NEW a \in Nat, NEW b \in 1..2, NEW i \in 1..(a + b - 1), i > a
  PROVE  i = a + 1 /\ i + 1 = a + 2 /\ b = 2
OBVIOUS

LEMMA StoryCommits ==
  ASSUME Typed, StoryHolds, NoWayBack, Commits
  PROVE  StoryStep /\ LeadsOn(op.plan, op, op.at) /\ op'.state = op.plan[Len(op.plan)][2]
         /\ op'.plan = NoPlan /\ Len(journal') = op'.ver
<1> DEFINE p == op.plan
           last == p[Len(p)][2]
<1>1. LeadsOn(p, op, op.at)
  BY PlanReserved DEF Commits
<1>2. /\ Len(journal) = op.ver /\ journal' = journal \o Objects(p, Len(p))
      /\ op' = [op EXCEPT !.state = last, !.ver = @ + Len(p), !.plan = NoPlan, !.at = FALSE,
                          !.resume = IF last = "blocked" THEN op.state ELSE "none",
                          !.acked = @ \/ p = RequestPlan]
  BY DEF Commits, Committed, Free
<1>3. /\ Len(p) \in 1..2 /\ last \in {"tombstoned", "complete", "cancelled"} \cup Goals
      /\ last = "blocked" => op.state \in Resumable
      /\ PastErasing(op) => last \in {"erasing", "complete"} \/ (last = "blocked" /\ op.state = "erasing")
      /\ p[1][1] = op.state /\ (Len(p) = 2 => p[1][2] = p[2][1])
      /\ op.state \notin {"none", "cancelled", "complete"}
      /\ \A i \in 1..Len(p) :
            /\ p[i][2] = "cancelled" => op.at /\ i = Len(p) /\ ~PastErasing(op)
            /\ p[i][2] = "erasing" => ~op.at /\ i = Len(p)
  BY <1>1 DEF LeadsOn
<1>4. NoPlan \in Seq(States \X States) /\ last \in States \ {"journal_pending", "verifying", "none", "requested"}
  BY <1>3 DEF NoPlan, States, Goals
<1> HIDE DEF last
<1>5. op' \in RowSpace
  <2>1. (IF last = "blocked" THEN op.state ELSE "none") \in Resumable \cup {"none"}
    BY <1>3
  <2>2. (op.acked \/ p = RequestPlan) \in BOOLEAN
    OBVIOUS
  <2>3. op.ver + Len(p) \in Nat
    BY <1>3, OpTyped
  <2> HIDE DEF p
  <2> QED BY <1>2, <1>4, <2>1, <2>2, <2>3, OpTyped DEF RowSpace
<1>6. /\ op'.state = last /\ op'.plan = NoPlan /\ op'.ver = op.ver + Len(p)
      /\ op'.resume = IF last = "blocked" THEN op.state ELSE "none"
  BY <1>2, OpTyped DEF RowSpace
<1>7. /\ journal' \in Seq(Entry) /\ Len(journal') = Len(journal) + Len(p)
      /\ \A i \in 1..Len(journal) : journal'[i] = journal[i]
      /\ \A i \in 1..Len(p) : /\ journal'[Len(journal) + i].from = p[i][1]
                              /\ journal'[Len(journal) + i].to = p[i][2]
                              /\ journal'[Len(journal) + i].at = op.at
  <2>1. Len(p) \in 0..Len(p)
    BY <1>3
  <2> QED BY <1>1, <1>2, <2>1, Appended
<1>8. op.ver \in Nat /\ Len(journal') = op'.ver /\ DOMAIN journal' = 1..Len(journal')
  BY <1>2, <1>3, <1>6, <1>7, OpTyped, LenProperties
<1> HIDE DEF p
<1>9. \A i \in 1..Len(journal') :
         \/ i \in 1..op.ver /\ journal'[i] = journal[i]
         \/ \E j \in 1..Len(p) : i = op.ver + j /\ journal'[i].from = p[j][1]
                                 /\ journal'[i].to = p[j][2] /\ journal'[i].at = op.at
  <2> SUFFICES ASSUME NEW i \in 1..Len(journal'), i \notin 1..op.ver
               PROVE  \E j \in 1..Len(p) : i = op.ver + j /\ journal'[i].from = p[j][1]
                                 /\ journal'[i].to = p[j][2] /\ journal'[i].at = op.at
    BY <1>2, <1>7
  <2>1. i - op.ver \in 1..Len(p) /\ i = op.ver + (i - op.ver)
    BY <1>2, <1>3, <1>7, <1>8
  <2> QED BY ZenonT(30), <1>2, <1>7, <2>1
<1>10. op.ver = 0 \/ journal[op.ver].to = op.state
  BY <1>8 DEF StoryHolds
<1>11. \A i \in 1..(Len(journal') - 1) : journal'[i].to = journal'[i + 1].from
  <2> SUFFICES ASSUME NEW i \in 1..(Len(journal') - 1)
               PROVE  journal'[i].to = journal'[i + 1].from
    OBVIOUS
  <2>1. CASE i < op.ver
    <3>1. i \in 1..Len(journal) /\ i + 1 \in 1..Len(journal) /\ i \in 1..(Len(journal) - 1)
      BY <1>2, <1>8, <2>1
    <3> QED BY <1>7, <3>1 DEF StoryHolds
  <2>2. CASE i = op.ver
    <3>1. i \in 1..Len(journal) /\ i + 1 = Len(journal) + 1 /\ 1 \in 1..Len(p) /\ op.ver # 0
      BY <1>2, <1>3, <1>8, <2>2
    <3>2. journal'[i] = journal[i] /\ journal'[i + 1].from = p[1][1]
      BY <1>7, <3>1
    <3> QED BY <1>3, <1>10, <2>2, <3>1, <3>2
  <2>3. CASE i > op.ver
    <3>1. i = Len(journal) + 1 /\ i + 1 = Len(journal) + 2 /\ Len(p) = 2
      <4>1. Len(p) \in 1..2 /\ Len(journal) = op.ver /\ Len(journal') = Len(journal) + Len(p)
        BY <1>2, <1>3, <1>7
      <4>2. Len(journal') = op.ver + Len(p)
        BY <4>1
      <4>3. i \in 1..(op.ver + Len(p) - 1)
        <5>1. /\ Len(journal) \in Nat /\ Len(p) \in Nat /\ op.ver = Len(journal)
              /\ Len(journal') = Len(journal) + Len(p)
          BY <1>7, <4>1, OpTyped
        <5>2. i \in Nat /\ i >= 1 /\ i <= Len(journal) + Len(p) - 1
          BY <5>1
        <5> QED BY <5>1, <5>2
      <4>4. i = op.ver + 1 /\ i + 1 = op.ver + 2 /\ Len(p) = 2
        <5>1. op.ver \in Nat /\ i > op.ver /\ Len(p) \in 1..2
          BY <1>8, <2>3, <4>1
        <5> QED BY <4>3, <5>1, JustBeyond
      <4> QED BY <4>1, <4>4
    <3>2. journal'[i].to = p[1][2] /\ journal'[i + 1].from = p[2][1]
      BY <1>7, <3>1
    <3> QED BY <1>3, <3>1, <3>2
  <2> QED BY <2>1, <2>2, <2>3, <1>8
<1>12. journal'[op'.ver].to = last
  BY SMTT(30), <1>2, <1>3, <1>6, <1>7 DEF last
<1>13. WindowHonoured'
  <2> SUFFICES ASSUME NEW i \in 1..Len(journal')
               PROVE  /\ journal'[i].to = "cancelled" => journal'[i].at
                      /\ journal'[i].to = "erasing" => ~journal'[i].at
    BY <1>8 DEF WindowHonoured
  <2>1. CASE i \in 1..op.ver /\ journal'[i] = journal[i]
    BY <2>1, <1>2, OpTyped DEF StoryHolds, WindowHonoured
  <2>2. ASSUME NEW j \in 1..Len(p), journal'[i].to = p[j][2], journal'[i].at = op.at
        PROVE  /\ journal'[i].to = "cancelled" => journal'[i].at
               /\ journal'[i].to = "erasing" => ~journal'[i].at
    BY <1>3, <2>2
  <2> QED BY <1>9, <2>1, <2>2
<1>14. StoryHolds'
  <2>1. /\ op'.state \notin {"journal_pending", "verifying", "none", "requested"}
        /\ op'.resume # "none" <=> op'.state = "blocked"
        /\ op'.plan = NoPlan
    BY <1>3, <1>4, <1>6 
  <2>2. Len(journal') \in op'.ver..(op'.ver + 2)
    BY <1>6, <1>8, <1>3
  <2>3. op'.ver > 0 => journal'[op'.ver].to = op'.state
    BY <1>6, <1>12
  <2> QED BY <2>1, <2>2, <2>3, <1>11, <1>13 DEF StoryHolds
<1>15. OpGoesOn
  BY <1>3, <1>6 DEF OpGoesOn, PastErasing
<1>16. NoWayBack'
  <2>1. op'.state # "cancelled" => \A i \in 1..op'.ver : journal'[i].to # "cancelled"
    <3> SUFFICES ASSUME op'.state # "cancelled", NEW i \in 1..op'.ver, journal'[i].to = "cancelled"
                 PROVE  FALSE
      OBVIOUS
    <3>1. op.state # "cancelled" /\ last # "cancelled" /\ i \in 1..Len(journal')
      BY <1>3, <1>6, <1>8
    <3>2. ~(i \in 1..op.ver /\ journal'[i] = journal[i])
      BY <3>1 DEF NoWayBack
    <3>3. ASSUME NEW j \in 1..Len(p), journal'[i].to = p[j][2]
          PROVE  FALSE
      BY <1>3, <3>1, <3>3 DEF last
    <3> QED BY <1>9, <3>1, <3>2, <3>3
  <2>2. ~PastErasing(op') => \A i \in 1..op'.ver : journal'[i].to # "erasing"
    <3> SUFFICES ASSUME ~PastErasing(op'), NEW i \in 1..op'.ver, journal'[i].to = "erasing"
                 PROVE  FALSE
      OBVIOUS
    <3>1. ~PastErasing(op) /\ last # "erasing"
      BY <1>6, <1>15 DEF PastErasing, OpGoesOn
    <3> QED BY SMTT(30), <3>1, <1>3, <1>8, <1>9 DEF NoWayBack, last
  <2>3. PastErasing(op') => (Journaled("erasing") /\ ~Journaled("cancelled"))'
    <3> SUFFICES ASSUME PastErasing(op')
                 PROVE  (Journaled("erasing") /\ ~Journaled("cancelled"))'
      OBVIOUS
    <3>1. \A i \in DOMAIN journal' : journal'[i].to # "cancelled"
      <4>1. last # "cancelled"
        BY <1>6, <1>3 DEF PastErasing
      <4> QED BY <4>1, <1>6, <1>8, <2>1
    <3>2. CASE PastErasing(op)
      <4>1. PICK i \in 1..Len(journal) : journal[i].to = "erasing"
        BY <3>2, OpTyped DEF NoWayBack, Journaled
      <4>2. i \in DOMAIN journal' /\ journal'[i].to = "erasing"
        BY <4>1, <1>2, <1>3, <1>7, <1>8
      <4> QED BY <3>1, <4>2 DEF Journaled
    <3>3. CASE ~PastErasing(op)
      <4>1. last = "erasing"
        <5>1. last # "complete"
          BY <1>1, <3>3 DEF LeadsOn, last, p, PastErasing
        <5>2. last = "blocked" => op.state # "erasing"
          BY <3>3 DEF PastErasing
        <5> QED BY <1>6, <5>1, <5>2 DEF PastErasing
      <4>2. op'.ver \in DOMAIN journal' /\ journal'[op'.ver].to = "erasing"
        BY <1>3, <1>6, <1>8, <1>12, <4>1
      <4> QED BY <3>1, <4>2 DEF Journaled
    <3> QED BY <3>2, <3>3
  <2> QED BY <2>1, <2>2, <2>3 DEF NoWayBack
<1> QED BY <1>1, <1>5, <1>6, <1>7, <1>8, <1>14, <1>15, <1>16 DEF StoryStep, last, p

(* A transaction that rolls back may leave versions behind.                *)
LEMMA StoryRollsBack ==
  ASSUME Typed, StoryHolds, NoWayBack, RollsBack
  PROVE  StoryStep /\ op' = op
<1> DEFINE p == op.plan
<1>1. LeadsOn(p, op, op.at)
  BY PlanReserved DEF RollsBack
<1>2. PICK n \in 0..Len(p) : (n > 0 => Free) /\ journal' = journal \o Objects(p, n)
  BY DEF RollsBack, RolledBack
<1>3. op' = op /\ op \in RowSpace /\ op.ver \in Nat /\ Len(journal) \in Nat
  BY OpTyped DEF RollsBack, RolledBack
<1> HIDE DEF p
<1>4. /\ n \in Nat /\ n <= 2
      /\ journal' \in Seq(Entry) /\ Len(journal') = Len(journal) + n
      /\ \A i \in 1..Len(journal) : journal'[i] = journal[i]
      /\ \A i \in 1..n : /\ journal'[Len(journal) + i].from = p[i][1]
                         /\ journal'[Len(journal) + i].to = p[i][2]
                         /\ journal'[Len(journal) + i].at = op.at
  BY <1>1, <1>2, Appended
<1>5. DOMAIN journal' = 1..Len(journal') /\ Len(journal') \in Nat
  BY <1>3, <1>4, LenProperties
<1>6. n > 0 => Len(journal) = op.ver
  BY <1>2 DEF Free
<1>7. /\ \A i \in 1..Len(p) :
            /\ p[i][2] = "cancelled" => op.at /\ ~PastErasing(op)
            /\ p[i][2] = "erasing" => ~op.at
      /\ Len(p) \in 1..2 /\ p[1][1] = op.state /\ (Len(p) = 2 => p[1][2] = p[2][1])
      /\ op.state \notin {"none", "cancelled", "complete"}
  BY <1>1 DEF LeadsOn
<1>8. \A i \in 1..Len(journal') :
         \/ i \in 1..Len(journal) /\ journal'[i] = journal[i]
         \/ \E j \in 1..Len(p) : journal'[i].to = p[j][2] /\ journal'[i].at = op.at
  <2> SUFFICES ASSUME NEW i \in 1..Len(journal'), i \notin 1..Len(journal)
               PROVE  \E j \in 1..Len(p) : journal'[i].to = p[j][2] /\ journal'[i].at = op.at
    BY <1>4
  <2>0. i \in Nat /\ i >= 1 /\ i <= Len(journal) + n /\ i > Len(journal)
    BY <1>3, <1>4
  <2>1. i - Len(journal) \in 1..n /\ i = Len(journal) + (i - Len(journal))
    BY <1>3, <1>4, <2>0
  <2>2. i - Len(journal) \in 1..Len(p)
    BY <1>2, <1>7, <2>1
  <2> QED BY <1>4, <2>1, <2>2
<1>9. \A i \in 1..op.ver : i \in 1..Len(journal) /\ journal'[i] = journal[i]
  <2>1. op.ver <= Len(journal)
    BY <1>3 DEF StoryHolds
  <2> QED BY <1>3, <1>4, <2>1
<1>10. Len(journal') \in op.ver..(op.ver + 2)
  <2>1. Len(journal) \in op.ver..(op.ver + 2)
    BY DEF StoryHolds
  <2>2. CASE n = 0
    BY <1>3, <1>4, <2>1, <2>2
  <2>3. CASE n > 0
    BY <1>3, <1>4, <1>6, <2>3
  <2> QED BY <1>4, <2>2, <2>3
<1>11. op.ver > 0 => journal'[op.ver].to = op.state
  <2> SUFFICES ASSUME op.ver > 0
               PROVE  journal'[op.ver].to = op.state
    OBVIOUS
  <2>1. op.ver \in 1..op.ver
    BY <1>3
  <2> QED BY <1>9, <2>1 DEF StoryHolds
<1>12. \A i \in 1..(Len(journal') - 1) : journal'[i].to = journal'[i + 1].from
  <2> SUFFICES ASSUME NEW i \in 1..(Len(journal') - 1)
               PROVE  journal'[i].to = journal'[i + 1].from
    OBVIOUS
  <2>0. i \in Nat /\ i >= 1 /\ i <= Len(journal) + n - 1
    BY <1>3, <1>4
  <2>1. CASE i < Len(journal)
    <3>1. i \in 1..Len(journal) /\ i + 1 \in 1..Len(journal) /\ i \in 1..(Len(journal) - 1)
      BY <1>3, <2>0, <2>1
    <3> QED BY <1>4, <3>1 DEF StoryHolds
  <2>2. CASE i = Len(journal)
    <3>1. i \in 1..Len(journal) /\ 1 \in 1..n /\ n > 0
      BY <1>3, <1>4, <2>0, <2>2
    <3>2. op.ver > 0 /\ i = op.ver
      BY <1>3, <1>6, <2>0, <2>2, <3>1
    <3>3. journal'[i] = journal[i] /\ journal'[i + 1].from = p[1][1]
      BY <1>4, <2>2, <3>1
    <3> QED BY <1>7, <3>2, <3>3 DEF StoryHolds
  <2>3. CASE i > Len(journal)
    <3>1. i = Len(journal) + 1 /\ n = 2
      BY <1>3, <1>4, <2>0, <2>3
    <3>2. 1 \in 1..n /\ 2 \in 1..n /\ Len(p) = 2 /\ i + 1 = Len(journal) + 2
      BY SMTT(30), <1>2, <1>3, <1>7, <3>1
    <3>3. journal'[i].to = p[1][2] /\ journal'[i + 1].from = p[2][1]
      BY <1>4, <3>1, <3>2
    <3> QED BY <1>7, <3>2, <3>3
  <2> QED BY <1>3, <2>0, <2>1, <2>2, <2>3
<1>13. WindowHonoured'
  <2> SUFFICES ASSUME NEW i \in 1..Len(journal')
               PROVE  /\ journal'[i].to = "cancelled" => journal'[i].at
                      /\ journal'[i].to = "erasing" => ~journal'[i].at
    BY <1>5 DEF WindowHonoured
  <2>1. CASE i \in 1..Len(journal) /\ journal'[i] = journal[i]
    BY <2>1, OpTyped DEF StoryHolds, WindowHonoured
  <2>2. ASSUME NEW j \in 1..Len(p), journal'[i].to = p[j][2], journal'[i].at = op.at
        PROVE  /\ journal'[i].to = "cancelled" => journal'[i].at
               /\ journal'[i].to = "erasing" => ~journal'[i].at
    BY <1>7, <2>2
  <2> QED BY <1>8, <2>1, <2>2
<1>14. StoryHolds'
  BY <1>3, <1>10, <1>11, <1>12, <1>13 DEF StoryHolds
<1>15. NoWayBack'
  <2>1. op.state # "cancelled" => \A i \in 1..op.ver : journal'[i].to # "cancelled"
    BY <1>9 DEF NoWayBack
  <2>2. ~PastErasing(op) => \A i \in 1..op.ver : journal'[i].to # "erasing"
    BY <1>9 DEF NoWayBack
  <2>3. PastErasing(op) => (Journaled("erasing") /\ ~Journaled("cancelled"))'
    <3> SUFFICES ASSUME PastErasing(op)
                 PROVE  (Journaled("erasing") /\ ~Journaled("cancelled"))'
      OBVIOUS
    <3>1. PICK i \in 1..Len(journal) : journal[i].to = "erasing"
      BY OpTyped DEF NoWayBack, Journaled
    <3>2. i \in 1..Len(journal') /\ journal'[i].to = "erasing"
      BY <1>3, <1>4, <3>1
    <3>3. ASSUME NEW j \in 1..Len(journal'), journal'[j].to = "cancelled"
          PROVE  FALSE
      BY <1>7, <1>8, <3>3, OpTyped DEF NoWayBack, Journaled
    <3> QED BY <1>5, <3>2, <3>3 DEF Journaled
  <2> QED BY <1>3, <2>1, <2>2, <2>3 DEF NoWayBack
<1> QED BY <1>3, <1>4, <1>14, <1>15 DEF StoryStep, OpGoesOn

LEMMA RestsUnchanged ==
  ASSUME Typed, op' = op, journal' = journal
  PROVE  Rests
<1>1. op \in RowSpace
  BY OpTyped
<1>2. op = [op EXCEPT !.failures = op.failures]
  BY <1>1 DEF RowSpace
<1> QED BY <1>2, OpTyped DEF Rests

LEMMA RestsTallied ==
  ASSUME Typed, NEW n \in Nat, op' = [op EXCEPT !.failures = AtMost(n)], journal' = journal
  PROVE  Rests
<1>1. AtMost(n) \in 0..MaxFailures
  BY DeletionAssumption DEF AtMost
<1> QED BY <1>1 DEF Rests

LEMMA ReserveMoves ==
  ASSUME Typed, NEW p, Reserve(p), journal' = journal,
         op.plan = NoPlan => PlanFits(p, op, window)
  PROVE  Rests \/ KeepsPlan
<1>1. CASE op.plan = NoPlan
  BY <1>1 DEF Reserve, KeepsPlan
<1>2. CASE op.plan # NoPlan
  BY <1>2, RestsUnchanged DEF Reserve
<1> QED BY <1>1, <1>2

LEMMA WorkersTyped ==
  ASSUME Typed, NEW w \in Workers
  PROVE  /\ worker[w] \in WorkerSpace
         /\ worker[w].pc \in Pcs /\ worker[w].saw \in States
         /\ worker[w].resume \in Resumable \cup {"none"} /\ worker[w].failures \in 0..MaxFailures
         /\ worker[w].reply \in Replies /\ worker[w].attempt \in 0..MaxAttempts
         /\ worker[w].from \in States /\ worker[w].goal \in Goals \cup {"none"}
         /\ worker[w].tally \in BOOLEAN /\ worker[w].counts \in BOOLEAN
BY DEF Typed, WorkerSpace

LEMMA CmdsTyped ==
  ASSUME Typed, NEW k \in Kinds
  PROVE  /\ cmds[k] \in CmdSpace
         /\ cmds[k].status \in {"none", "pending", "unknown", "succeeded", "failed"}
         /\ cmds[k].sent \in BOOLEAN /\ cmds[k].attempt \in 0..MaxAttempts /\ cmds[k].calls \in 0..1
BY DEF Typed, CmdSpace

(* Every step moves the row and the journal in one of these ways.          *)
LEMMA PrepareMoves ==
  ASSUME Typed, StoryHolds, NEW w \in Workers, Prepare(w)
  PROVE  Rests \/ KeepsPlan
<1> DEFINE goal == worker[w].goal
<1>1. journal' = journal
  BY DEF Prepare
<1>2. CASE op' = op
  BY <1>1, <1>2, RestsUnchanged
<1>3. CASE Valid(goal) /\ Reserve(Step(op.state, goal))
  <2>1. goal \in Goals \cup {"none"}
    BY WorkersTyped
  <2>2. goal \in Transitions[op.state] /\ (op.state = "blocked" => op.resume = goal)
        /\ (goal = "erasing" => ~window)
    BY <1>3 DEF Valid
  <2>3. goal # "none"
    BY <2>2, OpTyped, TransitionsAre DEF States
  <2>4. goal \in (Goals \cup Resumable \cup {"cancelled"}) \cap Transitions[op.state]
        /\ goal # "cancelled"
    BY <2>1, <2>2, <2>3 DEF Goals
  <2>5. PlanFits(Step(op.state, goal), op, window)
    BY <2>2, <2>4 DEF PlanFits
  <2> QED BY <1>1, <1>3, <2>5, ReserveMoves
<1> QED BY <1>2, <1>3 DEF Prepare

LEMMA AdvanceMoves ==
  ASSUME Typed, StoryHolds, NEW w \in Workers, Advance(w)
  PROVE  Rests \/ Commits \/ RollsBack
<1> DEFINE plan == Step(worker[w].from, worker[w].goal)
<1>1. worker[w].from \in States /\ worker[w].goal \in States
  BY WorkersTyped DEF Goals, States
<1>2. plan # NoPlan
  BY <1>1, StepShape
<1>3. CASE op' = op /\ journal' = journal
  BY <1>3, RestsUnchanged
<1>4. CASE op.plan = plan /\ (Committed(plan) \/ RolledBack(plan))
  BY <1>2, <1>4 DEF Commits, RollsBack
<1> QED BY <1>3, <1>4 DEF Advance

LEMMA CancelMoves ==
  ASSUME Typed, StoryHolds
  PROVE  /\ ReserveCancel => Rests \/ KeepsPlan
         /\ ApplyCancel => Commits \/ RollsBack
<1>1. ASSUME ReserveCancel
      PROVE  Rests \/ KeepsPlan
  <2>1. "cancelled" \in Transitions[op.state] /\ window /\ Reserve(CancelPlan) /\ journal' = journal
    BY <1>1 DEF ReserveCancel
  <2>2. op.state # "blocked"
    BY <2>1, TransitionsAre
  <2>3. PlanFits(CancelPlan, op, window)
    BY <2>1, <2>2 DEF PlanFits, CancelPlan
  <2> QED BY <2>1, <2>3, ReserveMoves
<1>2. ASSUME ApplyCancel
      PROVE  Commits \/ RollsBack
  <2>1. CancelPlan # NoPlan
    <3>1. op.state \in States
      BY OpTyped
    <3>2. "cancelled" \in States
      BY DEF States
    <3> QED BY <3>1, <3>2, StepShape DEF CancelPlan
  <2>2. op.plan = CancelPlan /\ (Committed(CancelPlan) \/ RolledBack(CancelPlan))
    BY <1>2 DEF ApplyCancel
  <2> QED BY <2>1, <2>2 DEF Commits, RollsBack
<1> QED BY <1>1, <1>2

LEMMA EraseMoves ==
  ASSUME Typed, StoryHolds, NEW w \in Workers
  PROVE  /\ ReserveErasure(w) => Rests \/ KeepsPlan
         /\ Erase(w) => Rests \/ Commits \/ RollsBack
         /\ Abandon(w) => Rests \/ Abandoned
<1>1. ASSUME ReserveErasure(w)
      PROVE  Rests \/ KeepsPlan
  <2>1. CASE op.acked /\ Reservable(ErasurePlan)
    <3>1. op.state = "erasing"
      BY <2>1, LongShape DEF Reservable
    <3>2. PlanFits(ErasurePlan, op, window)
      BY <3>1 DEF PlanFits
    <3> QED BY <1>1, <2>1, <3>2, ReserveMoves DEF ReserveErasure
  <2>2. CASE ~(op.acked /\ Reservable(ErasurePlan))
    BY <1>1, <2>2, RestsUnchanged DEF ReserveErasure
  <2> QED BY <2>1, <2>2
<1>2. ASSUME Erase(w)
      PROVE  Rests \/ Commits \/ RollsBack
  <2>1. CASE op' = op /\ journal' = journal
    BY <2>1, RestsUnchanged
  <2>2. CASE op.plan = ErasurePlan /\ (Committed(ErasurePlan) \/ RolledBack(ErasurePlan))
    BY <2>2, LongShape DEF Commits, RollsBack
  <2> QED BY <1>2, <2>1, <2>2 DEF Erase
<1>3. ASSUME Abandon(w)
      PROVE  Rests \/ Abandoned
  BY <1>3, RestsUnchanged DEF Abandon, Abandoned
<1> QED BY <1>1, <1>2, <1>3

LEMMA TallyMoves ==
  ASSUME Typed, NEW w \in Workers, Tally(w) \/ Release(w)
  PROVE  Rests
<1>1. worker[w].failures + 1 \in Nat /\ op.failures + 1 \in Nat /\ op \in RowSpace
  BY DeletionAssumption, WorkersTyped, OpTyped
<1>2. \/ op' = op /\ journal' = journal
      \/ op' = [op EXCEPT !.failures = AtMost(worker[w].failures + 1)] /\ journal' = journal
      \/ op' = [op EXCEPT !.failures = AtMost(@ + 1)] /\ journal' = journal
  BY DEF Tally, Release
<1>3. [op EXCEPT !.failures = AtMost(@ + 1)] = [op EXCEPT !.failures = AtMost(op.failures + 1)]
  BY <1>1 DEF RowSpace
<1> QED BY <1>1, <1>2, <1>3, RestsUnchanged, RestsTallied

LEMMA StoryMoves ==
  ASSUME Typed, StoryHolds, [XNext]_xVars
  PROVE  OpMoves
<1>1. CASE op' = op /\ journal' = journal
  BY <1>1, RestsUnchanged DEF OpMoves
<1>2. CASE Request
  BY <1>2 DEF Request, Requested, OpMoves, StoryHolds
<1>3. CASE ReserveRequest
  <2>1. PlanFits(RequestPlan, op, window)
    BY <1>3 DEF ReserveRequest, PlanFits
  <2> QED BY <1>3, <2>1, ReserveMoves DEF ReserveRequest, OpMoves
<1>4. CASE FinalizeRequest
  BY <1>4, LongShape DEF FinalizeRequest, Commits, RollsBack, OpMoves
<1>5. CASE ReserveCancel \/ ApplyCancel
  BY <1>5, CancelMoves DEF OpMoves
<1>6. ASSUME NEW w \in Workers, Work(w)
      PROVE  OpMoves
  <2>1. CASE Prepare(w) \/ Advance(w)
    BY <2>1, PrepareMoves, AdvanceMoves DEF OpMoves
  <2>2. CASE ReserveErasure(w) \/ Erase(w) \/ Abandon(w)
    BY <2>2, EraseMoves DEF OpMoves
  <2>3. CASE Tally(w) \/ Release(w)
    BY <2>3, TallyMoves DEF OpMoves
  <2>4. CASE Claim(w) \/ Enqueue(w) \/ Hold(w) \/ EndGrace(w) \/ RetryFailed(w) \/ Crash(w)
    <3>1. op' = op /\ journal' = journal
      BY <2>4 DEF Claim, Enqueue, Hold, EndGrace, RetryFailed, Crash
    <3> QED BY <1>1, <3>1
  <2>5. CASE Dispatch(w) \/ Call(w) \/ Ask(w) \/ Record(w) \/ Decide(w)
    <3>1. op' = op /\ journal' = journal
      BY <2>5 DEF Dispatch, Call, Ask, Record, Decide
    <3> QED BY <1>1, <3>1
  <2> QED BY <1>6, <2>1, <2>2, <2>3, <2>4, <2>5 DEF Work
<1> QED BY <1>1, <1>2, <1>3, <1>4, <1>5, <1>6 DEF XNext, Land, WindowCloses, LeaseExpires, xVars

(* The row and the journal through every step.                             *)
LEMMA StoryKept ==
  ASSUME Typed, StoryHolds, NoWayBack, [XNext]_xVars
  PROVE  StoryStep
BY StoryMoves, StoryRests, StoryRequested, StoryReserved, StoryAbandoned, StoryCommits, StoryRollsBack
   DEF OpMoves

-----------------------------------------------------------------------------
(* The workers, step by step                                               *)

LEMMA KindShape ==
  ASSUME Typed, NEW w \in Workers
  PROVE  /\ Kind(w) \in Kinds
         /\ Kind(w) = "end" <=> Phase(w) = "erasing"
         /\ Phase(w) = "erasing" <=>
              (worker[w].saw = "erasing" \/ (worker[w].saw = "blocked" /\ worker[w].resume = "erasing"))
         /\ Kind(w) = "reopen" <=> worker[w].saw = "cancelled"
<1>1. worker[w].saw \in States /\ worker[w].resume \in Resumable \cup {"none"}
  BY WorkersTyped
<1>2. Phase(w) \in {"erasing", "cancellation", "pre_grace"}
      /\ (Phase(w) = "erasing" <=>
            (worker[w].saw = "erasing" \/ (worker[w].saw = "blocked" /\ worker[w].resume = "erasing")))
      /\ (Phase(w) = "cancellation" <=> worker[w].saw = "cancelled")
  BY <1>1 DEF Phase, Resumable
<1>3. /\ Phase(w) = "erasing" => Kind(w) = "end"
      /\ Phase(w) = "cancellation" => Kind(w) = "reopen"
      /\ Phase(w) = "pre_grace" => Kind(w) = "close"
  BY DEF Kind, KindOf
<1> QED BY <1>2, <1>3 DEF Kinds

(* A worker works for the same command as long as it remembers the same.   *)
LEMMA SameKind ==
  ASSUME NEW v \in Workers, worker'[v].saw = worker[v].saw, worker'[v].resume = worker[v].resume
  PROVE  Kind(v)' = Kind(v) /\ Phase(v)' = Phase(v)
BY DEF Kind, Phase

LEMMA NoneIsNoErasing ==
  ASSUME NEW v \in Workers, worker'[v].saw = "none"
  PROVE  Phase(v)' = "pre_grace"
BY DEF Phase

LEMMA IdleTyped ==
  Idle \in WorkerSpace
<1>1. /\ "idle" \in Pcs /\ "none" \in States /\ "none" \in Resumable \cup {"none"}
      /\ 0 \in 0..MaxFailures /\ "none" \in Replies /\ 0 \in 0..MaxAttempts
      /\ "none" \in Goals \cup {"none"} /\ FALSE \in BOOLEAN
  BY DeletionAssumption DEF Pcs, States, Replies
<1> QED BY <1>1 DEF Idle, WorkerSpace

LEMMA ReleaseTyped ==
  ASSUME NEW c \in BOOLEAN
  PROVE  [Idle EXCEPT !.pc = "release", !.counts = c] \in WorkerSpace
<1>1. "release" \in Pcs
  BY DEF Pcs
<1> QED BY <1>1, IdleTyped DEF WorkerSpace

LEMMA AimTyped ==
  ASSUME NEW t \in BOOLEAN, NEW g \in Goals, NEW f \in 0..MaxFailures
  PROVE  [Idle EXCEPT !.pc = "prepare", !.goal = g, !.tally = t, !.failures = f] \in WorkerSpace
<1>1. "prepare" \in Pcs
  BY DEF Pcs
<1> QED BY <1>1, IdleTyped DEF WorkerSpace

(* One worker moves, the others stay where they are.                       *)
OnlyMoves(w) ==
  /\ worker' \in [Workers -> WorkerSpace]
  /\ \A v \in Workers : v # w => worker'[v] = worker[v]

(* It leaves its command and forgets what it saw.                          *)
Leaves(w) ==
  /\ OnlyMoves(w)
  /\ worker'[w].saw = "none" /\ worker'[w].resume = "none"
  /\ worker'[w].pc \in {"idle", "release", "prepare"}
  /\ worker'[w].pc = "prepare" => worker'[w].goal # "none"

(* It goes on with what it remembers.                                      *)
Goes(w, pc) ==
  /\ OnlyMoves(w)
  /\ worker'[w].pc = pc /\ worker'[w].goal = worker[w].goal
  /\ worker'[w].saw = worker[w].saw /\ worker'[w].resume = worker[w].resume

LEMMA MovesTo ==
  ASSUME Typed, NEW w \in Workers, NEW r \in WorkerSpace, worker' = [worker EXCEPT ![w] = r]
  PROVE  OnlyMoves(w) /\ worker'[w] = r
BY DEF Typed, OnlyMoves

LEMMA QuitLeaves ==
  ASSUME Typed, NEW w \in Workers, NEW c \in BOOLEAN, Quit(w, c)
  PROVE  Leaves(w)
<1> DEFINE r == [Idle EXCEPT !.pc = "release", !.counts = c]
<1>1. r \in WorkerSpace
  BY ReleaseTyped
<1>2. OnlyMoves(w) /\ worker'[w] = r
  BY <1>1, MovesTo DEF Quit
<1>3. r.saw = "none" /\ r.resume = "none" /\ r.pc = "release"
  BY DEF Idle
<1> QED BY <1>2, <1>3 DEF Leaves

LEMMA AimLeaves ==
  ASSUME Typed, NEW w \in Workers, NEW g \in Goals, NEW t \in BOOLEAN, Aim(w, g, t)
  PROVE  Leaves(w)
<1> DEFINE f == IF t THEN worker[w].failures ELSE 0
           r == [Idle EXCEPT !.pc = "prepare", !.goal = g, !.tally = t, !.failures = f]
<1>0. f \in 0..MaxFailures
  BY WorkersTyped, DeletionAssumption
<1> HIDE DEF f
<1>1. r \in WorkerSpace
  BY <1>0, AimTyped
<1>2. worker' = [worker EXCEPT ![w] = r]
  BY DEF Aim, f
<1>3. OnlyMoves(w) /\ worker'[w] = r
  BY <1>1, <1>2, MovesTo
<1>4. r.saw = "none" /\ r.resume = "none" /\ r.pc = "prepare" /\ r.goal = g /\ g # "none"
  BY DEF Idle, Goals
<1> QED BY <1>3, <1>4 DEF Leaves

LEMMA IdleLeaves ==
  ASSUME Typed, NEW w \in Workers, worker' = [worker EXCEPT ![w] = Idle]
  PROVE  Leaves(w)
<1>1. Idle \in WorkerSpace
  BY IdleTyped
<1>2. OnlyMoves(w) /\ worker'[w] = Idle
  BY <1>1, MovesTo
<1> QED BY <1>2 DEF Leaves, Idle

LEMMA GotoGoes ==
  ASSUME Typed, NEW w \in Workers, NEW pc \in Pcs, Goto(w, pc)
  PROVE  Goes(w, pc) /\ worker'[w].attempt = worker[w].attempt /\ worker'[w].reply = worker[w].reply
<1> DEFINE r == [worker[w] EXCEPT !.pc = pc]
<1>1. worker[w] \in WorkerSpace
  BY WorkersTyped
<1>2. r \in WorkerSpace
  BY <1>1 DEF WorkerSpace
<1>3. worker' = [worker EXCEPT ![w] = r]
  BY DEF Goto
<1>4. OnlyMoves(w) /\ worker'[w] = r
  BY <1>2, <1>3, MovesTo
<1>5. r.pc = pc /\ r.goal = worker[w].goal /\ r.saw = worker[w].saw /\ r.resume = worker[w].resume
      /\ r.attempt = worker[w].attempt /\ r.reply = worker[w].reply
  BY <1>1 DEF WorkerSpace
<1> QED BY <1>4, <1>5 DEF Goes

LEMMA DoneMoves ==
  ASSUME Typed, NEW w \in Workers, Done(w)
  PROVE  Leaves(w) \/ Goes(w, "tally")
<1>1. CASE worker[w].tally
  BY <1>1, GotoGoes DEF Done, Pcs
<1>2. CASE ~worker[w].tally
  BY <1>2, QuitLeaves DEF Done
<1> QED BY <1>1, <1>2

-----------------------------------------------------------------------------
(* What each step makes of the outbox                                      *)

LEMMA FreshTyped ==
  ASSUME NEW n \in 1..MaxAttempts
  PROVE  /\ [Fresh EXCEPT !.attempt = n] \in CmdSpace /\ Fresh \in CmdSpace
         /\ [Fresh EXCEPT !.attempt = n].attempt = n
         /\ [Fresh EXCEPT !.attempt = n].status = "pending" /\ Fresh.status = "pending"
         /\ ~[Fresh EXCEPT !.attempt = n].sent /\ ~Fresh.sent /\ Fresh.attempt = 1
         /\ [Fresh EXCEPT !.attempt = n].calls = 0 /\ Fresh.calls = 0
<1>1. 1 \in 0..MaxAttempts /\ n \in 0..MaxAttempts /\ 0 \in 0..1
  BY DeletionAssumption
<1>2. Fresh \in CmdSpace
  BY <1>1 DEF Fresh, CmdSpace
<1> QED BY <1>1, <1>2 DEF Fresh, CmdSpace

(* One row of the outbox changes, to a row of its type.                    *)
OnlyRow(k) ==
  /\ cmds' \in [Kinds -> CmdSpace]
  /\ \A j \in Kinds : j # k => cmds'[j] = cmds[j]

LEMMA RowSet ==
  ASSUME Typed, NEW k \in Kinds, NEW r \in CmdSpace, cmds' = [cmds EXCEPT ![k] = r]
  PROVE  OnlyRow(k) /\ cmds'[k] = r
BY DEF Typed, OnlyRow

LEMMA EnqueueShape ==
  ASSUME Typed, WorkSound, NEW w \in Workers, Enqueue(w)
  PROVE  /\ cmds' \in [Kinds -> CmdSpace]
         /\ \A k \in Kinds : cmds'[k] = cmds[k] \/ (cmds[k].status = "none" /\ cmds'[k] = Fresh)
         /\ cmds'["reopen"] = cmds["reopen"]
         /\ cmds'["close"] # cmds["close"] => ~own /\ op.state = "tombstoned"
         /\ cmds'["end"] # cmds["end"] => op.state = "erasing"
         /\ \/ Leaves(w)
            \/ Goes(w, "dispatch") /\ worker[w].saw = "erasing" /\ cmds'["end"].status # "none"
<1>0. worker[w].saw \in {"tombstoned", "erasing"}
  BY DEF WorkSound, WorkFits, Enqueue
<1>1. CASE Quit(w, TRUE) /\ UNCHANGED cmds
  BY <1>1, QuitLeaves DEF Typed
<1>2. CASE /\ op.state = worker[w].saw
           /\ cmds' = [k \in Kinds |->
                         IF k \in KindsDue(w) /\ cmds[k].status = "none" THEN Fresh ELSE cmds[k]]
           /\ IF op.state = "erasing" THEN Goto(w, "dispatch")
              ELSE Aim(w, "external_actions_pending", FALSE)
  <2>1. Fresh \in CmdSpace /\ Fresh.status = "pending"
    <3>1. 1 \in 1..MaxAttempts
      BY DeletionAssumption
    <3> QED BY <3>1, FreshTyped
  <2>2. \A k \in Kinds : cmds[k] \in CmdSpace
    BY CmdsTyped
  <2>3. cmds' \in [Kinds -> CmdSpace]
    BY <1>2, <2>1, <2>2
  <2>4. \A k \in Kinds : cmds'[k] = IF k \in KindsDue(w) /\ cmds[k].status = "none" THEN Fresh ELSE cmds[k]
    BY <1>2
  <2>5. /\ worker[w].saw = "erasing" => KindsDue(w) = {"end"}
        /\ worker[w].saw # "erasing" /\ own => KindsDue(w) = {}
        /\ worker[w].saw # "erasing" /\ ~own => KindsDue(w) = {"close"}
    BY DEF KindsDue
  <2>6. own \in BOOLEAN
    BY DEF Typed
  <2>7. /\ cmds'["reopen"] = cmds["reopen"]
        /\ cmds'["close"] # cmds["close"] => ~own /\ op.state = "tombstoned"
        /\ cmds'["end"] # cmds["end"] => op.state = "erasing"
    <3>1. cmds'["reopen"] = cmds["reopen"]
      BY <2>4, <2>5, <2>6 DEF Kinds
    <3>2. cmds'["close"] # cmds["close"] => ~own /\ worker[w].saw # "erasing"
      BY <2>4, <2>5, <2>6 DEF Kinds
    <3>3. cmds'["end"] # cmds["end"] => worker[w].saw = "erasing"
      BY <2>4, <2>5, <2>6 DEF Kinds
    <3> QED BY <1>0, <1>2, <3>1, <3>2, <3>3
  <2>8. CASE op.state = "erasing"
    <3>1. Goes(w, "dispatch")
      BY <1>2, <2>8, GotoGoes DEF Pcs
    <3>2. cmds'["end"].status # "none"
      BY <1>2, <2>1, <2>4, <2>5, <2>8 DEF Kinds
    <3> QED BY <1>2, <2>3, <2>4, <2>7, <2>8, <3>1, <3>2
  <2>9. CASE op.state # "erasing"
    <3>1. Leaves(w)
      BY <1>2, <2>9, AimLeaves DEF Goals
    <3> QED BY <2>3, <2>4, <2>7, <3>1
  <2> QED BY <2>8, <2>9
<1> QED BY <1>1, <1>2 DEF Enqueue

LEMMA RetryShape ==
  ASSUME Typed, WorkSound, NEW w \in Workers, RetryFailed(w)
  PROVE  \/ Leaves(w) /\ cmds' = cmds
         \/ /\ Goes(w, "dispatch") /\ worker[w].saw \in {"blocked", "cancelled"}
            /\ worker[w].saw = "blocked" => worker[w].resume \in {"external_actions_pending", "erasing"}
            /\ \/ cmds' = cmds
               \/ /\ OnlyRow(Kind(w)) /\ cmds[Kind(w)].status = "failed"
                  /\ cmds'[Kind(w)].status = "pending" /\ ~cmds'[Kind(w)].sent
                  /\ cmds'[Kind(w)].calls = 0
                  /\ cmds'[Kind(w)].attempt = cmds[Kind(w)].attempt + 1
<1> DEFINE k == Kind(w)
<1>0. worker[w].saw \in {"blocked", "cancelled"} /\ k \in Kinds
  BY KindShape DEF WorkSound, WorkFits, RetryFailed
<1>1. CASE (Quit(w, FALSE) \/ Quit(w, TRUE)) /\ UNCHANGED cmds
  BY <1>1, QuitLeaves
<1>2. CASE /\ worker[w].saw = "blocked" => worker[w].resume \in {"external_actions_pending", "erasing"}
           /\ cmds' = IF Retryable(k)
                      THEN [cmds EXCEPT ![k] = [Fresh EXCEPT !.attempt = cmds[k].attempt + 1]]
                      ELSE cmds
           /\ Goto(w, "dispatch")
  <2>1. Goes(w, "dispatch")
    BY <1>2, GotoGoes DEF Pcs
  <2>2. CASE ~Retryable(k)
    BY <1>0, <1>2, <2>1, <2>2
  <2>3. CASE Retryable(k)
    <3> DEFINE n == cmds[k].attempt + 1
    <3>1. cmds[k].status = "failed" /\ n \in 1..MaxAttempts
      BY <1>0, <2>3, CmdsTyped, DeletionAssumption DEF Retryable
    <3>2. cmds' = [cmds EXCEPT ![k] = [Fresh EXCEPT !.attempt = n]]
      BY <1>2, <2>3
    <3> HIDE DEF k, n
    <3>3. OnlyRow(k) /\ cmds'[k] = [Fresh EXCEPT !.attempt = n]
      BY <1>0, <3>1, <3>2, RowSet, FreshTyped
    <3>4. cmds'[k].status = "pending" /\ ~cmds'[k].sent /\ cmds'[k].calls = 0 /\ cmds'[k].attempt = n
      BY <3>1, <3>3, FreshTyped
    <3> QED BY <1>0, <1>2, <2>1, <3>1, <3>3, <3>4 DEF k, n
  <2> QED BY <2>2, <2>3
<1> QED BY <1>1, <1>2 DEF RetryFailed, Kind

LEMMA DispatchShape ==
  ASSUME Typed, RowsSound, NEW w \in Workers, Dispatch(w)
  PROVE  /\ OnlyMoves(w) /\ worker'[w].saw = worker[w].saw /\ worker'[w].resume = worker[w].resume
         /\ worker[w].pc = "dispatch" /\ OnlyRow(Kind(w))
         /\ \/ /\ worker'[w].pc = "call" /\ worker'[w].attempt = cmds[Kind(w)].attempt
               /\ cmds[Kind(w)].status = "pending" /\ ~cmds[Kind(w)].sent
               /\ Kind(w) = "reopen" \/ op.state \notin {"cancelled", "complete"}
               /\ cmds'[Kind(w)] = [cmds[Kind(w)] EXCEPT !.sent = TRUE]
            \/ /\ worker'[w].pc = "ask" /\ worker'[w].attempt = cmds[Kind(w)].attempt
               /\ cmds[Kind(w)].status = "unknown" /\ cmds' = cmds
            \/ worker'[w].pc = "decide" /\ cmds' = cmds
<1> DEFINE k == Kind(w)
           a == IF Markable(w) \/ cmds[k].status = "unknown" THEN cmds[k].attempt ELSE 0
           q == CASE Markable(w) -> "call" [] cmds[k].status = "unknown" -> "ask" [] OTHER -> "decide"
           r == [worker[w] EXCEPT !.attempt = a, !.pc = q]
<1>0. k \in Kinds /\ cmds[k] \in CmdSpace /\ worker[w] \in WorkerSpace
  BY KindShape, CmdsTyped, WorkersTyped
<1>1. a \in 0..MaxAttempts
  BY <1>0, CmdsTyped, DeletionAssumption
<1>2. q \in Pcs
  BY DEF Pcs
<1>3. worker' = [worker EXCEPT ![w] = r]
  <2>1. worker' = [worker EXCEPT ![w].attempt = a, ![w].pc = q]
    BY DEF Dispatch, Kind
  <2> HIDE DEF a, q
  <2> QED BY <1>0, <2>1 DEF Typed, WorkerSpace
<1>m. Markable(w) <=> /\ cmds[k].status = "pending" /\ ~cmds[k].sent
                      /\ k = "reopen" \/ op.state \notin {"cancelled", "complete"}
  BY DEF Markable, Kind
<1>c. cmds' = IF Markable(w) THEN [cmds EXCEPT ![k].sent = TRUE] ELSE cmds
  BY DEF Dispatch, Kind
<1>4. /\ Markable(w) => a = cmds[k].attempt /\ q = "call"
      /\ ~Markable(w) /\ cmds[k].status = "unknown" => a = cmds[k].attempt /\ q = "ask"
      /\ ~Markable(w) /\ cmds[k].status # "unknown" => q = "decide"
  <2> HIDE DEF k
  <2>1. CASE Markable(w)
    <3>1. cmds[k].status # "unknown"
      BY <1>m, <2>1
    <3> QED BY <2>1, <3>1
  <2>2. CASE ~Markable(w) /\ cmds[k].status = "unknown"
    BY <2>2
  <2>3. CASE ~Markable(w) /\ cmds[k].status # "unknown"
    BY <2>3
  <2> QED BY <2>1, <2>2, <2>3
<1> HIDE DEF k, a, q
<1>5. r \in WorkerSpace /\ r.pc = q /\ r.attempt = a /\ r.saw = worker[w].saw /\ r.resume = worker[w].resume
  BY <1>0, <1>1, <1>2 DEF WorkerSpace
<1>6. OnlyMoves(w) /\ worker'[w] = r
  BY <1>3, <1>5, MovesTo
<1>7. worker[w].pc = "dispatch"
  BY DEF Dispatch, At
<1>8. cmds \in [Kinds -> CmdSpace]
  BY DEF Typed
<1>9. CASE Markable(w)
  <2> DEFINE c == [cmds[k] EXCEPT !.sent = TRUE]
  <2>1. c \in CmdSpace /\ cmds' = [cmds EXCEPT ![k] = c]
    BY <1>0, <1>9, <1>c DEF CmdSpace
  <2>2. OnlyRow(k) /\ cmds'[k] = c
    BY <1>0, <2>1, RowSet
  <2> QED BY <1>4, <1>5, <1>6, <1>7, <1>9, <1>m, <2>2 DEF k
<1>10. CASE ~Markable(w)
  <2>1. cmds' = cmds /\ OnlyRow(k)
    BY <1>10, <1>c, <1>8 DEF OnlyRow
  <2> QED BY <1>4, <1>5, <1>6, <1>7, <1>10, <2>1 DEF k
<1> QED BY <1>9, <1>10

LEMMA CallShape ==
  ASSUME Typed, CallsSound, NEW w \in Workers, Call(w)
  PROVE  /\ OnlyMoves(w) /\ worker'[w].saw = worker[w].saw /\ worker'[w].resume = worker[w].resume
         /\ worker[w].pc = "call" /\ worker'[w].pc = "record" /\ worker'[w].attempt = worker[w].attempt
         /\ worker'[w].reply \in {"succeeded", "failed", "unknown"} /\ OnlyRow(Kind(w))
         /\ worker[w].attempt = cmds[Kind(w)].attempt
         /\ cmds[Kind(w)].calls = 0 /\ cmds[Kind(w)].status = "pending" /\ cmds[Kind(w)].sent
         /\ cmds'[Kind(w)] = [cmds[Kind(w)] EXCEPT !.calls = 1]
         /\ \/ worker'[w].reply # "failed" /\ stripe' = After(Kind(w)) /\ adrift' = adrift
            \/ worker'[w].reply # "succeeded" /\ stripe' = stripe /\ adrift' = adrift
            \/ worker'[w].reply = "unknown" /\ adrift' = adrift \cup {Kind(w)} /\ stripe' = stripe
<1> DEFINE k == Kind(w)
<1>0. k \in Kinds /\ cmds[k] \in CmdSpace /\ worker[w] \in WorkerSpace
  BY KindShape, CmdsTyped, WorkersTyped
<1>1. worker[w].pc = "call"
  BY DEF Call, At
<1>2. /\ worker[w].attempt = cmds[k].attempt /\ cmds[k].calls = 0 /\ cmds[k].status = "pending"
      /\ cmds[k].sent
  BY <1>1 DEF CallsSound, CallFits, At
<1>3. PICK reply \in {"succeeded", "failed", "unknown"} :
        /\ worker' = [worker EXCEPT ![w].pc = "record", ![w].reply = reply]
        /\ \/ reply # "failed" /\ stripe' = After(k) /\ adrift' = adrift
           \/ reply # "succeeded" /\ stripe' = stripe /\ adrift' = adrift
           \/ reply = "unknown" /\ adrift' = adrift \cup {k} /\ stripe' = stripe
  BY DEF Call, Kind
<1>4. cmds' = [cmds EXCEPT ![k].calls = @ + 1]
  BY <1>2 DEF Call, Kind
<1> HIDE DEF k
<1> DEFINE r == [worker[w] EXCEPT !.pc = "record", !.reply = reply]
           c == [cmds[k] EXCEPT !.calls = 1]
<1>5. worker' = [worker EXCEPT ![w] = r]
  BY <1>0, <1>3 DEF Typed, WorkerSpace
<1>6. r \in WorkerSpace /\ r.pc = "record" /\ r.reply = reply /\ r.attempt = worker[w].attempt
      /\ r.saw = worker[w].saw /\ r.resume = worker[w].resume
  BY <1>0 DEF WorkerSpace, Pcs, Replies
<1>7. OnlyMoves(w) /\ worker'[w] = r
  BY <1>5, <1>6, MovesTo
<1>8. c \in CmdSpace
  BY <1>0 DEF CmdSpace
<1>9. cmds' = [cmds EXCEPT ![k] = c]
  <2>1. cmds[k].calls + 1 = 1
    BY <1>2
  <2>2. cmds' = [cmds EXCEPT ![k] = [cmds[k] EXCEPT !.calls = cmds[k].calls + 1]]
    BY <1>4
  <2> QED BY <2>1, <2>2
<1>10. OnlyRow(k) /\ cmds'[k] = c
  BY <1>0, <1>8, <1>9, RowSet
<1> QED BY <1>1, <1>2, <1>3, <1>6, <1>7, <1>10 DEF k

LEMMA AskShape ==
  ASSUME Typed, NEW w \in Workers, Ask(w)
  PROVE  /\ OnlyMoves(w) /\ worker'[w].saw = worker[w].saw /\ worker'[w].resume = worker[w].resume
         /\ worker[w].pc = "ask" /\ worker'[w].pc = "record" /\ worker'[w].attempt = worker[w].attempt
         /\ worker'[w].reply \in {"succeeded", "failed", "unknown"}
         /\ worker'[w].reply = "succeeded" => Landed(Kind(w))
<1> DEFINE k == Kind(w)
<1>0. worker[w] \in WorkerSpace
  BY WorkersTyped
<1>1. worker[w].pc = "ask"
  BY DEF Ask, At
<1>2. PICK reply \in {"unknown", IF Landed(k) THEN "succeeded" ELSE "failed"} :
        worker' = [worker EXCEPT ![w].pc = "record", ![w].reply = reply]
  BY DEF Ask, Kind
<1>3. reply \in {"succeeded", "failed", "unknown"} /\ (reply = "succeeded" => Landed(k))
  OBVIOUS
<1> HIDE DEF k
<1> DEFINE r == [worker[w] EXCEPT !.pc = "record", !.reply = reply]
<1>4. worker' = [worker EXCEPT ![w] = r]
  BY <1>0, <1>2 DEF Typed, WorkerSpace
<1>5. r \in WorkerSpace /\ r.pc = "record" /\ r.reply = reply /\ r.attempt = worker[w].attempt
      /\ r.saw = worker[w].saw /\ r.resume = worker[w].resume
  BY ZenonT(30), <1>0, <1>3 DEF WorkerSpace, Pcs, Replies
<1>6. OnlyMoves(w) /\ worker'[w] = r
  BY <1>4, <1>5, MovesTo
<1> QED BY <1>1, <1>3, <1>5, <1>6 DEF k

LEMMA RecordShape ==
  ASSUME Typed, WorkSound, NEW w \in Workers, Record(w)
  PROVE  /\ worker[w].pc = "record" /\ worker[w].reply \in {"succeeded", "failed", "unknown"}
         /\ Leaves(w) \/ Goes(w, "decide")
         /\ OnlyRow(Kind(w))
         /\ \/ cmds' = cmds /\ misread' = misread
            \/ /\ cmds[Kind(w)].attempt = worker[w].attempt
               /\ cmds[Kind(w)].status \in {"pending", "unknown"}
               /\ cmds'[Kind(w)] = [cmds[Kind(w)] EXCEPT !.status = worker[w].reply]
               /\ misread' = (misread \/ (/\ worker[w].reply = "failed"
                                          /\ Kind(w) \in adrift \/ Landed(Kind(w))))
<1> DEFINE k == Kind(w)
           open == cmds[k].attempt = worker[w].attempt /\ cmds[k].status \in {"pending", "unknown"}
<1>0. k \in Kinds /\ cmds[k] \in CmdSpace /\ worker[w] \in WorkerSpace
  BY KindShape, CmdsTyped, WorkersTyped
<1>1. worker[w].pc = "record" /\ worker[w].reply \in {"succeeded", "failed", "unknown"}
  BY WorkersTyped DEF Record, At, WorkSound, WorkFits, Replies
<1>2. /\ cmds' = IF open THEN [cmds EXCEPT ![k].status = worker[w].reply] ELSE cmds
      /\ misread' = (misread \/ (open /\ worker[w].reply = "failed" /\ (k \in adrift \/ Landed(k))))
  BY DEF Record, Kind
<1>3. Leaves(w) \/ Goes(w, "decide")
  <2>1. CASE Quit(w, TRUE)
    BY <2>1, QuitLeaves
  <2>2. CASE worker' = [worker EXCEPT ![w].pc = "decide", ![w].reply = "none", ![w].attempt = 0]
    <3> DEFINE r == [worker[w] EXCEPT !.pc = "decide", !.reply = "none", !.attempt = 0]
    <3>1. worker' = [worker EXCEPT ![w] = r]
      BY <1>0, <2>2 DEF Typed, WorkerSpace
    <3>2. "decide" \in Pcs /\ "none" \in Replies /\ 0 \in 0..MaxAttempts
      BY DeletionAssumption DEF Pcs, Replies
    <3>3. r \in WorkerSpace /\ r.pc = "decide" /\ r.goal = worker[w].goal
          /\ r.saw = worker[w].saw /\ r.resume = worker[w].resume
      BY <1>0, <3>2 DEF WorkerSpace
    <3>4. OnlyMoves(w) /\ worker'[w] = r
      BY <3>1, <3>3, MovesTo
    <3> QED BY <3>3, <3>4 DEF Goes
  <2> QED BY <2>1, <2>2 DEF Record
<1> HIDE DEF k
<1>4. CASE open
  <2> DEFINE c == [cmds[k] EXCEPT !.status = worker[w].reply]
  <2>1. c \in CmdSpace /\ cmds' = [cmds EXCEPT ![k] = c]
    BY <1>0, <1>1, <1>2, <1>4 DEF CmdSpace
  <2>2. OnlyRow(k) /\ cmds'[k] = c
    BY <1>0, <2>1, RowSet
  <2> QED BY <1>1, <1>2, <1>3, <1>4, <2>2 DEF k
<1>5. CASE ~open
  <2>1. cmds' = cmds /\ misread' = misread /\ OnlyRow(k)
    BY <1>2, <1>5 DEF Typed, OnlyRow
  <2> QED BY <1>1, <1>3, <2>1 DEF k
<1> QED BY <1>4, <1>5

-----------------------------------------------------------------------------
(* What goes on in every step                                              *)

(* A command that was written stays written, one that succeeded has; and   *)
(* what is gone at Stripe does not come back.                              *)
RowsGoOn ==
  /\ cmds' \in [Kinds -> CmdSpace]
  /\ \A k \in Kinds : /\ cmds[k].status # "none" => cmds'[k].status # "none"
                      /\ cmds[k].status = "succeeded" => cmds'[k].status = "succeeded"

StripeGoesOn ==
  /\ stripe' \in {"open", "closing", "gone"} /\ adrift' \subseteq Kinds
  /\ stripe = "gone" => stripe' = "gone"

LEMMA OneRowGoesOn ==
  ASSUME Typed, NEW k \in Kinds, OnlyRow(k), cmds'[k].status # "none",
         cmds[k].status = "succeeded" => cmds'[k].status = "succeeded"
  PROVE  RowsGoOn
BY DEF OnlyRow, RowsGoOn

LEMMA SameRowsGoOn ==
  ASSUME Typed, cmds' = cmds
  PROVE  RowsGoOn
BY DEF Typed, RowsGoOn

LEMMA ReversalShape ==
  ASSUME Typed, cmds' = WithReversal
  PROVE  /\ RowsGoOn /\ OnlyRow("reopen")
         /\ \/ cmds' = cmds /\ ~(cmds["close"].status = "succeeded" /\ cmds["reopen"].status = "none")
            \/ /\ cmds["close"].status = "succeeded" /\ cmds["reopen"].status = "none"
               /\ cmds'["reopen"].status = "pending" /\ ~cmds'["reopen"].sent
               /\ cmds'["reopen"].attempt = 1 /\ cmds'["reopen"].calls = 0
<1>1. CASE cmds["close"].status = "succeeded" /\ cmds["reopen"].status = "none"
  <2>1. cmds' = [cmds EXCEPT !["reopen"] = Fresh]
    BY <1>1 DEF WithReversal
  <2>2. 1 \in 1..MaxAttempts /\ "reopen" \in Kinds
    BY DeletionAssumption DEF Kinds
  <2>3. Fresh \in CmdSpace /\ Fresh.status = "pending" /\ ~Fresh.sent /\ Fresh.attempt = 1 /\ Fresh.calls = 0
    BY <2>2, FreshTyped
  <2>4. OnlyRow("reopen") /\ cmds'["reopen"] = Fresh
    BY <2>1, <2>2, <2>3, RowSet
  <2>5. RowsGoOn
    BY <1>1, <2>2, <2>3, <2>4, OneRowGoesOn
  <2> QED BY <1>1, <2>3, <2>4, <2>5
<1>2. CASE ~(cmds["close"].status = "succeeded" /\ cmds["reopen"].status = "none")
  BY <1>2, SameRowsGoOn DEF WithReversal, OnlyRow, Typed
<1> QED BY <1>1, <1>2

LEMMA CmdSent ==
  ASSUME Typed, NEW k \in Kinds, cmds'[k] = [cmds[k] EXCEPT !.sent = TRUE]
  PROVE  /\ cmds'[k].status = cmds[k].status /\ cmds'[k].sent
         /\ cmds'[k].attempt = cmds[k].attempt /\ cmds'[k].calls = cmds[k].calls
BY CmdsTyped DEF CmdSpace

LEMMA CmdCalled ==
  ASSUME Typed, NEW k \in Kinds, cmds'[k] = [cmds[k] EXCEPT !.calls = 1]
  PROVE  /\ cmds'[k].status = cmds[k].status /\ cmds'[k].sent = cmds[k].sent
         /\ cmds'[k].attempt = cmds[k].attempt /\ cmds'[k].calls = 1
BY CmdsTyped DEF CmdSpace

LEMMA CmdNoted ==
  ASSUME Typed, NEW k \in Kinds, NEW s, cmds'[k] = [cmds[k] EXCEPT !.status = s]
  PROVE  /\ cmds'[k].status = s /\ cmds'[k].sent = cmds[k].sent
         /\ cmds'[k].attempt = cmds[k].attempt /\ cmds'[k].calls = cmds[k].calls
BY CmdsTyped DEF CmdSpace

LEMMA RowsKept ==
  ASSUME Typed, RowsSound, CallsSound, WorkSound, [XNext]_xVars
  PROVE  RowsGoOn
<1>1. CASE cmds' = cmds
  BY <1>1, SameRowsGoOn
<1>2. CASE ApplyCancel
  BY <1>1, <1>2, ReversalShape DEF ApplyCancel
<1>3. ASSUME NEW w \in Workers, Enqueue(w)
      PROVE  RowsGoOn
  <2>1. 1 \in 1..MaxAttempts
    BY DeletionAssumption
  <2>2. Fresh.status = "pending"
    BY <2>1, FreshTyped
  <2> QED BY <1>3, <2>2, EnqueueShape DEF RowsGoOn
<1>4. ASSUME NEW w \in Workers, RetryFailed(w)
      PROVE  RowsGoOn
  <2>1. Kind(w) \in Kinds
    BY KindShape
  <2> QED BY <1>1, <1>4, <2>1, RetryShape, OneRowGoesOn
<1>5. ASSUME NEW w \in Workers, Dispatch(w)
      PROVE  RowsGoOn
  <2>1. Kind(w) \in Kinds
    BY KindShape
  <2>2. CASE cmds'[Kind(w)] = [cmds[Kind(w)] EXCEPT !.sent = TRUE] /\ cmds[Kind(w)].status = "pending"
    <3>1. cmds'[Kind(w)].status = "pending"
      BY <2>1, <2>2, CmdSent
    <3> QED BY <1>5, <2>1, <2>2, <3>1, DispatchShape, OneRowGoesOn
  <2> QED BY <1>1, <1>5, <2>2, DispatchShape
<1>6. ASSUME NEW w \in Workers, Call(w)
      PROVE  RowsGoOn
  <2>1. Kind(w) \in Kinds
    BY KindShape
  <2>2. cmds'[Kind(w)].status = "pending" /\ cmds[Kind(w)].status = "pending"
    BY ZenonT(30), <1>6, <2>1, CallShape, CmdCalled
  <2> QED BY <1>6, <2>1, <2>2, CallShape, OneRowGoesOn
<1>7. ASSUME NEW w \in Workers, Record(w)
      PROVE  RowsGoOn
  <2>1. Kind(w) \in Kinds
    BY KindShape
  <2>2. CASE /\ cmds[Kind(w)].status \in {"pending", "unknown"}
             /\ cmds'[Kind(w)] = [cmds[Kind(w)] EXCEPT !.status = worker[w].reply]
    <3>1. worker[w].reply \in {"succeeded", "failed", "unknown"}
      BY <1>7, RecordShape
    <3>2. cmds'[Kind(w)].status = worker[w].reply
      BY <2>1, <2>2, CmdNoted
    <3> QED BY <1>7, <2>1, <2>2, <3>1, <3>2, RecordShape, OneRowGoesOn
  <2> QED BY <1>1, <1>7, <2>2, RecordShape
<1>8. ASSUME NEW w \in Workers, Work(w)
      PROVE  RowsGoOn
  <2>1. CASE cmds' = cmds
    BY <1>1, <2>1
  <2> QED BY <1>3, <1>4, <1>5, <1>6, <1>7, <1>8, <2>1 DEF Work, Claim, Hold, EndGrace, Ask, Decide,
       Prepare, Advance, ReserveErasure, Erase, Abandon, Tally, Release, Crash
<1> QED BY <1>1, <1>2, <1>8 DEF XNext, xVars, Request, ReserveRequest, FinalizeRequest, ReserveCancel,
     Land, WindowCloses, LeaseExpires

LEMMA StripeKept ==
  ASSUME Typed, CallsSound, [XNext]_xVars
  PROVE  StripeGoesOn
<1>0. stripe \in {"open", "closing", "gone"} /\ adrift \subseteq Kinds
  BY DEF Typed
<1>1. CASE stripe' = stripe /\ adrift' = adrift
  BY <1>0, <1>1 DEF StripeGoesOn
<1>2. \A k \in Kinds : After(k) \in {"open", "closing", "gone"} /\ (stripe = "gone" => After(k) = "gone")
  BY DEF After
<1>3. ASSUME NEW w \in Workers, Call(w)
      PROVE  StripeGoesOn
  <2>1. Kind(w) \in Kinds
    BY KindShape
  <2>2. /\ stripe' = After(Kind(w)) \/ stripe' = stripe
        /\ adrift' = adrift \/ adrift' = adrift \cup {Kind(w)}
    BY <1>3, CallShape
  <2>3. adrift' \subseteq Kinds
    BY <1>0, <2>1, <2>2
  <2>4. stripe' \in {"open", "closing", "gone"} /\ (stripe = "gone" => stripe' = "gone")
    BY <1>0, <1>2, <2>1, <2>2
  <2> QED BY <2>3, <2>4 DEF StripeGoesOn
<1>4. ASSUME NEW k \in Kinds, Land(k)
      PROVE  StripeGoesOn
  BY <1>0, <1>2, <1>4 DEF Land, StripeGoesOn
<1>5. ASSUME NEW w \in Workers, Work(w)
      PROVE  StripeGoesOn
  <2>1. CASE stripe' = stripe /\ adrift' = adrift
    BY <1>1, <2>1
  <2> QED BY <1>3, <1>5, <2>1 DEF Work, Claim, Enqueue, Hold, EndGrace, RetryFailed, Dispatch, Ask, Record,
       Decide, Prepare, Advance, ReserveErasure, Erase, Abandon, Tally, Release, Crash
<1> QED BY <1>1, <1>4, <1>5 DEF XNext, xVars, Request, ReserveRequest, FinalizeRequest, ReserveCancel,
     ApplyCancel, WindowCloses, LeaseExpires

-----------------------------------------------------------------------------
(* The workers keep what they work for                                     *)

(* What every step grants the workers.                                     *)
GoesOn == OpGoesOn /\ RowsGoOn /\ StripeGoesOn

LEMMA StaysFit ==
  ASSUME NEW v \in Workers, worker'[v] = worker[v], WorkFits(v), GoesOn
  PROVE  WorkFits(v)'
<1>1. Kind(v)' = Kind(v) /\ Phase(v)' = Phase(v)
  BY SameKind
<1>2. /\ PastErasing(op) => PastErasing(op')
      /\ op.state = "cancelled" => op'.state = "cancelled"
      /\ stripe = "gone" => stripe' = "gone"
  BY DEF GoesOn, OpGoesOn, StripeGoesOn
<1>3. /\ cmds["end"].status # "none" => cmds'["end"].status # "none"
      /\ cmds["end"].status = "succeeded" => cmds'["end"].status = "succeeded"
  BY DEF GoesOn, RowsGoOn, Kinds
<1> QED BY <1>1, <1>2, <1>3 DEF WorkFits, At

LEMMA LeavesFit ==
  ASSUME NEW w \in Workers, Leaves(w)
  PROVE  WorkFits(w)'
<1>1. Phase(w)' = "pre_grace"
  BY NoneIsNoErasing DEF Leaves
<1> QED BY <1>1 DEF Leaves, WorkFits, At

(* A worker that remembers what it saw still works for the same end.       *)
LEMMA RemembersFit ==
  ASSUME NEW w \in Workers, worker'[w].saw = worker[w].saw, worker'[w].resume = worker[w].resume,
         WorkFits(w), GoesOn
  PROVE  /\ Kind(w)' = Kind(w)
         /\ worker'[w].saw = "cancelled" => op'.state = "cancelled"
         /\ Phase(w)' = "erasing" => PastErasing(op')
         /\ cmds["end"].status # "none" => cmds'["end"].status # "none"
         /\ cmds["end"].status = "succeeded" => cmds'["end"].status = "succeeded"
<1>1. Kind(w)' = Kind(w) /\ Phase(w)' = Phase(w)
  BY SameKind
<1>2. /\ PastErasing(op) => PastErasing(op')
      /\ op.state = "cancelled" => op'.state = "cancelled"
  BY DEF GoesOn, OpGoesOn
<1>3. /\ cmds["end"].status # "none" => cmds'["end"].status # "none"
      /\ cmds["end"].status = "succeeded" => cmds'["end"].status = "succeeded"
  BY DEF GoesOn, RowsGoOn, Kinds
<1> QED BY <1>1, <1>2, <1>3 DEF WorkFits

LEMMA WorkStep ==
  ASSUME WorkSound, GoesOn, NEW w \in Workers, OnlyMoves(w), WorkFits(w)'
  PROVE  WorkSound'
<1> SUFFICES ASSUME NEW v \in Workers
             PROVE  WorkFits(v)'
  BY DEF WorkSound
<1> QED BY StaysFit DEF OnlyMoves, WorkSound

LEMMA IdleWork ==
  ASSUME WorkSound, GoesOn, worker' = worker
  PROVE  WorkSound'
<1> SUFFICES ASSUME NEW v \in Workers
             PROVE  WorkFits(v)'
  BY DEF WorkSound
<1> QED BY StaysFit DEF WorkSound

(* What a worker that claims the operation sees.                           *)
LEMMA ClaimShape ==
  ASSUME Typed, NEW w \in Workers, Claim(w)
  PROVE  /\ OnlyMoves(w) /\ worker'[w].saw = op.state /\ worker'[w].resume = op.resume
         /\ worker'[w].pc \in {"enqueue", "dispatch", "grace", "retry"}
         /\ worker'[w].pc = "enqueue" => op.state \in {"tombstoned", "erasing"}
         /\ worker'[w].pc = "dispatch" => op.state = "external_actions_pending"
         /\ worker'[w].pc = "retry" => op.state \in {"blocked", "cancelled"}
         /\ op.state = "erasing" => worker'[w].pc = "enqueue"
<1> DEFINE f == IF "erasing" \in {op.state, op.resume} THEN op.failures ELSE 0
           q == CASE op.state \in {"tombstoned", "erasing"} -> "enqueue"
                  [] op.state = "external_actions_pending" -> "dispatch"
                  [] op.state = "grace" -> "grace"
                  [] OTHER -> "retry"
           r == [Idle EXCEPT !.saw = op.state, !.resume = op.resume, !.failures = f, !.pc = q]
<1>1. worker' = [worker EXCEPT ![w] = r] /\ Due
  BY DEF Claim
<1>2. op.state \in {"tombstoned", "external_actions_pending", "grace", "erasing", "blocked", "cancelled"}
  BY <1>1 DEF Due
<1>3. /\ op.state \in {"tombstoned", "erasing"} => q = "enqueue"
      /\ op.state = "external_actions_pending" => q = "dispatch"
      /\ op.state = "grace" => q = "grace"
      /\ op.state \in {"blocked", "cancelled"} => q = "retry"
  OBVIOUS
<1>4. f \in 0..MaxFailures
  BY OpTyped, DeletionAssumption
<1>5. q \in Pcs /\ q \in {"enqueue", "dispatch", "grace", "retry"}
  BY <1>2, <1>3 DEF Pcs
<1>6. op.state \in States /\ op.resume \in Resumable \cup {"none"}
  BY OpTyped
<1> HIDE DEF f, q
<1>7. r \in WorkerSpace /\ r.saw = op.state /\ r.resume = op.resume /\ r.pc = q
  BY <1>4, <1>5, <1>6, IdleTyped DEF WorkerSpace
<1>8. OnlyMoves(w) /\ worker'[w] = r
  BY <1>1, <1>7, MovesTo
<1> QED BY <1>2, <1>3, <1>5, <1>7, <1>8

LEMMA ClaimFits ==
  ASSUME Typed, GoesOn, NEW w \in Workers, Claim(w)
  PROVE  WorkFits(w)'
<1>1. op' = op
  BY DEF Claim
<1>2. /\ worker'[w].saw = op.state /\ worker'[w].resume = op.resume
      /\ worker'[w].pc \in {"enqueue", "dispatch", "grace", "retry"}
      /\ worker'[w].pc = "enqueue" => op.state \in {"tombstoned", "erasing"}
      /\ worker'[w].pc = "dispatch" => op.state = "external_actions_pending"
      /\ worker'[w].pc = "retry" => op.state \in {"blocked", "cancelled"}
  BY ClaimShape
<1>3. Phase(w)' = "erasing" => PastErasing(op)
  <2>1. Phase(w)' = (LET s == IF worker'[w].saw = "blocked" THEN worker'[w].resume ELSE worker'[w].saw IN
                     CASE s = "erasing" -> "erasing" [] s = "cancelled" -> "cancellation"
                       [] OTHER -> "pre_grace")
    BY DEF Phase
  <2> QED BY <1>2, <2>1 DEF PastErasing
<1> QED BY <1>1, <1>2, <1>3 DEF WorkFits, At

(* What a worker goes for next.                                            *)
LEMMA DecideShape ==
  ASSUME Typed, WorkSound, NEW w \in Workers, Decide(w)
  PROVE  \/ Leaves(w)
         \/ Goes(w, "reserve") /\ worker[w].saw = "erasing" /\ cmds["end"].status = "succeeded"
<1> DEFINE status == cmds[KindOf(Phase(w))].status
           saw == worker[w].saw
<1>0. /\ worker[w].pc = "decide" /\ saw \in States
      /\ saw = "blocked" => worker[w].resume \in Goals
      /\ saw = "erasing" => cmds["end"].status # "none"
  BY WorkersTyped DEF Decide, At, WorkSound, WorkFits, Goals
<1>1. CASE Quit(w, status = "failed") \/ Quit(w, TRUE) \/ Quit(w, FALSE)
  <2>1. (status = "failed") \in BOOLEAN
    OBVIOUS
  <2> QED BY <1>1, <2>1, QuitLeaves
<1>2. CASE saw = "blocked" /\ Aim(w, worker[w].resume, FALSE)
  BY <1>0, <1>2, AimLeaves
<1>3. CASE Aim(w, "blocked", FALSE) \/ Aim(w, "grace", FALSE)
  BY <1>3, AimLeaves DEF Goals
<1>4. CASE Clean(status) /\ saw = "erasing" /\ Goto(w, "reserve")
  <2>1. Goes(w, "reserve")
    BY <1>4, GotoGoes DEF Pcs
  <2>2. KindOf(Phase(w)) = "end"
    BY <1>4 DEF KindOf, Phase
  <2> QED BY <1>0, <1>4, <2>1, <2>2 DEF Clean
<1> QED BY <1>1, <1>2, <1>3, <1>4 DEF Decide

(* The other steps of a worker, none of which is about a command.          *)
LEMMA TransitionShape ==
  ASSUME Typed, WorkSound, NEW w \in Workers,
         Hold(w) \/ EndGrace(w) \/ Prepare(w) \/ Advance(w) \/ ReserveErasure(w) \/ Erase(w)
           \/ Abandon(w) \/ Tally(w) \/ Release(w) \/ Crash(w)
  PROVE  \/ Leaves(w)
         \/ \E pc \in {"append", "tally", "abandon"} :
              Goes(w, pc) /\ (pc = "append" => worker[w].goal # "none")
         \/ /\ Goes(w, "erase") /\ worker[w].saw = "erasing"
            /\ cmds["end"].status = "succeeded"
<1>1. CASE Hold(w) \/ Tally(w)
  BY <1>1, QuitLeaves DEF Hold, Tally
<1>2. CASE EndGrace(w)
  BY <1>2, QuitLeaves, AimLeaves DEF EndGrace, Goals
<1>3. CASE Prepare(w)
  <2>1. CASE worker' = [worker EXCEPT ![w].pc = "append", ![w].from = op.state]
    <3> DEFINE r == [worker[w] EXCEPT !.pc = "append", !.from = op.state]
    <3>1. worker[w] \in WorkerSpace /\ op.state \in States /\ "append" \in Pcs
      BY WorkersTyped, OpTyped DEF Pcs
    <3>2. worker' = [worker EXCEPT ![w] = r]
      BY <2>1, <3>1 DEF Typed, WorkerSpace
    <3>3. r \in WorkerSpace /\ r.pc = "append" /\ r.goal = worker[w].goal /\ r.saw = worker[w].saw
          /\ r.resume = worker[w].resume
      BY <3>1 DEF WorkerSpace
    <3>4. Goes(w, "append")
      BY <3>2, <3>3, MovesTo DEF Goes
    <3>5. worker[w].goal # "none"
      BY <1>3 DEF Prepare, At, WorkSound, WorkFits
    <3> QED BY <3>4, <3>5
  <2>2. CASE Done(w)
    BY <2>2, DoneMoves
  <2>3. CASE Quit(w, TRUE)
    BY <2>3, QuitLeaves
  <2> QED BY <1>3, <2>1, <2>2, <2>3 DEF Prepare
<1>4. CASE Advance(w)
  BY <1>4, DoneMoves, QuitLeaves DEF Advance
<1>5. CASE ReserveErasure(w)
  <2>1. worker[w].saw = "erasing" /\ cmds["end"].status = "succeeded"
    BY <1>5 DEF ReserveErasure, At, WorkSound, WorkFits
  <2>2. "blocked" \in Goals /\ "erase" \in Pcs
    BY DEF Goals, Pcs
  <2>3. Goto(w, "erase") \/ Aim(w, "blocked", TRUE)
    BY <1>5 DEF ReserveErasure
  <2> QED BY <2>1, <2>2, <2>3, GotoGoes, AimLeaves
<1>6. CASE Erase(w)
  <2>1. Quit(w, FALSE) \/ Goto(w, "abandon")
    BY <1>6 DEF Erase
  <2> QED BY <2>1, QuitLeaves, GotoGoes DEF Pcs
<1>7. CASE Abandon(w)
  BY <1>7, AimLeaves DEF Abandon, Goals
<1>8. CASE Release(w) \/ Crash(w)
  BY <1>8, IdleLeaves DEF Release, Crash
<1> QED BY <1>1, <1>2, <1>3, <1>4, <1>5, <1>6, <1>7, <1>8

LEMMA CommandFits ==
  ASSUME Typed, RowsSound, CallsSound, WorkSound, GoesOn, NEW w \in Workers,
         Enqueue(w) \/ RetryFailed(w) \/ Dispatch(w) \/ Call(w) \/ Ask(w) \/ Record(w) \/ Decide(w)
  PROVE  OnlyMoves(w) /\ WorkFits(w)'
<1>0. WorkFits(w) /\ Kind(w) \in Kinds
  BY KindShape DEF WorkSound
<1>1. CASE Leaves(w)
  BY <1>1, LeavesFit DEF Leaves
<1>2. CASE Enqueue(w)
  <2>1. CASE Goes(w, "dispatch") /\ worker[w].saw = "erasing" /\ cmds'["end"].status # "none"
    BY <1>0, <2>1, RemembersFit DEF Goes, WorkFits, At
  <2> QED BY <1>1, <1>2, <2>1, EnqueueShape
<1>3. CASE RetryFailed(w)
  <2>1. CASE /\ Goes(w, "dispatch") /\ worker[w].saw \in {"blocked", "cancelled"}
             /\ worker[w].saw = "blocked" =>
                  worker[w].resume \in {"external_actions_pending", "erasing"}
    BY <1>0, <2>1, RemembersFit DEF Goes, WorkFits, At
  <2> QED BY <1>1, <1>3, <2>1, RetryShape
<1>4. CASE Dispatch(w)
  <2>1. /\ OnlyMoves(w) /\ worker'[w].saw = worker[w].saw /\ worker'[w].resume = worker[w].resume
        /\ worker[w].pc = "dispatch" /\ worker'[w].pc \in {"call", "ask", "decide"}
    BY <1>4, DispatchShape
  <2> QED BY <1>0, <2>1, RemembersFit DEF WorkFits, At
<1>5. CASE Call(w)
  <2>1. /\ OnlyMoves(w) /\ worker'[w].saw = worker[w].saw /\ worker'[w].resume = worker[w].resume
        /\ worker[w].pc = "call" /\ worker'[w].pc = "record"
        /\ worker'[w].reply \in {"succeeded", "failed", "unknown"}
        /\ worker'[w].reply = "succeeded" => stripe' = After(Kind(w))
    BY <1>5, CallShape
  <2>2. worker'[w].reply = "succeeded" /\ Kind(w)' = "end" => stripe' = "gone"
    BY <1>0, <2>1, RemembersFit DEF After
  <2> QED BY <1>0, <2>1, <2>2, RemembersFit DEF WorkFits, At
<1>6. CASE Ask(w)
  <2>1. /\ OnlyMoves(w) /\ worker'[w].saw = worker[w].saw /\ worker'[w].resume = worker[w].resume
        /\ worker[w].pc = "ask" /\ worker'[w].pc = "record"
        /\ worker'[w].reply \in {"succeeded", "failed", "unknown"}
        /\ worker'[w].reply = "succeeded" => Landed(Kind(w))
    BY <1>6, AskShape
  <2>2. stripe' = stripe
    BY <1>6 DEF Ask
  <2>3. worker'[w].reply = "succeeded" /\ Kind(w)' = "end" => stripe' = "gone"
    BY <1>0, <2>1, <2>2, RemembersFit DEF Landed
  <2> QED BY <1>0, <2>1, <2>3, RemembersFit DEF WorkFits, At
<1>7. CASE Record(w)
  <2>1. CASE Goes(w, "decide")
    <3>1. worker[w].pc = "record"
      BY <1>7, RecordShape
    <3> QED BY <1>0, <2>1, <3>1, RemembersFit DEF Goes, WorkFits, At
  <2> QED BY <1>1, <1>7, <2>1, RecordShape
<1>8. CASE Decide(w)
  <2>1. CASE Goes(w, "reserve") /\ worker[w].saw = "erasing" /\ cmds["end"].status = "succeeded"
    BY <1>0, <2>1, RemembersFit DEF Goes, WorkFits, At
  <2> QED BY <1>1, <1>8, <2>1, DecideShape
<1> QED BY <1>2, <1>3, <1>4, <1>5, <1>6, <1>7, <1>8

LEMMA TransitionFits ==
  ASSUME Typed, WorkSound, GoesOn, NEW w \in Workers,
         Hold(w) \/ EndGrace(w) \/ Prepare(w) \/ Advance(w) \/ ReserveErasure(w) \/ Erase(w)
           \/ Abandon(w) \/ Tally(w) \/ Release(w) \/ Crash(w)
  PROVE  OnlyMoves(w) /\ WorkFits(w)' /\ worker'[w].pc \notin {"call", "ask", "record"}
<1>0. WorkFits(w)
  BY DEF WorkSound
<1>1. CASE Leaves(w)
  BY <1>1, LeavesFit DEF Leaves
<1>2. ASSUME NEW pc \in {"append", "tally", "abandon"}, Goes(w, pc), pc = "append" => worker[w].goal # "none"
      PROVE  OnlyMoves(w) /\ WorkFits(w)' /\ worker'[w].pc \notin {"call", "ask", "record"}
  BY <1>0, <1>2, RemembersFit DEF Goes, WorkFits, At
<1>3. CASE Goes(w, "erase") /\ worker[w].saw = "erasing" /\ cmds["end"].status = "succeeded"
  BY <1>0, <1>3, RemembersFit DEF Goes, WorkFits, At
<1> QED BY <1>1, <1>2, <1>3, TransitionShape

(* The steps by which a worker neither writes nor carries out a command.   *)
Quiet(w) ==
  Claim(w) \/ Hold(w) \/ EndGrace(w) \/ Decide(w) \/ Prepare(w) \/ Advance(w) \/ ReserveErasure(w)
    \/ Erase(w) \/ Abandon(w) \/ Tally(w) \/ Release(w) \/ Crash(w)

LEMMA QuietShape ==
  ASSUME Typed, RowsSound, CallsSound, WorkSound, GoesOn, NEW w \in Workers, Quiet(w)
  PROVE  /\ OnlyMoves(w) /\ WorkFits(w)' /\ worker'[w].pc \notin {"call", "ask", "record"}
         /\ cmds' = cmds /\ stripe' = stripe /\ adrift' = adrift /\ misread' = misread /\ own' = own
<1>1. CASE Claim(w)
  BY <1>1, ClaimShape, ClaimFits DEF Claim
<1>2. CASE Decide(w)
  <2>1. worker'[w].pc \notin {"call", "ask", "record"}
    BY <1>2, DecideShape DEF Leaves, Goes
  <2> QED BY <1>2, <2>1, CommandFits DEF Decide
<1>3. CASE Hold(w) \/ EndGrace(w) \/ Prepare(w) \/ Advance(w) \/ ReserveErasure(w) \/ Erase(w)
             \/ Abandon(w) \/ Tally(w) \/ Release(w) \/ Crash(w)
  <2>1. cmds' = cmds /\ stripe' = stripe /\ adrift' = adrift /\ misread' = misread /\ own' = own
    BY <1>3 DEF Hold, EndGrace, Prepare, Advance, ReserveErasure, Erase, Abandon, Tally, Release, Crash
  <2> QED BY <1>3, <2>1, TransitionFits
<1> QED BY <1>1, <1>2, <1>3 DEF Quiet

LEMMA WorkKept ==
  ASSUME Typed, RowsSound, CallsSound, WorkSound, GoesOn, [XNext]_xVars
  PROVE  worker' \in [Workers -> WorkerSpace] /\ WorkSound'
<1>1. CASE worker' = worker
  BY <1>1, IdleWork DEF Typed
<1>2. ASSUME NEW w \in Workers, Work(w)
      PROVE  worker' \in [Workers -> WorkerSpace] /\ WorkSound'
  <2>1. OnlyMoves(w) /\ WorkFits(w)'
    BY <1>2, QuietShape, CommandFits DEF Work, Quiet
  <2> QED BY <2>1, WorkStep DEF OnlyMoves
<1> QED BY <1>1, <1>2 DEF XNext, xVars, Request, ReserveRequest, FinalizeRequest, ReserveCancel,
     ApplyCancel, Land, WindowCloses, LeaseExpires

LEMMA WorkerFrame ==
  ASSUME NEW w \in Workers, Work(w)
  PROVE  window' = window /\ own' = own /\ home' \in {home, "erased"}
<1>1. CASE Claim(w) \/ Enqueue(w) \/ Hold(w) \/ EndGrace(w) \/ RetryFailed(w) \/ Crash(w)
  BY <1>1 DEF Claim, Enqueue, Hold, EndGrace, RetryFailed, Crash
<1>2. CASE Dispatch(w) \/ Call(w) \/ Ask(w) \/ Record(w) \/ Decide(w)
  BY <1>2 DEF Dispatch, Call, Ask, Record, Decide
<1>3. CASE Prepare(w) \/ Advance(w) \/ Tally(w) \/ Release(w)
  BY <1>3 DEF Prepare, Advance, Tally, Release
<1>4. CASE ReserveErasure(w) \/ Erase(w) \/ Abandon(w)
  BY <1>4 DEF ReserveErasure, Erase, Abandon
<1> QED BY <1>1, <1>2, <1>3, <1>4 DEF Work

LEMMA TypedKept ==
  ASSUME Typed, WorkSound, StoryStep, RowsGoOn, StripeGoesOn, worker' \in [Workers -> WorkerSpace],
         [XNext]_xVars
  PROVE  Typed'
<1>0. home \in {"active", "tombstoned", "erased"} /\ window \in BOOLEAN /\ own \in BOOLEAN
      /\ misread \in BOOLEAN
  BY DEF Typed
<1>1. /\ home' \in {"active", "tombstoned", "erased"} /\ window' \in BOOLEAN /\ own' = own
  <2>1. CASE \E w \in Workers : Work(w)
    BY <1>0, <2>1, WorkerFrame
  <2>2. CASE Request \/ ReserveRequest \/ FinalizeRequest \/ ReserveCancel \/ ApplyCancel
    BY <1>0, <2>2 DEF Request, ReserveRequest, FinalizeRequest, ReserveCancel, ApplyCancel
  <2>3. CASE WindowCloses \/ LeaseExpires \/ (\E k \in Kinds : Land(k)) \/ UNCHANGED xVars
    BY <1>0, <2>3 DEF WindowCloses, LeaseExpires, Land, xVars
  <2> QED BY <2>1, <2>2, <2>3 DEF XNext
<1>2. misread' \in BOOLEAN
  <2>1. ASSUME NEW w \in Workers, Record(w)
        PROVE  misread' \in BOOLEAN
    <3>1. \A x \in BOOLEAN : (misread \/ x) \in BOOLEAN
      BY <1>0
    <3>2. (/\ worker[w].reply = "failed"
           /\ Kind(w) \in adrift \/ Landed(Kind(w))) \in BOOLEAN
      OBVIOUS
    <3> QED BY <1>0, <2>1, <3>1, <3>2, RecordShape
  <2>2. ASSUME NEW w \in Workers, Work(w), ~Record(w)
        PROVE  misread' = misread
    BY <2>2 DEF Work, Claim, Enqueue, Hold, EndGrace, RetryFailed, Dispatch, Call, Ask, Decide, Prepare,
         Advance, ReserveErasure, Erase, Abandon, Tally, Release, Crash
  <2>3. CASE Request \/ ReserveRequest \/ FinalizeRequest \/ ReserveCancel \/ ApplyCancel
    BY <1>0, <2>3 DEF Request, ReserveRequest, FinalizeRequest, ReserveCancel, ApplyCancel
  <2>4. CASE WindowCloses \/ LeaseExpires \/ (\E k \in Kinds : Land(k)) \/ UNCHANGED xVars
    BY <1>0, <2>4 DEF WindowCloses, LeaseExpires, Land, xVars
  <2> QED BY <1>0, <2>1, <2>2, <2>3, <2>4 DEF XNext
<1>3. op' \in RowSpace /\ journal' \in Seq([from : States, to : States, at : BOOLEAN])
  BY DEF StoryStep, Entry
<1>4. cmds' \in [Kinds -> CmdSpace] /\ stripe' \in {"open", "closing", "gone"} /\ adrift' \subseteq Kinds
  BY DEF RowsGoOn, StripeGoesOn
<1> QED BY <1>0, <1>1, <1>2, <1>3, <1>4 DEF Typed

-----------------------------------------------------------------------------
(* The outbox, step by step                                                *)

LEMMA CallStays ==
  ASSUME NEW v \in Workers, worker'[v] = worker[v], CallFits(v),
         OnCommand(v) => cmds'[Kind(v)] = cmds[Kind(v)]
  PROVE  CallFits(v)'
<1>1. Kind(v)' = Kind(v)
  BY SameKind
<1> QED BY <1>1 DEF CallFits, OnCommand, At

LEMMA CallEnds ==
  ASSUME NEW w \in Workers, worker'[w].pc \notin {"call", "ask", "record"}
  PROVE  CallFits(w)'
BY DEF CallFits, OnCommand, At

LEMMA OneCallerStays ==
  ASSUME OneCaller, NEW w \in Workers, OnlyMoves(w), worker'[w].pc # "call"
  PROVE  OneCaller'
<1> SUFFICES ASSUME NEW v \in Workers, NEW u \in Workers, worker'[v].pc = "call", worker'[u].pc = "call",
                    Kind(v)' = Kind(u)'
             PROVE  v = u
  BY DEF OneCaller, At
<1>1. worker'[v] = worker[v] /\ worker'[u] = worker[u]
  BY DEF OnlyMoves
<1>2. Kind(v)' = Kind(v) /\ Kind(u)' = Kind(u)
  BY <1>1, SameKind
<1> QED BY <1>1, <1>2 DEF OneCaller, At

(* What the outbox, the workers at it and Stripe keep, step by step.       *)
Outbox == RowsSound /\ CallsSound /\ EndSound /\ FenceIsTheirs /\ ReversalFollows /\ FenceKnown

(* Who never entered a cancellation is not cancelled.                      *)
StaysOpen == op'.state = "cancelled" => op.state = "cancelled"

LEMMA OpenStays ==
  ASSUME Typed, StoryHolds, [XNext]_xVars, ~ApplyCancel
  PROVE  StaysOpen
<1>0. op \in RowSpace
  BY OpTyped
<1>1. CASE op' = op
  BY <1>1 DEF StaysOpen
<1>2. CASE Request
  BY <1>0, <1>2 DEF Request, RowSpace, StaysOpen
<1>3. ASSUME NEW p, Reserve(p)
      PROVE  StaysOpen
  BY <1>0, <1>3 DEF Reserve, RowSpace, StaysOpen
<1>4. ASSUME NEW p, Committed(p), p[Len(p)][2] # "cancelled"
      PROVE  StaysOpen
  BY <1>0, <1>4 DEF Committed, RowSpace, StaysOpen
<1>5. CASE FinalizeRequest
  <2>1. RequestPlan[Len(RequestPlan)][2] # "cancelled"
    BY LongShape
  <2> QED BY <1>1, <1>4, <1>5, <2>1 DEF FinalizeRequest, RolledBack
<1>6. ASSUME NEW w \in Workers, Work(w)
      PROVE  StaysOpen
  <2>1. CASE Advance(w)
    <3> DEFINE p == Step(worker[w].from, worker[w].goal)
    <3>1. worker[w].from \in States /\ worker[w].goal \in States /\ worker[w].goal # "cancelled"
      BY WorkersTyped DEF Goals, States
    <3>2. p[Len(p)][2] # "cancelled"
      <4>1. Len(p) = 1 /\ p[1][2] = worker[w].goal
        BY ZenonT(30), <3>1, StepShape
      <4> QED BY <3>1, <4>1
    <3>3. op' = op \/ Committed(p)
      BY <2>1 DEF Advance, RolledBack
    <3> HIDE DEF p
    <3> QED BY <1>1, <1>4, <3>2, <3>3
  <2>2. CASE Erase(w)
    <3>1. ErasurePlan[Len(ErasurePlan)][2] # "cancelled"
      BY LongShape
    <3> QED BY <1>1, <1>4, <2>2, <3>1 DEF Erase, RolledBack
  <2>3. CASE Prepare(w) \/ ReserveErasure(w)
    BY <1>1, <1>3, <2>3 DEF Prepare, ReserveErasure
  <2>4. CASE Abandon(w) \/ Tally(w) \/ Release(w)
    BY <1>0, <2>4 DEF Abandon, Tally, Release, RowSpace, StaysOpen
  <2>5. CASE op' = op
    BY <1>1, <2>5
  <2> QED BY <1>6, <2>1, <2>2, <2>3, <2>4, <2>5 DEF Work, Claim, Enqueue, Hold, EndGrace, RetryFailed,
       Dispatch, Call, Ask, Record, Decide, Crash
<1>7. CASE ReserveRequest \/ ReserveCancel
  BY <1>3, <1>7 DEF ReserveRequest, ReserveCancel
<1> QED BY <1>1, <1>2, <1>5, <1>6, <1>7 DEF XNext, xVars, Land, WindowCloses, LeaseExpires

(* Only the erasure erases, and it has seen the subscription ended.        *)
LEMMA ErasureIsLast ==
  ASSUME Typed, WorkSound, EndSound, [XNext]_xVars, home' = "erased"
  PROVE  home = "erased" \/ (stripe = "gone" /\ PastErasing(op))
<1>1. CASE home' = home
  BY <1>1
<1>2. ASSUME NEW w \in Workers, Erase(w), home' # home
      PROVE  stripe = "gone" /\ PastErasing(op)
  <2>1. worker[w].pc = "erase" /\ op.state = "erasing"
    BY <1>2 DEF Erase, At
  <2>2. cmds["end"].status = "succeeded"
    BY <2>1 DEF WorkSound, WorkFits
  <2> QED BY <2>1, <2>2 DEF EndSound, PastErasing
<1>3. CASE FinalizeRequest \/ ApplyCancel
  BY <1>3 DEF FinalizeRequest, ApplyCancel
<1>4. ASSUME NEW w \in Workers, Work(w), ~Erase(w)
      PROVE  home' = home
  BY <1>4 DEF Work, Claim, Enqueue, Hold, EndGrace, RetryFailed, Dispatch, Call, Ask, Record, Decide,
     Prepare, Advance, ReserveErasure, Abandon, Tally, Release, Crash
<1> QED BY <1>1, <1>2, <1>3, <1>4 DEF XNext, xVars, Request, ReserveRequest, ReserveCancel, Land,
     WindowCloses, LeaseExpires

(* No command is written or carried out.                                   *)
LEMMA CalmKeeps ==
  ASSUME Typed, Outbox, GoesOn, StaysOpen,
         home' = "erased" => home = "erased" \/ (stripe = "gone" /\ PastErasing(op)),
         cmds' = cmds, stripe' = stripe, adrift' = adrift, misread' = misread, own' = own,
         \A v \in Workers : worker'[v] = worker[v] \/ worker'[v].pc \notin {"call", "ask", "record"}
  PROVE  Outbox'
<1>1. RowsSound'
  BY DEF Outbox, RowsSound, RowFits
<1>2. CallsSound'
  <2>1. \A v \in Workers : CallFits(v)'
    BY CallStays, CallEnds DEF Outbox, CallsSound
  <2>2. OneCaller'
    <3> SUFFICES ASSUME NEW v \in Workers, NEW u \in Workers, worker'[v].pc = "call", worker'[u].pc = "call",
                        Kind(v)' = Kind(u)'
                 PROVE  v = u
      BY DEF OneCaller, At
    <3>1. worker'[v] = worker[v] /\ worker'[u] = worker[u]
      OBVIOUS
    <3>2. Kind(v)' = Kind(v) /\ Kind(u)' = Kind(u)
      BY <3>1, SameKind
    <3> QED BY <3>1, <3>2 DEF Outbox, CallsSound, OneCaller, At
  <2> QED BY <2>1, <2>2 DEF CallsSound
<1>3. EndSound'
  BY DEF Outbox, EndSound, GoesOn, OpGoesOn
<1>4. FenceIsTheirs'
  BY DEF Outbox, FenceIsTheirs
<1>5. ReversalFollows'
  BY DEF Outbox, ReversalFollows, GoesOn, OpGoesOn, StaysOpen
<1>6. FenceKnown'
  <2> SUFFICES ASSUME ~own, ~misread, stripe # "gone"
               PROVE  FenceFacts' /\ \A w \in Workers : AnswerIsTrue(w)'
    BY DEF FenceKnown
  <2>1. FenceFacts /\ \A w \in Workers : AnswerIsTrue(w)
    BY DEF Outbox, FenceKnown
  <2>2. FenceFacts'
    BY <2>1 DEF FenceFacts
  <2>3. ASSUME NEW w \in Workers, worker'[w].pc = "record"
        PROVE  AnswerIsTrue(w)'
    <3>1. worker'[w] = worker[w] /\ Kind(w)' = Kind(w)
      BY <2>3, SameKind
    <3> QED BY <2>1, <3>1 DEF AnswerIsTrue, At
  <2> QED BY <2>2, <2>3 DEF AnswerIsTrue, At
<1> QED BY <1>1, <1>2, <1>3, <1>4, <1>5, <1>6 DEF Outbox

(* A command is written, or written anew after a failure.                  *)
LEMMA EnqueueKeeps ==
  ASSUME Typed, WorkSound, Outbox, GoesOn, StaysOpen, NEW w \in Workers, Enqueue(w)
  PROVE  Outbox'
<1>1. /\ \A k \in Kinds : cmds'[k] = cmds[k] \/ (cmds[k].status = "none" /\ cmds'[k] = Fresh)
      /\ cmds'["reopen"] = cmds["reopen"]
      /\ cmds'["close"] # cmds["close"] => ~own /\ op.state = "tombstoned"
      /\ cmds'["end"] # cmds["end"] => op.state = "erasing"
      /\ OnlyMoves(w) /\ worker'[w].pc \notin {"call", "ask", "record"}
  BY EnqueueShape DEF Leaves, Goes
<1>2. Fresh.status = "pending" /\ ~Fresh.sent /\ Fresh.attempt = 1 /\ Fresh.calls = 0
  <2>1. 1 \in 1..MaxAttempts
    BY DeletionAssumption
  <2> QED BY <2>1, FreshTyped
<1>3. stripe' = stripe /\ adrift' = adrift /\ misread' = misread /\ own' = own /\ home' = home /\ op' = op
  BY DEF Enqueue
<1>4. "close" \in Kinds /\ "reopen" \in Kinds /\ "end" \in Kinds
  BY DEF Kinds
<1>5. RowsSound'
  BY <1>1, <1>2 DEF Outbox, RowsSound, RowFits
<1>6. CallsSound'
  <2>1. ASSUME NEW v \in Workers, v # w
        PROVE  CallFits(v)'
    <3>1. worker'[v] = worker[v] /\ Kind(v) \in Kinds /\ CallFits(v)
      BY <1>1, <2>1, KindShape DEF OnlyMoves, Outbox, CallsSound
    <3>2. OnCommand(v) => cmds[Kind(v)].status # "none"
      <4>1. OnCommand(v) => cmds[Kind(v)].attempt # 0
        BY <3>1, CmdsTyped DEF CallFits
      <4> QED BY <3>1, <4>1 DEF Outbox, RowsSound, RowFits
    <3> QED BY <1>1, <3>1, <3>2, CallStays
  <2>2. CallFits(w)'
    BY <1>1, CallEnds
  <2>3. OneCaller'
    BY <1>1, OneCallerStays DEF Outbox, CallsSound
  <2> QED BY <2>1, <2>2, <2>3 DEF CallsSound
<1>7. EndSound'
  <2>1. \A k \in Kinds : cmds[k].status # "none" => cmds'[k].status # "none"
    BY DEF GoesOn, RowsGoOn
  <2>2. \A k \in adrift : k \in Kinds /\ cmds[k].status # "none"
    BY DEF Outbox, EndSound, Typed
  <2>3. cmds'["end"] = cmds["end"] \/ (op.state = "erasing" /\ cmds'["end"].status = "pending")
    BY <1>1, <1>2, <1>4
  <2>4. PastErasing(op) \/ op.state = "erasing" => PastErasing(op')
    BY <1>3 DEF PastErasing
  <2>5. \A k \in adrift' : cmds'[k].status # "none"
    BY <1>3, <2>1, <2>2
  <2> QED BY <1>3, <2>3, <2>4, <2>5 DEF Outbox, EndSound
<1>8. FenceIsTheirs'
  BY <1>1, <1>3 DEF Outbox, FenceIsTheirs
<1>9. ReversalFollows'
  BY <1>1, <1>2, <1>3, <1>4 DEF Outbox, ReversalFollows
<1>10. FenceKnown'
  <2>1. cmds'["close"] = cmds["close"]
        \/ /\ cmds["close"].status = "none" /\ cmds["close"].calls = 0 /\ cmds["close"].attempt = 0
           /\ cmds'["close"].status = "pending"
    BY <1>1, <1>2, <1>4 DEF Outbox, RowsSound, RowFits
  <2>2. cmds'["reopen"] = cmds["reopen"]
    BY <1>1
  <2> SUFFICES ASSUME ~own, ~misread, stripe # "gone"
               PROVE  FenceFacts' /\ \A v \in Workers : AnswerIsTrue(v)'
    BY <1>3 DEF FenceKnown
  <2>3. FenceFacts /\ \A v \in Workers : AnswerIsTrue(v)
    BY DEF Outbox, FenceKnown
  <2>4. FenceFacts'
    BY <1>3, <2>1, <2>2, <2>3 DEF FenceFacts
  <2>5. ASSUME NEW v \in Workers, worker'[v].pc = "record"
        PROVE  AnswerIsTrue(v)'
    <3>1. v # w
      BY <1>1, <2>5
    <3>2. worker'[v] = worker[v] /\ Kind(v)' = Kind(v)
      BY <1>1, <3>1, SameKind DEF OnlyMoves
    <3>3. Kind(v) = "close" => cmds["close"].attempt # 0
      BY <1>4, <2>5, <3>2, CmdsTyped DEF Outbox, CallsSound, CallFits, OnCommand
    <3>4. Kind(v) = "close" => cmds'["close"].attempt = cmds["close"].attempt
      BY <2>1, <3>3
    <3> QED BY <1>3, <2>3, <2>5, <3>2, <3>4 DEF AnswerIsTrue, At
  <2> QED BY <2>4, <2>5 DEF AnswerIsTrue, At
<1> QED BY <1>5, <1>6, <1>7, <1>8, <1>9, <1>10 DEF Outbox

LEMMA EndStays ==
  ASSUME Typed, EndSound, GoesOn, op' = op, home' = home, stripe' = stripe, adrift' = adrift,
         cmds'["end"].status # "none" => cmds["end"].status # "none",
         cmds'["end"].status = "succeeded" => cmds["end"].status = "succeeded" \/ stripe = "gone"
  PROVE  EndSound'
<1>1. \A k \in adrift' : cmds'[k].status # "none"
  BY DEF GoesOn, RowsGoOn, EndSound, Typed
<1> QED BY <1>1 DEF EndSound

(* An answer stays true as long as the attempt it is for and Stripe stay.  *)
LEMMA AnswerStays ==
  ASSUME NEW v \in Workers, worker'[v] = worker[v], AnswerIsTrue(v), stripe' = stripe,
         adrift' = adrift, Kind(v) = "close" => cmds'["close"].attempt = cmds["close"].attempt
  PROVE  AnswerIsTrue(v)'
<1>1. Kind(v)' = Kind(v)
  BY SameKind
<1> QED BY <1>1 DEF AnswerIsTrue, At

LEMMA RetryKeeps ==
  ASSUME Typed, WorkSound, Outbox, GoesOn, StaysOpen, NEW w \in Workers, RetryFailed(w)
  PROVE  Outbox'
<1> DEFINE k == Kind(w)
<1>0. k \in Kinds /\ "close" \in Kinds /\ "reopen" \in Kinds /\ "end" \in Kinds
  BY KindShape DEF Kinds
<1>1. stripe' = stripe /\ adrift' = adrift /\ misread' = misread /\ own' = own /\ home' = home /\ op' = op
  BY DEF RetryFailed
<1>2. OnlyMoves(w) /\ worker'[w].pc \notin {"call", "ask", "record"}
  BY RetryShape DEF Leaves, Goes
<1>3. CASE cmds' = cmds
  <2>1. \A v \in Workers : worker'[v] = worker[v] \/ worker'[v].pc \notin {"call", "ask", "record"}
    BY <1>2 DEF OnlyMoves
  <2> QED BY <1>1, <1>3, <2>1, CalmKeeps
<1>4. CASE /\ OnlyRow(k) /\ cmds[k].status = "failed"
           /\ cmds'[k].status = "pending" /\ ~cmds'[k].sent
           /\ cmds'[k].calls = 0 /\ cmds'[k].attempt = cmds[k].attempt + 1
  <2>0. \A j \in Kinds : j # k => cmds'[j] = cmds[j]
    BY <1>4 DEF OnlyRow
  <2> HIDE DEF k
  <2>n. cmds[k].attempt \in Nat
    BY <1>0, CmdsTyped
  <2>1. RowsSound'
    <3>1. ASSUME NEW j \in Kinds
          PROVE  RowFits(j)'
      <4>1. cmds[k].attempt + 1 # 0
        BY <2>n
      <4> QED BY <1>4, <2>0, <4>1 DEF Outbox, RowsSound, RowFits
    <3> QED BY <3>1 DEF RowsSound
  <2>2. CallsSound'
    <3>1. ASSUME NEW v \in Workers, v # w
          PROVE  CallFits(v)'
      <4>1. worker'[v] = worker[v] /\ Kind(v) \in Kinds /\ CallFits(v) /\ Kind(v)' = Kind(v)
        BY <1>2, <3>1, KindShape, SameKind DEF OnlyMoves, Outbox, CallsSound
      <4>2. CASE Kind(v) # k
        BY <2>0, <4>1, <4>2, CallStays
      <4>3. CASE Kind(v) = k
        <5>1. worker[v].pc # "call"
          BY <1>4, <4>1, <4>3 DEF CallFits, At
        <5>2. OnCommand(v) => worker[v].attempt \in 1..(cmds[k].attempt + 1)
                              /\ worker[v].attempt # cmds[k].attempt + 1
          BY <2>n, <4>1, <4>3 DEF CallFits
        <5> QED BY <1>4, <4>1, <4>3, <5>1, <5>2 DEF CallFits, OnCommand, At
      <4> QED BY <4>2, <4>3
    <3>2. CallFits(w)' /\ OneCaller'
      BY <1>2, CallEnds, OneCallerStays DEF Outbox, CallsSound
    <3> QED BY <3>1, <3>2 DEF CallsSound
  <2>3. EndSound'
    <3>1. cmds'["end"] = cmds["end"] \/ (cmds'["end"].status = "pending" /\ cmds["end"].status = "failed")
      BY <1>0, <1>4, <2>0
    <3> QED BY <1>1, <3>1, EndStays DEF Outbox
  <2>4. FenceIsTheirs'
    BY <1>0, <1>1, <1>4, <2>0 DEF Outbox, FenceIsTheirs
  <2>5. ReversalFollows'
    BY <1>0, <1>1, <1>4, <2>0 DEF Outbox, ReversalFollows
  <2>6. FenceKnown'
    <3> SUFFICES ASSUME ~own, ~misread, stripe # "gone"
                 PROVE  FenceFacts' /\ \A v \in Workers : AnswerIsTrue(v)'
      BY <1>1 DEF FenceKnown
    <3>1. FenceFacts /\ \A v \in Workers : AnswerIsTrue(v)
      BY DEF Outbox, FenceKnown
    <3>2. FenceFacts'
      BY <1>0, <1>1, <1>4, <2>0, <3>1 DEF FenceFacts
    <3>3. ASSUME NEW v \in Workers, worker'[v].pc = "record"
          PROVE  AnswerIsTrue(v)'
      <4>1. worker'[v] = worker[v] /\ Kind(v)' = Kind(v)
        BY <1>2, <3>3, SameKind DEF OnlyMoves
      <4>2. CASE k = "close"
        <5>1. "close" \notin adrift
          BY <1>4, <3>1, <4>2 DEF FenceFacts
        <5> QED BY <1>1, <3>1, <4>1, <5>1 DEF AnswerIsTrue, At
      <4>3. CASE k # "close"
        BY <1>0, <1>1, <2>0, <3>1, <4>1, <4>3, AnswerStays
      <4> QED BY <4>2, <4>3
    <3> QED BY <3>2, <3>3 DEF AnswerIsTrue, At
  <2> QED BY <2>1, <2>2, <2>3, <2>4, <2>5, <2>6 DEF Outbox
<1> QED BY <1>1, <1>2, <1>3, <1>4, RetryShape

(* A command is marked: who marks it is the one who calls for it.          *)
LEMMA DispatchKeeps ==
  ASSUME Typed, WorkSound, Outbox, GoesOn, StaysOpen, NEW w \in Workers, Dispatch(w)
  PROVE  Outbox'
<1> DEFINE k == Kind(w)
<1>0. k \in Kinds /\ "close" \in Kinds /\ "reopen" \in Kinds /\ "end" \in Kinds
  BY KindShape DEF Kinds
<1>1. stripe' = stripe /\ adrift' = adrift /\ misread' = misread /\ own' = own /\ home' = home /\ op' = op
  BY DEF Dispatch
<1>2. /\ OnlyMoves(w) /\ worker'[w].saw = worker[w].saw /\ worker'[w].resume = worker[w].resume
      /\ \A j \in Kinds : j # k => cmds'[j] = cmds[j]
      /\ worker'[w].pc \in {"call", "ask", "decide"}
      /\ RowsSound
  BY DispatchShape DEF OnlyRow, Outbox
<1>k. Kind(w)' = k
  BY <1>2, SameKind
<1>3. \/ /\ worker'[w].pc = "call" /\ worker'[w].attempt = cmds[k].attempt
         /\ cmds[k].status = "pending" /\ ~cmds[k].sent
         /\ k = "reopen" \/ op.state \notin {"cancelled", "complete"}
         /\ cmds'[k] = [cmds[k] EXCEPT !.sent = TRUE]
      \/ /\ worker'[w].pc = "ask" /\ worker'[w].attempt = cmds[k].attempt
         /\ cmds[k].status = "unknown" /\ cmds' = cmds
      \/ worker'[w].pc = "decide" /\ cmds' = cmds
  BY <1>2, DispatchShape
<1> HIDE DEF k
<1>4. CASE worker'[w].pc = "decide" /\ cmds' = cmds
  <2>1. \A v \in Workers : worker'[v] = worker[v] \/ worker'[v].pc \notin {"call", "ask", "record"}
    BY <1>2, <1>4 DEF OnlyMoves
  <2> QED BY <1>1, <1>4, <2>1, CalmKeeps
<1>n. cmds[k].attempt \in Nat /\ (cmds[k].status # "none" => cmds[k].attempt \in 1..cmds[k].attempt)
  BY <1>0, <1>2, CmdsTyped DEF RowsSound, RowFits
<1>5. \A v \in Workers : v # w => worker'[v] = worker[v] /\ Kind(v) \in Kinds /\ CallFits(v)
                                  /\ Kind(v)' = Kind(v)
  BY <1>2, KindShape, SameKind DEF OnlyMoves, Outbox, CallsSound
<1>f. ASSUME cmds'[k].attempt = cmds[k].attempt, cmds'[k].status = cmds[k].status, cmds'[k].calls = cmds[k].calls
      PROVE  EndSound' /\ FenceIsTheirs' /\ FenceKnown'
  <2>0. \A j \in Kinds : cmds'[j].attempt = cmds[j].attempt /\ cmds'[j].status = cmds[j].status
                         /\ cmds'[j].calls = cmds[j].calls
    BY <1>2, <1>f
  <2>1. EndSound'
    BY <1>0, <1>1, <2>0, EndStays DEF Outbox
  <2>2. FenceIsTheirs'
    BY <1>0, <1>1, <2>0 DEF Outbox, FenceIsTheirs
  <2>3. FenceKnown'
    <3> SUFFICES ASSUME ~own, ~misread, stripe # "gone"
                 PROVE  FenceFacts' /\ \A v \in Workers : AnswerIsTrue(v)'
      BY <1>1 DEF FenceKnown
    <3>1. FenceFacts /\ \A v \in Workers : AnswerIsTrue(v)
      BY DEF Outbox, FenceKnown
    <3>2. FenceFacts'
      BY <1>0, <1>1, <2>0, <3>1 DEF FenceFacts
    <3>3. ASSUME NEW v \in Workers, worker'[v].pc = "record"
          PROVE  AnswerIsTrue(v)'
      <4>1. worker'[v] = worker[v]
        BY <1>2, <1>5, <3>3
      <4> QED BY <1>0, <1>1, <2>0, <3>1, <4>1, AnswerStays
    <3> QED BY <3>2, <3>3 DEF AnswerIsTrue, At
  <2> QED BY <2>1, <2>2, <2>3
<1>6. CASE /\ worker'[w].pc = "ask" /\ worker'[w].attempt = cmds[k].attempt
           /\ cmds[k].status = "unknown" /\ cmds' = cmds
  <2>1. RowsSound'
    BY <1>6 DEF Outbox, RowsSound, RowFits
  <2>2. CallFits(w)'
    <3>1. cmds[k].calls = 1
      BY <1>0, <1>2, <1>6 DEF RowsSound, RowFits
    <3> QED BY <1>6, <1>k, <1>n, <3>1 DEF CallFits, OnCommand, At
  <2>3. \A v \in Workers : v # w => CallFits(v)'
    BY <1>5, <1>6, CallStays
  <2>4. CallsSound'
    BY <1>2, <1>6, <2>2, <2>3, OneCallerStays DEF Outbox, CallsSound
  <2>5. ReversalFollows'
    BY <1>1, <1>6 DEF Outbox, ReversalFollows
  <2> QED BY <1>6, <1>f, <2>1, <2>4, <2>5 DEF Outbox
<1>7. CASE /\ worker'[w].pc = "call" /\ worker'[w].attempt = cmds[k].attempt
           /\ cmds[k].status = "pending" /\ ~cmds[k].sent
           /\ k = "reopen" \/ op.state \notin {"cancelled", "complete"}
           /\ cmds'[k] = [cmds[k] EXCEPT !.sent = TRUE]
  <2>1. /\ cmds'[k].status = "pending" /\ cmds'[k].sent
        /\ cmds'[k].attempt = cmds[k].attempt /\ cmds'[k].calls = cmds[k].calls
    BY <1>0, <1>7, CmdSent
  <2>2. cmds[k].calls = 0 /\ RowFits(k)
    BY <1>0, <1>2, <1>7 DEF RowsSound, RowFits
  <2>3. RowsSound'
    <3>1. ASSUME NEW j \in Kinds
          PROVE  RowFits(j)'
      <4>1. RowFits(j)
        BY <1>2 DEF RowsSound
      <4>2. CASE j = k
        BY <1>7, <2>1, <2>2, <4>1, <4>2 DEF RowFits
      <4>3. CASE j # k
        BY <1>2, <4>1, <4>3 DEF RowFits
      <4> QED BY <4>2, <4>3
    <3> QED BY <3>1 DEF RowsSound
  <2>4. CallFits(w)'
    BY <1>7, <1>k, <1>n, <2>1, <2>2 DEF CallFits, OnCommand, At
  <2>5. ASSUME NEW v \in Workers, v # w
        PROVE  CallFits(v)' /\ ~(worker'[v].pc = "call" /\ Kind(v)' = k)
    <3>1. CASE Kind(v) # k
      BY <1>2, <1>5, <2>5, <3>1, CallStays
    <3>2. CASE Kind(v) = k
      <4>1. worker[v].pc # "call"
        BY <1>5, <1>7, <2>5, <3>2 DEF CallFits, At
      <4> QED BY <1>5, <2>1, <2>5, <3>2, <4>1 DEF CallFits, OnCommand, At
    <3> QED BY <3>1, <3>2
  <2>6. OneCaller'
    <3> SUFFICES ASSUME NEW v \in Workers, NEW u \in Workers, worker'[v].pc = "call", worker'[u].pc = "call",
                        Kind(v)' = Kind(u)'
                 PROVE  v = u
      BY DEF OneCaller, At
    <3>1. CASE v = w \/ u = w
      BY <1>k, <2>5, <3>1
    <3>2. CASE v # w /\ u # w
      BY <1>5, <3>2 DEF Outbox, CallsSound, OneCaller, At
    <3> QED BY <3>1, <3>2
  <2>7. CallsSound'
    BY <2>4, <2>5, <2>6 DEF CallsSound
  <2>8. ReversalFollows'
    BY <1>0, <1>1, <1>2, <1>7, <2>1 DEF Outbox, ReversalFollows
  <2> QED BY <1>7, <1>f, <2>1, <2>3, <2>7, <2>8 DEF Outbox
<1> QED BY <1>3, <1>4, <1>6, <1>7

(* A command is carried out, or lost, or under way after its caller left.  *)
LEMMA CallKeeps ==
  ASSUME Typed, WorkSound, Outbox, GoesOn, StaysOpen, NEW w \in Workers, Call(w)
  PROVE  Outbox'
<1> DEFINE k == Kind(w)
<1>0. k \in Kinds /\ "close" \in Kinds /\ "reopen" \in Kinds /\ "end" \in Kinds
      /\ k \in {"close", "reopen", "end"}
  BY KindShape DEF Kinds
<1>1. misread' = misread /\ own' = own /\ home' = home /\ op' = op
  BY DEF Call
<1>2. /\ OnlyMoves(w) /\ worker'[w].saw = worker[w].saw /\ worker'[w].resume = worker[w].resume
      /\ worker[w].pc = "call" /\ worker'[w].pc = "record" /\ worker'[w].attempt = worker[w].attempt
      /\ worker[w].attempt = cmds[k].attempt
      /\ cmds[k].calls = 0 /\ cmds[k].status = "pending" /\ cmds[k].sent
      /\ cmds'[k] = [cmds[k] EXCEPT !.calls = 1]
      /\ \A j \in Kinds : j # k => cmds'[j] = cmds[j]
      /\ \/ worker'[w].reply # "failed" /\ stripe' = After(k) /\ adrift' = adrift
         \/ worker'[w].reply # "succeeded" /\ stripe' = stripe /\ adrift' = adrift
         \/ worker'[w].reply = "unknown" /\ adrift' = adrift \cup {k} /\ stripe' = stripe
  BY CallShape DEF OnlyRow, Outbox
<1>k. Kind(w)' = k
  BY <1>2, SameKind
<1>p. k = "end" => PastErasing(op)
  BY KindShape DEF WorkSound, WorkFits
<1>c. CallFits(w) /\ RowFits(k)
  BY <1>0 DEF Outbox, CallsSound, RowsSound
<1>h. k = Kind(w)
  OBVIOUS
<1> HIDE DEF k
<1>3. /\ cmds'[k].status = "pending" /\ cmds'[k].sent
      /\ cmds'[k].attempt = cmds[k].attempt /\ cmds'[k].calls = 1
  BY <1>0, <1>2, CmdCalled
<1>4. \A j \in Kinds : cmds'[j].attempt = cmds[j].attempt /\ cmds'[j].status = cmds[j].status
                       /\ cmds'[j].sent = cmds[j].sent
  BY ZenonT(30), <1>2, <1>3, CmdsTyped
<1>5. \A v \in Workers : v # w => worker'[v] = worker[v] /\ Kind(v) \in Kinds /\ CallFits(v)
                                  /\ Kind(v)' = Kind(v)
  BY <1>2, KindShape, SameKind DEF OnlyMoves, Outbox, CallsSound
<1>6. RowsSound'
  <2>1. ASSUME NEW j \in Kinds
        PROVE  RowFits(j)'
    <3>1. RowFits(j)
      BY DEF Outbox, RowsSound
    <3>2. CASE j = k
      BY <1>2, <1>3, <3>1, <3>2 DEF RowFits
    <3>3. CASE j # k
      BY <1>2, <3>1, <3>3 DEF RowFits
    <3> QED BY <3>2, <3>3
  <2> QED BY <2>1 DEF RowsSound
<1>7. CallsSound'
  <2>1. CallFits(w)'
    <3>1. worker[w].attempt \in 1..cmds[k].attempt
      BY <1>2, <1>c, <1>h DEF CallFits, OnCommand
    <3> QED BY <1>2, <1>3, <1>k, <3>1 DEF CallFits, OnCommand, At
  <2>2. ASSUME NEW v \in Workers, v # w
        PROVE  CallFits(v)'
    <3>1. CASE Kind(v) # k
      BY <1>2, <1>5, <2>2, <3>1, CallStays
    <3>2. CASE Kind(v) = k
      <4>1. worker[v].pc # "call"
        BY <1>2, <1>h, <1>c, <2>2, <3>2 DEF Outbox, CallsSound, OneCaller, At
      <4>2. worker'[v] = worker[v] /\ CallFits(v) /\ Kind(v)' = k
        BY <1>5, <2>2, <3>2
      <4>3. OnCommand(v) => worker[v].attempt \in 1..cmds[k].attempt
        BY <3>2, <4>2 DEF CallFits
      <4> QED BY <1>3, <4>1, <4>2, <4>3 DEF CallFits, OnCommand, At
    <3> QED BY <3>1, <3>2
  <2>3. OneCaller'
    BY <1>2, OneCallerStays DEF Outbox, CallsSound
  <2> QED BY <2>1, <2>2, <2>3 DEF CallsSound
<1>8. /\ stripe = "gone" => stripe' = "gone"
      /\ stripe' = "gone" => stripe = "gone" \/ k = "end"
      /\ k = "close" => stripe' # "open" \/ stripe = "open"
      /\ k = "reopen" => stripe' # "closing" \/ stripe = "closing"
      /\ k = "end" => stripe' \in {stripe, "gone"}
  BY <1>2 DEF After
<1>9. EndSound'
  <2>1. \A j \in adrift' : cmds'[j].status # "none"
    <3>1. \A j \in adrift : j \in Kinds /\ cmds[j].status # "none"
      BY DEF Outbox, EndSound, Typed
    <3>2. \A j \in adrift' : j \in adrift \/ j = k
      BY <1>2
    <3> QED BY <1>3, <1>4, <3>1, <3>2
  <2>2. "end" \in adrift' => "end" \in adrift \/ k = "end"
    BY <1>2
  <2> QED BY <1>0, <1>1, <1>4, <1>8, <1>p, <2>1, <2>2 DEF Outbox, EndSound
<1>10. FenceIsTheirs'
  BY <1>0, <1>1, <1>2, <1>4, <1>8 DEF Outbox, FenceIsTheirs
<1>11. ReversalFollows'
  BY <1>0, <1>1, <1>4 DEF Outbox, ReversalFollows
<1>12. FenceKnown'
  <2> SUFFICES ASSUME ~own, ~misread, stripe' # "gone"
               PROVE  FenceFacts' /\ \A v \in Workers : AnswerIsTrue(v)'
    BY <1>1 DEF FenceKnown
  <2>1. FenceFacts /\ \A v \in Workers : AnswerIsTrue(v)
    BY <1>8 DEF Outbox, FenceKnown
  <2>2. k = "close" => /\ stripe # "closing" /\ "close" \notin adrift
                       /\ cmds["close"].status = "pending" /\ cmds["reopen"].status = "none"
    BY <1>2, <2>1 DEF FenceFacts, Outbox, ReversalFollows
  <2>3. k # "close" => cmds'["close"] = cmds["close"]
    BY <1>0, <1>2
  <2>4. k = "reopen" => cmds["reopen"].status = "pending"
    BY <1>2
  <2>5. /\ k = "close" => \/ stripe' = "closing" /\ adrift' = adrift
                          \/ stripe' = stripe /\ adrift' = adrift
                          \/ stripe' = stripe /\ adrift' = adrift \cup {"close"} /\ worker'[w].reply # "succeeded"
        /\ k = "reopen" => /\ stripe' = "open" \/ (stripe' = stripe /\ worker'[w].reply # "succeeded")
                           /\ "close" \in adrift' => "close" \in adrift
        /\ k = "end" => stripe' = stripe /\ ("close" \in adrift' => "close" \in adrift)
    BY <1>2, <1>8 DEF After
  <2>6. FenceFacts'
    <3>1. CASE k = "close"
      BY <1>0, <1>3, <1>4, <2>1, <2>2, <2>5, <3>1 DEF FenceFacts
    <3>2. CASE k # "close"
      BY <1>0, <1>4, <2>1, <2>3, <2>5, <3>2 DEF FenceFacts
    <3> QED BY <3>1, <3>2
  <2>7. AnswerIsTrue(w)'
    BY <1>0, <1>k, <2>2, <2>5 DEF AnswerIsTrue, At
  <2>8. ASSUME NEW v \in Workers, v # w, worker'[v].pc = "record"
        PROVE  AnswerIsTrue(v)'
    <3>0. worker'[v] = worker[v] /\ Kind(v)' = Kind(v) /\ CallFits(v) /\ AnswerIsTrue(v)
          /\ worker[v].pc = "record"
      BY <1>5, <2>1, <2>8
    <3>1. CASE k = "close"
      <4>1. ~(Kind(v) = "close" /\ worker[v].attempt = cmds["close"].attempt)
        BY <1>2, <3>0, <3>1 DEF CallFits
      <4>2. Kind(v) # "reopen"
        <5>1. cmds["reopen"].attempt = 0
          BY <1>0, <2>2, <3>1 DEF Outbox, RowsSound, RowFits
        <5> QED BY <3>0, <5>1 DEF CallFits, OnCommand
      <4> QED BY <1>0, <1>4, <3>0, <4>1, <4>2 DEF AnswerIsTrue, At
    <3>2. CASE k # "close"
      BY <1>0, <1>4, <2>5, <3>0, <3>2 DEF AnswerIsTrue, At
    <3> QED BY <3>1, <3>2
  <2> QED BY <2>6, <2>7, <2>8 DEF AnswerIsTrue, At
<1> QED BY <1>6, <1>7, <1>9, <1>10, <1>11, <1>12 DEF Outbox

(* What is asked at Stripe, is so.                                         *)
LEMMA AskKeeps ==
  ASSUME Typed, WorkSound, Outbox, GoesOn, StaysOpen, NEW w \in Workers, Ask(w)
  PROVE  Outbox'
<1>1. /\ stripe' = stripe /\ adrift' = adrift /\ misread' = misread /\ own' = own /\ home' = home
      /\ op' = op /\ cmds' = cmds
  BY DEF Ask
<1>2. /\ OnlyMoves(w) /\ worker'[w].saw = worker[w].saw /\ worker'[w].resume = worker[w].resume
      /\ worker[w].pc = "ask" /\ worker'[w].pc = "record" /\ worker'[w].attempt = worker[w].attempt
      /\ worker'[w].reply = "succeeded" => Landed(Kind(w))
  BY AskShape
<1>k. Kind(w)' = Kind(w)
  BY <1>2, SameKind
<1>3. RowsSound'
  BY <1>1 DEF Outbox, RowsSound, RowFits
<1>4. CallsSound'
  <2>1. CallFits(w)'
    <3>1. CallFits(w)
      BY DEF Outbox, CallsSound
    <3> QED BY <1>1, <1>2, <1>k, <3>1 DEF CallFits, OnCommand, At
  <2>2. \A v \in Workers : v # w => CallFits(v)'
    BY <1>1, <1>2, CallStays DEF OnlyMoves, Outbox, CallsSound
  <2>3. OneCaller'
    BY <1>2, OneCallerStays DEF Outbox, CallsSound
  <2> QED BY <2>1, <2>2, <2>3 DEF CallsSound
<1>5. EndSound'
  BY <1>1 DEF Outbox, EndSound
<1>6. FenceIsTheirs' /\ ReversalFollows'
  BY <1>1 DEF Outbox, FenceIsTheirs, ReversalFollows
<1>7. FenceKnown'
  <2> SUFFICES ASSUME ~own, ~misread, stripe # "gone"
               PROVE  FenceFacts' /\ \A v \in Workers : AnswerIsTrue(v)'
    BY <1>1 DEF FenceKnown
  <2>1. FenceFacts /\ \A v \in Workers : AnswerIsTrue(v)
    BY DEF Outbox, FenceKnown
  <2>2. FenceFacts'
    BY <1>1, <2>1 DEF FenceFacts
  <2>3. AnswerIsTrue(w)'
    <3>1. worker'[w].reply = "succeeded" /\ Kind(w) = "close" => "close" \notin adrift
      BY <1>2, <2>1 DEF Landed, FenceFacts
    <3>2. worker'[w].reply = "succeeded" /\ Kind(w) = "reopen" => stripe # "closing"
      BY <1>2 DEF Landed
    <3> QED BY <1>1, <1>k, <3>1, <3>2 DEF AnswerIsTrue, At
  <2>4. \A v \in Workers : v # w => AnswerIsTrue(v)'
    BY <1>1, <1>2, <2>1, AnswerStays DEF OnlyMoves
  <2> QED BY <2>2, <2>3, <2>4
<1> QED BY <1>3, <1>4, <1>5, <1>6, <1>7 DEF Outbox

(* What is recorded of an attempt, is so, or was misread.                  *)
LEMMA RecordKeeps ==
  ASSUME Typed, WorkSound, Outbox, GoesOn, StaysOpen, NEW w \in Workers, Record(w)
  PROVE  Outbox'
<1> DEFINE k == Kind(w)
           said == worker[w].reply
<1>0. k \in Kinds /\ "close" \in Kinds /\ "reopen" \in Kinds /\ "end" \in Kinds
      /\ k \in {"close", "reopen", "end"}
  BY KindShape DEF Kinds
<1>1. stripe' = stripe /\ adrift' = adrift /\ own' = own /\ home' = home /\ op' = op
  BY DEF Record
<1>2. /\ worker[w].pc = "record" /\ said \in {"succeeded", "failed", "unknown"}
      /\ OnlyMoves(w) /\ worker'[w].pc \notin {"call", "ask", "record"}
      /\ \A j \in Kinds : j # k => cmds'[j] = cmds[j]
  BY RecordShape DEF OnlyRow, Leaves, Goes
<1>3. \/ cmds' = cmds /\ misread' = misread
      \/ /\ cmds[k].attempt = worker[w].attempt /\ cmds[k].status \in {"pending", "unknown"}
         /\ cmds'[k] = [cmds[k] EXCEPT !.status = said]
         /\ misread' = (misread \/ (said = "failed" /\ (k \in adrift \/ Landed(k))))
  BY RecordShape
<1>c. /\ cmds[k].attempt = worker[w].attempt => cmds[k].calls = 1
      /\ k = "end" /\ said = "succeeded" => stripe = "gone"
      /\ RowFits(k) /\ misread \in BOOLEAN
      /\ ~own /\ ~misread /\ stripe # "gone" =>
           (said = "succeeded" =>
             /\ k = "close" /\ worker[w].attempt = cmds["close"].attempt => "close" \notin adrift
             /\ k = "reopen" => stripe # "closing")
  BY <1>0, <1>2 DEF Outbox, CallsSound, CallFits, RowsSound, WorkSound, WorkFits, FenceKnown, AnswerIsTrue,
     At, Typed
<1> HIDE DEF k, said
<1>4. CASE cmds' = cmds /\ misread' = misread
  <2>1. \A v \in Workers : worker'[v] = worker[v] \/ worker'[v].pc \notin {"call", "ask", "record"}
    BY <1>2 DEF OnlyMoves
  <2> QED BY <1>1, <1>4, <2>1, CalmKeeps
<1>5. CASE /\ cmds[k].attempt = worker[w].attempt /\ cmds[k].status \in {"pending", "unknown"}
           /\ cmds'[k] = [cmds[k] EXCEPT !.status = said]
           /\ misread' = (misread \/ (said = "failed" /\ (k \in adrift \/ Landed(k))))
  <2>1. /\ cmds'[k].status = said /\ cmds'[k].sent = cmds[k].sent
        /\ cmds'[k].attempt = cmds[k].attempt /\ cmds'[k].calls = cmds[k].calls
    BY <1>0, <1>5, CmdNoted
  <2>2. cmds[k].calls = 1 /\ cmds[k].sent /\ said # "none"
    BY <1>2, <1>5, <1>c DEF RowFits
  <2>3. RowsSound'
    <3>1. ASSUME NEW j \in Kinds
          PROVE  RowFits(j)'
      <4>1. RowFits(j)
        BY DEF Outbox, RowsSound
      <4>2. CASE j = k
        BY <1>5, <2>1, <2>2, <4>1, <4>2 DEF RowFits
      <4>3. CASE j # k
        BY <1>2, <4>1, <4>3 DEF RowFits
      <4> QED BY <4>2, <4>3
    <3> QED BY <3>1 DEF RowsSound
  <2>4. CallsSound'
    <3>1. ASSUME NEW v \in Workers, v # w
          PROVE  CallFits(v)'
      <4>1. worker'[v] = worker[v] /\ Kind(v) \in Kinds /\ CallFits(v) /\ Kind(v)' = Kind(v)
        BY <1>2, <3>1, KindShape, SameKind DEF OnlyMoves, Outbox, CallsSound
      <4>2. CASE Kind(v) # k
        BY <1>2, <4>1, <4>2, CallStays
      <4>3. CASE Kind(v) = k
        <5>1. worker[v].pc # "call"
          BY <2>2, <4>1, <4>3 DEF CallFits, At
        <5>2. OnCommand(v) => worker[v].attempt \in 1..cmds[k].attempt
          BY <4>1, <4>3 DEF CallFits
        <5> QED BY <2>1, <2>2, <4>1, <4>3, <5>1, <5>2 DEF CallFits, OnCommand, At
      <4> QED BY <4>2, <4>3
    <3>2. CallFits(w)' /\ OneCaller'
      BY <1>2, CallEnds, OneCallerStays DEF Outbox, CallsSound
    <3> QED BY <3>1, <3>2 DEF CallsSound
  <2>5. EndSound'
    <3>1. CASE k = "end"
      BY <1>1, <1>5, <1>c, <2>1, <3>1, EndStays DEF Outbox
    <3>2. CASE k # "end"
      BY <1>0, <1>1, <1>2, <3>2, EndStays DEF Outbox
    <3> QED BY <3>1, <3>2
  <2>6. FenceIsTheirs'
    BY <1>0, <1>1, <1>2, <1>5 DEF Outbox, FenceIsTheirs
  <2>7. ReversalFollows'
    <3>1. k = "close" => op.state # "cancelled" /\ cmds["reopen"].status = "none"
      BY <1>0, <1>5, <2>2 DEF Outbox, ReversalFollows
    <3>2. k = "reopen" => cmds["reopen"].status # "none" /\ cmds'["reopen"].status # "none"
      BY <1>5, <2>1, <2>2
    <3>3. CASE k = "close"
      BY <1>0, <1>1, <1>2, <3>1, <3>3 DEF ReversalFollows
    <3>4. CASE k # "close"
      BY <1>0, <1>1, <1>2, <3>2, <3>4 DEF Outbox, ReversalFollows
    <3> QED BY <3>3, <3>4
  <2>8. FenceKnown'
    <3> SUFFICES ASSUME ~own, ~misread', stripe # "gone"
                 PROVE  FenceFacts' /\ \A v \in Workers : AnswerIsTrue(v)'
      BY <1>1 DEF FenceKnown
    <3>1. ~misread /\ ~(said = "failed" /\ (k \in adrift \/ Landed(k)))
      BY <1>5
    <3>2. FenceFacts /\ \A v \in Workers : AnswerIsTrue(v)
      BY <3>1 DEF Outbox, FenceKnown
    <3>3. /\ k = "close" /\ said = "failed" => stripe # "closing" /\ "close" \notin adrift
          /\ k = "close" /\ said = "succeeded" => "close" \notin adrift
          /\ k = "reopen" /\ said = "succeeded" => stripe # "closing"
      BY <1>5, <1>c, <3>1 DEF Landed
    <3>4. FenceFacts'
      <4>1. CASE k = "close"
        BY <1>0, <1>1, <1>2, <2>1, <2>2, <3>2, <3>3, <4>1 DEF FenceFacts
      <4>2. CASE k # "close"
        BY <1>0, <1>1, <1>2, <2>1, <3>2, <3>3, <4>2 DEF FenceFacts
      <4> QED BY <4>1, <4>2
    <3>5. ASSUME NEW v \in Workers, worker'[v].pc = "record"
          PROVE  AnswerIsTrue(v)'
      <4>1. worker'[v] = worker[v]
        BY <1>2, <3>5 DEF OnlyMoves
      <4>2. cmds'["close"].attempt = cmds["close"].attempt
        BY <1>0, <1>2, <2>1
      <4> QED BY <1>1, <3>2, <4>1, <4>2, AnswerStays
    <3> QED BY <3>4, <3>5 DEF AnswerIsTrue, At
  <2> QED BY <2>3, <2>4, <2>5, <2>6, <2>7, <2>8 DEF Outbox
<1> QED BY <1>3, <1>4, <1>5

(* A request reaches Stripe whose caller gave up.                          *)
LEMMA LandKeeps ==
  ASSUME Typed, WorkSound, Outbox, GoesOn, StaysOpen, NEW k \in Kinds, Land(k)
  PROVE  Outbox'
<1>1. /\ k \in adrift /\ stripe' = After(k) /\ adrift' = adrift \ {k}
      /\ misread' = misread /\ own' = own /\ home' = home /\ op' = op /\ cmds' = cmds /\ worker' = worker
  BY DEF Land
<1>2. /\ stripe = "gone" => stripe' = "gone"
      /\ stripe' = "gone" => stripe = "gone" \/ k = "end"
      /\ k = "reopen" /\ stripe' # "gone" => stripe' = "open"
      /\ k = "end" => stripe' = "gone"
  BY <1>1 DEF After, Kinds
<1>3. cmds[k].status # "none" /\ (k = "end" => PastErasing(op))
  BY <1>1 DEF Outbox, EndSound
<1>4. RowsSound'
  BY <1>1 DEF Outbox, RowsSound, RowFits
<1>5. CallsSound'
  <2>1. \A v \in Workers : CallFits(v)'
    BY <1>1, CallStays DEF Outbox, CallsSound
  <2>2. \A v \in Workers : Kind(v)' = Kind(v)
    BY <1>1, SameKind
  <2>3. OneCaller'
    BY <1>1, <2>2 DEF Outbox, CallsSound, OneCaller, At
  <2> QED BY <2>1, <2>3 DEF CallsSound
<1>6. EndSound'
  BY <1>1, <1>2, <1>3 DEF Outbox, EndSound
<1>7. FenceIsTheirs'
  BY <1>1, <1>2, <1>3 DEF Outbox, FenceIsTheirs, Kinds
<1>8. ReversalFollows'
  BY <1>1 DEF Outbox, ReversalFollows
<1>9. FenceKnown'
  <2> SUFFICES ASSUME ~own, ~misread, stripe' # "gone"
               PROVE  FenceFacts' /\ \A v \in Workers : AnswerIsTrue(v)'
    BY <1>1 DEF FenceKnown
  <2>1. FenceFacts /\ \A v \in Workers : AnswerIsTrue(v)
    BY <1>2 DEF Outbox, FenceKnown
  <2>2. k = "close" => /\ cmds["close"].status \notin {"failed", "succeeded"} /\ cmds["close"].calls # 0
                       /\ cmds["reopen"].status = "none"
    BY <1>1, <2>1 DEF FenceFacts, Outbox, ReversalFollows
  <2>3. FenceFacts'
    <3>1. CASE k = "close"
      BY <1>1, <2>2, <3>1 DEF FenceFacts
    <3>2. CASE k # "close"
      BY <1>1, <1>2, <2>1, <3>2 DEF FenceFacts, Kinds
    <3> QED BY <3>1, <3>2
  <2>4. ASSUME NEW v \in Workers
        PROVE  AnswerIsTrue(v)'
    <3>0. worker'[v] = worker[v] /\ Kind(v)' = Kind(v)
      BY <1>1, SameKind
    <3>1. CASE k = "close"
      <4>1. cmds["reopen"].attempt = 0 /\ "reopen" \in Kinds
        BY <2>2, <3>1 DEF Outbox, RowsSound, RowFits, Kinds
      <4>2. ~(worker[v].pc = "record" /\ Kind(v) = "reopen")
        BY <4>1 DEF Outbox, CallsSound, CallFits, OnCommand
      <4> QED BY <1>1, <3>0, <3>1, <4>2 DEF AnswerIsTrue, At
    <3>2. CASE k # "close"
      BY <1>1, <1>2, <2>1, <3>0, <3>2 DEF AnswerIsTrue, At, Kinds
    <3> QED BY <3>1, <3>2
  <2> QED BY <2>3, <2>4
<1> QED BY <1>4, <1>5, <1>6, <1>7, <1>8, <1>9 DEF Outbox

(* A cancellation is applied: what it owes is written with it.             *)
LEMMA CancelKeeps ==
  ASSUME Typed, StoryHolds, WorkSound, Outbox, GoesOn, ApplyCancel
  PROVE  Outbox'
<1>0. "close" \in Kinds /\ "reopen" \in Kinds /\ "end" \in Kinds
  BY DEF Kinds
<1>1. /\ stripe' = stripe /\ adrift' = adrift /\ misread' = misread /\ own' = own /\ worker' = worker
      /\ Settled /\ home = "tombstoned" /\ "cancelled" \in Transitions[op.state]
  BY DEF ApplyCancel
<1>2. op.state # "cancelled" /\ "cancelled" \in States /\ op.state \in States
  BY <1>1, OpTyped, TransitionsAre DEF States
<1>3. CASE RolledBack(CancelPlan) /\ home' = home /\ cmds' = cmds
  <2>1. StaysOpen
    BY <1>3 DEF RolledBack, StaysOpen
  <2>2. \A v \in Workers : worker'[v] = worker[v] \/ worker'[v].pc \notin {"call", "ask", "record"}
    BY <1>1
  <2> QED BY <1>1, <1>3, <2>1, <2>2, CalmKeeps
<1>4. CASE Committed(CancelPlan) /\ home' = "active" /\ cmds' = WithReversal
  <2>1. op'.state = "cancelled"
    <3>1. Len(CancelPlan) = 1 /\ CancelPlan[1][2] = "cancelled"
      BY ZenonT(30), <1>2, StepShape DEF CancelPlan
    <3>2. op'.state = CancelPlan[Len(CancelPlan)][2]
      BY <1>4, OpTyped DEF Committed, RowSpace
    <3> QED BY <3>1, <3>2
  <2>2. cmds["reopen"].status = "none" /\ cmds["reopen"].attempt = 0
    BY <1>0, <1>2 DEF Outbox, ReversalFollows, RowsSound, RowFits
  <2>3. cmds["close"].status # "unknown" /\ ~(cmds["close"].status = "pending" /\ cmds["close"].sent)
    BY <1>0, <1>1 DEF Settled
  <2>4. /\ \A j \in Kinds : j # "reopen" => cmds'[j] = cmds[j]
        /\ \/ cmds' = cmds /\ cmds["close"].status # "succeeded"
           \/ /\ cmds["close"].status = "succeeded"
              /\ cmds'["reopen"].status = "pending" /\ ~cmds'["reopen"].sent
              /\ cmds'["reopen"].attempt = 1 /\ cmds'["reopen"].calls = 0
    BY <1>4, <2>2, ReversalShape DEF OnlyRow
  <2>5. RowsSound'
    <3>1. ASSUME NEW j \in Kinds
          PROVE  RowFits(j)'
      <4>1. RowFits(j)
        BY DEF Outbox, RowsSound
      <4>2. CASE cmds'[j] = cmds[j]
        BY <4>1, <4>2 DEF RowFits
      <4>3. CASE j = "reopen" /\ cmds'["reopen"].status = "pending" /\ ~cmds'["reopen"].sent
                 /\ cmds'["reopen"].attempt = 1 /\ cmds'["reopen"].calls = 0
        BY <4>3 DEF RowFits
      <4> QED BY <2>4, <4>2, <4>3
    <3> QED BY <3>1 DEF RowsSound
  <2>6. CallsSound'
    <3>1. ASSUME NEW v \in Workers
          PROVE  CallFits(v)' /\ Kind(v)' = Kind(v)
      <4>1. worker'[v] = worker[v] /\ Kind(v) \in Kinds /\ CallFits(v) /\ Kind(v)' = Kind(v)
        BY <1>1, KindShape, SameKind DEF Outbox, CallsSound
      <4>2. OnCommand(v) => Kind(v) # "reopen"
        BY <2>2, <4>1 DEF CallFits
      <4> QED BY <2>4, <4>1, <4>2, CallStays
    <3>2. OneCaller'
      BY <1>1, <3>1 DEF Outbox, CallsSound, OneCaller, At
    <3> QED BY <3>1, <3>2 DEF CallsSound
  <2>7. EndSound'
    <3>1. \A j \in adrift' : cmds'[j].status # "none"
      BY <1>1 DEF Outbox, EndSound, GoesOn, RowsGoOn, Typed
    <3>2. cmds'["end"] = cmds["end"]
      BY <1>0, <2>4
    <3> QED BY <1>1, <1>4, <3>1, <3>2 DEF Outbox, EndSound, GoesOn, OpGoesOn
  <2>8. FenceIsTheirs'
    BY <1>0, <1>1, <2>4 DEF Outbox, FenceIsTheirs
  <2>9. ReversalFollows'
    BY <1>0, <2>1, <2>2, <2>3, <2>4 DEF ReversalFollows
  <2>10. FenceKnown'
    <3> SUFFICES ASSUME ~own, ~misread, stripe # "gone"
                 PROVE  FenceFacts' /\ \A v \in Workers : AnswerIsTrue(v)'
      BY <1>1 DEF FenceKnown
    <3>1. FenceFacts /\ \A v \in Workers : AnswerIsTrue(v)
      BY DEF Outbox, FenceKnown
    <3>2. cmds'["close"] = cmds["close"] /\ cmds'["reopen"].status # "succeeded"
      BY <1>0, <2>2, <2>4
    <3>3. FenceFacts'
      BY <1>1, <3>1, <3>2 DEF FenceFacts
    <3>4. \A v \in Workers : AnswerIsTrue(v)'
      BY <1>1, <3>1, <3>2, AnswerStays
    <3> QED BY <3>3, <3>4
  <2> QED BY <2>5, <2>6, <2>7, <2>8, <2>9, <2>10 DEF Outbox
<1> QED BY <1>3, <1>4 DEF ApplyCancel

LEMMA OutboxKept ==
  ASSUME Typed, StoryHolds, WorkSound, Outbox, GoesOn, [XNext]_xVars
  PROVE  Outbox'
<1>1. CASE ApplyCancel
  BY <1>1, CancelKeeps
<1>2. ASSUME ~ApplyCancel
      PROVE  Outbox'
  <2>0. StaysOpen
    BY <1>2, OpenStays
  <2>1. home' = "erased" => home = "erased" \/ (stripe = "gone" /\ PastErasing(op))
    BY ErasureIsLast DEF Outbox
  <2>2. RowsSound /\ CallsSound
    BY DEF Outbox
  <2>3. ASSUME NEW w \in Workers, Work(w)
        PROVE  Outbox'
    <3>1. CASE Quiet(w)
      <4>1. /\ OnlyMoves(w) /\ worker'[w].pc \notin {"call", "ask", "record"}
            /\ cmds' = cmds /\ stripe' = stripe /\ adrift' = adrift /\ misread' = misread /\ own' = own
        BY <2>2, <3>1, QuietShape
      <4>2. \A v \in Workers : worker'[v] = worker[v] \/ worker'[v].pc \notin {"call", "ask", "record"}
        BY <4>1 DEF OnlyMoves
      <4> QED BY <2>0, <2>1, <4>1, <4>2, CalmKeeps
    <3>2. CASE Enqueue(w) \/ RetryFailed(w) \/ Dispatch(w)
      BY <2>0, <3>2, EnqueueKeeps, RetryKeeps, DispatchKeeps
    <3>3. CASE Call(w) \/ Ask(w) \/ Record(w)
      BY <2>0, <3>3, CallKeeps, AskKeeps, RecordKeeps
    <3> QED BY <2>3, <3>1, <3>2, <3>3 DEF Work, Quiet
  <2>4. ASSUME NEW k \in Kinds, Land(k)
        PROVE  Outbox'
    BY <2>0, <2>4, LandKeeps
  <2>5. CASE Request \/ ReserveRequest \/ FinalizeRequest \/ ReserveCancel \/ WindowCloses \/ LeaseExpires
             \/ UNCHANGED xVars
    <3>1. /\ cmds' = cmds /\ stripe' = stripe /\ adrift' = adrift /\ misread' = misread /\ own' = own
          /\ worker' = worker
      BY <2>5 DEF Request, ReserveRequest, FinalizeRequest, ReserveCancel, WindowCloses, LeaseExpires, xVars
    <3> QED BY <2>0, <2>1, <3>1, CalmKeeps
  <2> QED BY <1>2, <2>3, <2>4, <2>5 DEF XNext
<1> QED BY <1>1, <1>2

-----------------------------------------------------------------------------
(* Theorems                                                                *)

(* The inductive invariant: the plan that is reserved leads on from where  *)
(* the row is, the erasing once committed is never taken back, an attempt  *)
(* has one caller, and what is recorded of the fence is so at Stripe.      *)
THEOREM DeletionInvariant == XSpec => []DeletionIInv
<1>1. XInit => DeletionIInv
  <2> SUFFICES ASSUME XInit
               PROVE  DeletionIInv
    OBVIOUS
  <2>1. /\ op.state = "none" /\ op.resume = "none" /\ op.ver = 0 /\ op.plan = NoPlan /\ op \in RowSpace
    BY DeletionAssumption DEF XInit, RowSpace, States, NoPlan
  <2>2. journal = << >> /\ Len(journal) = 0 /\ journal \in Seq([from : States, to : States, at : BOOLEAN])
        /\ DOMAIN journal = 1..0
    BY DEF XInit
  <2>3. /\ cmds \in [Kinds -> CmdSpace]
        /\ \A k \in Kinds : cmds[k].status = "none" /\ ~cmds[k].sent /\ cmds[k].attempt = 0 /\ cmds[k].calls = 0
    BY DeletionAssumption DEF XInit, CmdSpace
  <2>4. worker \in [Workers -> WorkerSpace] /\ \A w \in Workers : worker[w] = Idle
    BY IdleTyped DEF XInit
  <2>5. /\ stripe \in {"open", "closing"} /\ adrift = {} /\ ~misread /\ home = "active" /\ window
        /\ own = (stripe = "closing") /\ misread \in BOOLEAN /\ own \in BOOLEAN /\ window \in BOOLEAN
    BY DEF XInit
  <2>6. Typed
    BY <2>1, <2>2, <2>3, <2>4, <2>5 DEF Typed
  <2>7. StoryHolds
    BY <2>1, <2>2 DEF StoryHolds, WindowHonoured
  <2>8. NoWayBack
    BY <2>1 DEF NoWayBack, PastErasing
  <2>9. RowsSound
    BY <2>3 DEF RowsSound, RowFits
  <2>10. \A w \in Workers : worker[w].pc = "idle" /\ worker[w].saw = "none" /\ worker[w].goal = "none"
    BY <2>4 DEF Idle
  <2>11. CallsSound
    BY <2>10 DEF CallsSound, OneCaller, CallFits, OnCommand, At
  <2>12. WorkSound
    BY <2>10 DEF WorkSound, WorkFits, At, Phase
  <2>13. "close" \in Kinds /\ "reopen" \in Kinds /\ "end" \in Kinds
    BY DEF Kinds
  <2>14. EndSound /\ FenceIsTheirs /\ ReversalFollows
    BY <2>1, <2>3, <2>5, <2>13 DEF EndSound, FenceIsTheirs, ReversalFollows
  <2>15. FenceKnown
    BY <2>3, <2>5, <2>10, <2>13 DEF FenceKnown, FenceFacts, AnswerIsTrue, At
  <2> QED BY <2>6, <2>7, <2>8, <2>9, <2>11, <2>12, <2>14, <2>15 DEF DeletionIInv
<1>2. DeletionIInv /\ [XNext]_xVars => DeletionIInv'
  <2> SUFFICES ASSUME DeletionIInv, [XNext]_xVars
               PROVE  DeletionIInv'
    OBVIOUS
  <2>1. Typed /\ StoryHolds /\ NoWayBack /\ WorkSound /\ Outbox
    BY DEF DeletionIInv, Outbox
  <2>2. RowsSound /\ CallsSound
    BY <2>1 DEF Outbox
  <2>3. StoryStep
    BY <2>1, StoryKept
  <2>4. RowsGoOn /\ StripeGoesOn
    BY <2>1, <2>2, RowsKept, StripeKept
  <2>5. GoesOn
    BY <2>3, <2>4 DEF GoesOn, StoryStep
  <2>6. worker' \in [Workers -> WorkerSpace] /\ WorkSound'
    BY <2>1, <2>2, <2>5, WorkKept
  <2>7. Typed'
    BY <2>1, <2>3, <2>4, <2>6, TypedKept
  <2>8. Outbox'
    BY <2>1, <2>5, OutboxKept
  <2> QED BY <2>3, <2>6, <2>7, <2>8 DEF DeletionIInv, Outbox, StoryStep
<1> QED BY <1>1, <1>2, PTL DEF XSpec


-----------------------------------------------------------------------------
(* What it says to a reader of the code                                    *)

LEMMA CommandShape ==
  ASSUME Typed, NEW k \in Kinds
  PROVE  /\ cmds[k].status \in {"none", "pending", "unknown", "succeeded", "failed"}
         /\ cmds[k].sent \in BOOLEAN /\ cmds[k].attempt \in 0..MaxAttempts /\ cmds[k].calls \in 0..1
<1>1. cmds[k] \in CmdSpace
  BY DEF Typed
<1> QED BY <1>1 DEF CmdSpace

(* Whatever transactions were lost after they wrote to the journal, the    *)
(* row of deletion_operations stands at a version whose entry leads to the *)
(* row's state, and the entries are one chain that is at most one          *)
(* interrupted transaction ahead of it (appendJournalTransitionInTx).      *)
THEOREM JournalIsTheRow == XSpec => []JournalAgrees
<1>1. DeletionIInv => JournalAgrees
  <2> SUFFICES ASSUME DeletionIInv PROVE JournalAgrees
    OBVIOUS
  <2>1. Typed /\ StoryHolds
    BY DEF DeletionIInv
  <2>2. /\ op.state \in States /\ op.resume \in Resumable \cup {"none"}
        /\ op.failures \in 0..MaxFailures
    BY <2>1, OpTyped
  <2>3. /\ op.state \in States \ {"journal_pending", "verifying"}
        /\ op.resume \in States /\ (op.resume # "none" <=> op.state = "blocked")
    BY <2>1, <2>2 DEF StoryHolds, States, Resumable
  <2>4. op.plan # NoPlan => op.plan[1][1] = op.state
    <3> SUFFICES ASSUME op.plan # NoPlan PROVE op.plan[1][1] = op.state
      OBVIOUS
    <3>1. PlanFits(op.plan, op, op.at)
      BY <2>1 DEF StoryHolds
    <3>2. CASE op.plan = RequestPlan /\ op.state = "requested"
      BY <3>2, LongShape
    <3>3. CASE op.plan = ErasurePlan /\ op.state = "erasing"
      BY <3>3, LongShape
    <3>4. CASE \E g \in (Goals \cup Resumable \cup {"cancelled"}) \cap Transitions[op.state] :
                 op.plan = Step(op.state, g)
      BY <3>4 DEF Step
    <3> QED BY <3>1, <3>2, <3>3, <3>4 DEF PlanFits
  <2>5. \A k \in Kinds : cmds[k].attempt \in 0..MaxAttempts
    BY <2>1, CommandShape
  <2>6. DeletionTypeOK
    BY <2>1, <2>2, <2>3, <2>4, <2>5 DEF DeletionTypeOK, Typed
  <2> QED BY <2>1, <2>6 DEF JournalAgrees, StoryHolds
<1> QED BY <1>1, DeletionInvariant, PTL

(* No subscription is ended and no row erased before the journal durably   *)
(* says "erasing", nor where it says "cancelled"; and however long a       *)
(* reserved plan waited for its transition, the cancellation was decided   *)
(* within the owner's window and the erasure after it.                     *)
THEOREM NothingIrreversibleTooSoon == XSpec => []IrreversibleInItsTime
<1>1. DeletionIInv => IrreversibleInItsTime
  <2> SUFFICES ASSUME DeletionIInv PROVE IrreversibleInItsTime
    OBVIOUS
  <2>1. StoryHolds /\ NoWayBack /\ EndSound
    BY DEF DeletionIInv
  <2>2. stripe = "gone" \/ home = "erased" => PastErasing(op)
    BY <2>1 DEF EndSound
  <2>3. PastErasing(op) => Journaled("erasing") /\ ~Journaled("cancelled")
    BY <2>1 DEF NoWayBack
  <2>4. IrreversibleNeedsErasing
    BY <2>2, <2>3 DEF IrreversibleNeedsErasing
  <2> QED BY <2>1, <2>4 DEF IrreversibleInItsTime, StoryHolds
<1> QED BY <1>1, DeletionInvariant, PTL

(* A cancelled deletion leaves the subscription as it found it: the end    *)
(* the fence scheduled is reopened, or its reopening is owed or has        *)
(* failed, and the end the owner had scheduled stays.                      *)
THEOREM CancelledIsUndone == XSpec => []CancellationUndoes
<1>1. DeletionIInv => CancellationUndoes
  <2> SUFFICES ASSUME DeletionIInv PROVE CancellationUndoes
    OBVIOUS
  <2>1. /\ Typed /\ RowsSound /\ FenceIsTheirs /\ ReversalFollows /\ FenceKnown
        /\ own \in BOOLEAN
    BY DEF DeletionIInv, Typed
  <2>2. "close" \in Kinds /\ "reopen" \in Kinds
    BY DEF Kinds
  <2>3. OwnScheduleStays
    BY <2>1 DEF OwnScheduleStays, FenceIsTheirs
  <2>4. ReversalOwed
    <3> SUFFICES ASSUME op.state = "cancelled", stripe = "closing", ~own, ~misread
                 PROVE  cmds["reopen"].status \in {"pending", "unknown", "failed"}
      BY DEF ReversalOwed
    <3>1. FenceFacts
      BY <2>1 DEF FenceKnown
    <3>2. cmds["close"].status # "failed" /\ cmds["close"].calls # 0
          /\ cmds["reopen"].status # "succeeded"
      BY <3>1 DEF FenceFacts
    <3>3. RowFits("close")
      BY <2>1, <2>2 DEF RowsSound
    <3>4. cmds["close"].status # "none"
      BY <2>1, <2>2, <3>2, <3>3, CommandShape DEF RowFits
    <3>5. cmds["close"].status # "pending"
      BY <2>1, <2>2, <3>2, <3>3, CommandShape DEF RowFits, ReversalFollows
    <3>6. cmds["close"].status = "succeeded"
      BY <2>1, <2>2, <3>2, <3>4, <3>5, CommandShape DEF ReversalFollows
    <3>7. cmds["reopen"].status # "none"
      BY <2>1, <3>6 DEF ReversalFollows
    <3> QED BY <2>1, <2>2, <3>2, <3>7, CommandShape
  <2> QED BY <2>3, <2>4 DEF CancellationUndoes
<1> QED BY <1>1, DeletionInvariant, PTL

(* Of two workers that hold one lease in turn, no two carry out the same   *)
(* attempt of a provider command (markDispatched), and a workspace whose   *)
(* rows are gone has no subscription left that charges.                    *)
THEOREM NoCommandTwice == XSpec => []CommandsCarriedOut
<1>1. DeletionIInv => CommandsCarriedOut
  <2> SUFFICES ASSUME DeletionIInv PROVE CommandsCarriedOut
    OBVIOUS
  <2>1. Typed /\ EndSound
    BY DEF DeletionIInv
  <2>2. \A k \in Kinds : cmds[k].calls \in 0..1
    BY <2>1, CommandShape
  <2>3. OneCallPerAttempt
    BY <2>2 DEF OneCallPerAttempt
  <2> QED BY <2>1, <2>3 DEF CommandsCarriedOut, ErasedLeavesNoSubscription, EndSound
<1> QED BY <1>1, DeletionInvariant, PTL

-----------------------------------------------------------------------------
(***************************************************************************)
(* The budget.                                                             *)
(***************************************************************************)
LEMMA AmountIsNat == \A a : Amount(a) \in Nat
BY AmountsAssumption DEF Amount

LEMMA OverrunIsNat ==
    ASSUME NEW a, NEW cost \in Nat \cup {Unknown}
    PROVE  Overrun(a, cost) \in Nat
BY AmountIsNat DEF Overrun, Greater

\* The daily row and the claims stay within their columns and each other.
BudgetInv == SpendTypeOK /\ ReservedWithinCap /\ SpinsWithinShare

\* Facts of unknown cost that nothing has corrected: what the row's count of
\* unknown calls counts, so that a correction never takes it below zero.
Uncorrected == {a \in Ids : usage[a] = Unknown /\ adjusted[a] = None}
UnknownCounted == daily.unknown = Cardinality(Uncorrected)

LEMMA UncorrectedFinite == IsFiniteSet(Uncorrected) /\ Cardinality(Uncorrected) \in Nat
<1>1. IsFiniteSet(Ids)
  BY AmountsAssumption, FS_Union DEF Ids
<1>2. IsFiniteSet(Uncorrected)
  BY <1>1, FS_Subset DEF Uncorrected
<1> QED BY <1>2, FS_CardinalityType

LEMMA TightenedBounds ==
    ASSUME BudgetInv, NEW cap \in Nat
    PROVE  /\ Tightened(cap) \in Nat
           /\ daily.reserved <= Tightened(cap)
           /\ Tightened(cap) <= daily.cap
BY AmountsAssumption
   DEF BudgetInv, SpendTypeOK, DailyRows, ReservedWithinCap, Tightened, Greater, Lesser

\* The share, counted: one more reserved Sample Spin is one more share spent.
LEMMA ShareCounted ==
    ASSUME BudgetInv, NEW a \in Ids, NEW cap \in Caps, NEW share \in Caps,
           ClaimSpend(a, cap, share)
    PROVE  SpinsWithinShare'
<1> DEFINE Spent == Reserved \cap SpinIds
<1>1. /\ IsFiniteSet(Spent) /\ Cardinality(Spent) \in Nat
  <2>1. IsFiniteSet(Spent)
    BY AmountsAssumption, FS_Subset
  <2> QED BY <2>1, FS_CardinalityType
<1>2. CASE a \in SpinIds /\ Fits(a, cap, share)
  <2>1. Spent' = Spent \cup {a} /\ a \notin Spent
    BY <1>2 DEF ClaimSpend, Reserved, BudgetInv, SpendTypeOK
  <2>2. Cardinality(Spent') = Cardinality(Spent) + 1
    BY <2>1, <1>1, FS_AddElement
  <2>3. Cardinality(Spent) * SpinCost + SpinCost <= SpinCeiling
    <3>1. Cardinality(Spent) * SpinCost + SpinCost <= Lesser(share, SpinCeiling)
      BY <1>2 DEF Fits
    <3>2. share \in Nat /\ SpinCeiling \in Nat
      BY AmountsAssumption
    <3>3. Lesser(share, SpinCeiling) <= SpinCeiling /\ Lesser(share, SpinCeiling) \in Nat
      BY <3>2 DEF Lesser
    <3>4. Cardinality(Spent) * SpinCost \in Nat /\ SpinCost \in Nat
      BY <1>1, AmountsAssumption
    <3> HIDE DEF Spent
    <3> QED BY <3>1, <3>2, <3>3, <3>4
  <2>4. (Cardinality(Spent) + 1) * SpinCost = Cardinality(Spent) * SpinCost + SpinCost
    <3> HIDE DEF Spent
    <3> QED BY <1>1, AmountsAssumption
  <2> QED BY <2>2, <2>3, <2>4 DEF SpinsWithinShare
<1>3. CASE ~(a \in SpinIds /\ Fits(a, cap, share))
  <2>1. Spent' = Spent
    BY <1>3 DEF ClaimSpend, Reserved, BudgetInv, SpendTypeOK
  <2> QED BY <2>1 DEF SpinsWithinShare, BudgetInv
<1> QED BY <1>2, <1>3

LEMMA ClaimKeepsBudget ==
    ASSUME BudgetInv, NEW a \in Ids, NEW cap \in Caps, NEW share \in Caps,
           ClaimSpend(a, cap, share)
    PROVE  BudgetInv' /\ daily'.cap <= daily.cap
<1>1. cap \in Nat /\ share \in Nat
  BY AmountsAssumption
<1>2. /\ Tightened(cap) \in Nat /\ daily.reserved <= Tightened(cap)
      /\ Tightened(cap) <= daily.cap
  BY <1>1, TightenedBounds
<1>3. Amount(a) \in Nat
  BY AmountIsNat
<1>4. SpendTypeOK'
  <2>1. claims' \in [Ids -> {"none", "reserved", "refused"}]
    BY DEF BudgetInv, SpendTypeOK, ClaimSpend
  <2>2. CASE Fits(a, cap, share)
    <3>1. daily' = [daily EXCEPT !.cap = Tightened(cap), !.reserved = @ + Amount(a)]
      BY <2>2 DEF ClaimSpend
    <3>2. daily' \in DailyRows
      <4>1. daily \in DailyRows /\ daily.reserved + Amount(a) \in Nat
        BY <1>3 DEF BudgetInv, SpendTypeOK, DailyRows
      <4> QED BY <3>1, <1>2, <4>1 DEF DailyRows
    <3> QED BY <2>1, <3>2 DEF BudgetInv, SpendTypeOK, ClaimSpend
  <2>3. CASE ~Fits(a, cap, share)
    <3>1. daily' = [daily EXCEPT !.cap = Tightened(cap)]
      BY <2>3 DEF ClaimSpend, BudgetInv, SpendTypeOK
    <3>2. daily' \in DailyRows
      BY <3>1, <1>2 DEF BudgetInv, SpendTypeOK, DailyRows
    <3> QED BY <2>1, <3>2 DEF BudgetInv, SpendTypeOK, ClaimSpend
  <2> QED BY <2>2, <2>3
<1>5. ReservedWithinCap' /\ daily'.cap <= daily.cap
  <2>1. daily'.cap = Tightened(cap)
    BY DEF BudgetInv, SpendTypeOK, DailyRows, ClaimSpend
  <2>2. CASE Fits(a, cap, share)
    <3>1. daily'.reserved = daily.reserved + Amount(a)
      BY <2>2 DEF BudgetInv, SpendTypeOK, DailyRows, ClaimSpend
    <3>2. daily.reserved + Amount(a) <= Tightened(cap)
      BY <2>2 DEF Fits
    <3> QED BY <1>2, <1>3, <2>1, <3>1, <3>2, AmountsAssumption
            DEF BudgetInv, SpendTypeOK, DailyRows, ReservedWithinCap
  <2>3. CASE ~Fits(a, cap, share)
    <3>1. daily'.reserved = daily.reserved
      BY <2>3 DEF BudgetInv, SpendTypeOK, DailyRows, ClaimSpend
    <3> QED BY <1>2, <2>1, <3>1, AmountsAssumption
            DEF BudgetInv, SpendTypeOK, DailyRows, ReservedWithinCap
  <2> QED BY <2>2, <2>3
<1>6. SpinsWithinShare'
  BY ShareCounted
<1> QED BY <1>4, <1>5, <1>6 DEF BudgetInv

LEMMA RecordKeepsBudget ==
    ASSUME BudgetInv, NEW a \in Ids, NEW cost \in Nat \cup {Unknown}, RecordUsage(a, cost)
    PROVE  BudgetInv' /\ daily'.cap = daily.cap
<1>1. Overrun(a, cost) \in Nat
  BY OverrunIsNat
<1>2. daily' \in DailyRows /\ daily'.cap = daily.cap /\ daily'.reserved = daily.reserved
  <2>1. daily \in DailyRows
    BY DEF BudgetInv, SpendTypeOK
  <2>2. CASE cost = Unknown
    <3>1. daily' = [daily EXCEPT !.unknown = @ + 1, !.overrun = @ + Overrun(a, cost)]
      BY <2>1, <2>2 DEF RecordUsage, DailyRows
    <3>2. daily.unknown + 1 \in Nat /\ daily.overrun + Overrun(a, cost) \in Nat
      BY <2>1, <1>1 DEF DailyRows
    <3> QED BY <2>1, <3>1, <3>2 DEF DailyRows
  <2>3. CASE cost # Unknown
    <3>1. daily' = [daily EXCEPT !.known = @ + cost, !.overrun = @ + Overrun(a, cost)]
      BY <2>1, <2>3 DEF RecordUsage, DailyRows
    <3>2. daily.known + cost \in Nat /\ daily.overrun + Overrun(a, cost) \in Nat
      BY <2>1, <2>3, <1>1 DEF DailyRows
    <3> QED BY <2>1, <3>1, <3>2 DEF DailyRows
  <2> QED BY <2>2, <2>3
<1>3. SpendTypeOK' /\ claims' = claims
  BY <1>2, AmountsAssumption DEF BudgetInv, SpendTypeOK, RecordUsage
<1>4. Reserved' = Reserved
  BY <1>3 DEF Reserved
<1> QED
  BY <1>2, <1>3, <1>4 DEF BudgetInv, SpendTypeOK, ReservedWithinCap, SpinsWithinShare

LEMMA RecordCounted ==
    ASSUME BudgetInv, UnknownCounted, NEW a \in Ids, NEW cost \in Nat \cup {Unknown},
           RecordUsage(a, cost)
    PROVE  UnknownCounted'
<1>1. usage[a] = None /\ adjusted[a] = None /\ daily \in DailyRows
  BY AmountsAssumption DEF RecordUsage, BudgetInv, SpendTypeOK
<1>2. CASE cost = Unknown
  <2>1. Uncorrected' = Uncorrected \cup {a} /\ a \notin Uncorrected
    BY <1>1, <1>2, AmountsAssumption DEF Uncorrected, RecordUsage, BudgetInv, SpendTypeOK
  <2>2. Cardinality(Uncorrected') = Cardinality(Uncorrected) + 1
    BY <2>1, UncorrectedFinite, FS_AddElement
  <2>3. daily'.unknown = daily.unknown + 1
    BY <1>1, <1>2 DEF RecordUsage, DailyRows
  <2> QED BY <2>2, <2>3 DEF UnknownCounted
<1>3. CASE cost # Unknown
  <2>1. Uncorrected' = Uncorrected
    BY <1>1, <1>3, AmountsAssumption DEF Uncorrected, RecordUsage, BudgetInv, SpendTypeOK
  <2>2. daily'.unknown = daily.unknown
    BY <1>1, <1>3 DEF RecordUsage, DailyRows
  <2> QED BY <2>1, <2>2 DEF UnknownCounted
<1> QED BY <1>2, <1>3

LEMMA ReconcileKeepsBudget ==
    ASSUME BudgetInv, NEW a \in Ids, NEW cost \in Costs, Reconcile(a, cost), UnknownCounted
    PROVE  BudgetInv' /\ UnknownCounted' /\ daily'.cap = daily.cap
<1>5. /\ Cardinality(Uncorrected') = Cardinality(Uncorrected) - 1
      /\ Cardinality(Uncorrected) > 0
  <2>1. Uncorrected' = Uncorrected \ {a} /\ a \in Uncorrected
    BY AmountsAssumption DEF Uncorrected, Reconcile, BudgetInv, SpendTypeOK
  <2>2. Cardinality(Uncorrected') = Cardinality(Uncorrected) - 1
    BY <2>1, UncorrectedFinite, FS_RemoveElement
  <2>3. Cardinality(Uncorrected) # 0
    BY <2>1, UncorrectedFinite, FS_EmptySet
  <2> QED BY <2>2, <2>3, UncorrectedFinite
<1>1. cost \in Nat /\ Overrun(a, cost) \in Nat
  BY OverrunIsNat, AmountsAssumption
<1>2. daily' \in DailyRows /\ daily'.cap = daily.cap /\ daily'.reserved = daily.reserved
  <2>1. daily \in DailyRows
    BY DEF BudgetInv, SpendTypeOK
  <2>2. daily' = [daily EXCEPT !.known = @ + cost, !.unknown = @ - 1,
                               !.overrun = @ + Overrun(a, cost)]
    BY DEF Reconcile
  <2>3. /\ daily.known + cost \in Nat /\ daily.unknown - 1 \in Nat
        /\ daily.overrun + Overrun(a, cost) \in Nat
    BY <1>1, <1>5, <2>1 DEF DailyRows, UnknownCounted
  <2> QED BY <2>1, <2>2, <2>3 DEF DailyRows
<1>3. SpendTypeOK' /\ claims' = claims
  BY <1>1, <1>2, AmountsAssumption DEF BudgetInv, SpendTypeOK, Reconcile
<1>4. Reserved' = Reserved
  BY <1>3 DEF Reserved
<1>6. daily'.unknown = daily.unknown - 1
  BY DEF Reconcile, BudgetInv, SpendTypeOK, DailyRows
<1>7. UnknownCounted'
  BY <1>5, <1>6, UncorrectedFinite DEF UnknownCounted
<1> QED
  BY <1>2, <1>3, <1>4, <1>7
  DEF BudgetInv, SpendTypeOK, ReservedWithinCap, SpinsWithinShare

-----------------------------------------------------------------------------
BudgetIInv == BudgetInv /\ UnknownCounted

LEMMA BudgetInitially == SpendInit => BudgetIInv
<1> SUFFICES ASSUME SpendInit PROVE BudgetIInv
  OBVIOUS
<1>1. SpendTypeOK
  BY AmountsAssumption DEF SpendInit, SpendTypeOK, DailyRows
<1>2. ReservedWithinCap
  BY AmountsAssumption DEF SpendInit, ReservedWithinCap
<1>3. SpinsWithinShare
  <2>1. Reserved \cap SpinIds = {}
    BY DEF SpendInit, Reserved
  <2>2. Cardinality(Reserved \cap SpinIds) = 0
    BY <2>1, FS_EmptySet
  <2> QED BY <2>2, AmountsAssumption DEF SpinsWithinShare
<1>4. UnknownCounted
  <2>1. Uncorrected = {}
    BY AmountsAssumption DEF SpendInit, Uncorrected
  <2> QED BY <2>1, FS_EmptySet DEF SpendInit, UnknownCounted
<1> QED BY <1>1, <1>2, <1>3, <1>4 DEF BudgetIInv, BudgetInv

LEMMA BudgetStep ==
    ASSUME BudgetIInv, [SpendNext]_spendVars
    PROVE  BudgetIInv' /\ daily'.cap <= daily.cap
<1>1. daily.cap \in Nat
  BY DEF BudgetIInv, BudgetInv, SpendTypeOK, DailyRows
<1>2. ASSUME NEW a \in Ids, NEW cap \in Caps, NEW share \in Caps, ClaimSpend(a, cap, share)
      PROVE  BudgetIInv' /\ daily'.cap <= daily.cap
  <2>1. Uncorrected' = Uncorrected
    BY <1>2 DEF ClaimSpend, Uncorrected
  <2>2. daily'.unknown = daily.unknown
    BY <1>2 DEF ClaimSpend, BudgetIInv, BudgetInv, SpendTypeOK, DailyRows
  <2> QED BY <1>2, <2>1, <2>2, ClaimKeepsBudget DEF BudgetIInv, UnknownCounted
<1>3. ASSUME NEW a \in Ids, NEW cost \in Costs \cup {0, Unknown}, RecordUsage(a, cost)
      PROVE  BudgetIInv' /\ daily'.cap <= daily.cap
  <2>1. cost \in Nat \cup {Unknown}
    BY AmountsAssumption
  <2>2. daily'.cap <= daily.cap
    BY <1>1, <1>3, <2>1, RecordKeepsBudget DEF BudgetIInv
  <2> QED BY <1>3, <2>1, <2>2, RecordKeepsBudget, RecordCounted DEF BudgetIInv
<1>4. ASSUME NEW a \in Ids, NEW cost \in Costs, Reconcile(a, cost)
      PROVE  BudgetIInv' /\ daily'.cap <= daily.cap
  BY <1>1, <1>4, ReconcileKeepsBudget DEF BudgetIInv
<1>5. CASE UNCHANGED spendVars
  <2>1. Reserved' = Reserved /\ Uncorrected' = Uncorrected
    BY <1>5 DEF spendVars, Reserved, Uncorrected
  <2> QED
    BY <1>1, <1>5, <2>1 DEF spendVars, BudgetIInv, BudgetInv, SpendTypeOK, ReservedWithinCap,
                       SpinsWithinShare, UnknownCounted
<1> QED BY <1>2, <1>3, <1>4, <1>5 DEF SpendNext

LEMMA BudgetAlways == SpendSpec => []BudgetIInv
<1>1. BudgetIInv /\ [SpendNext]_spendVars => BudgetIInv'
  BY BudgetStep
<1> QED BY BudgetInitially, <1>1, PTL DEF SpendSpec

(***************************************************************************)
(* The daily row is the sum of the rows it summarises.  Each of its sums   *)
(* weighs every attempt; an action changes the weight of one.              *)
(***************************************************************************)
Claimed == [a \in Ids |-> IF a \in Reserved THEN Amount(a) ELSE 0]
Learned == [a \in Ids |-> KnownCost(a)]
Overrunning == [a \in Ids |-> Overrun(a, KnownCost(a))]

SumsHold ==
    /\ daily.reserved = Summed(Claimed)
    /\ daily.known = Summed(Learned)
    /\ daily.overrun = Summed(Overrunning)

LEMMA IdsFinite == IsFiniteSet(Ids)
BY AmountsAssumption, FS_Union DEF Ids

LEMMA SummedMoves ==
    ASSUME NEW w \in [Ids -> Int], NEW v \in [Ids -> Int], NEW a \in Ids, NEW d \in Int,
           v[a] = w[a] + d, \A x \in Ids \ {a} : v[x] = w[x]
    PROVE  Summed(v) = Summed(w) + d
<1>1. Total(v, Ids) = Total(w, Ids) + d
  BY IdsFinite, SumsMove
<1> QED BY <1>1 DEF Summed, Total

LEMMA KnownCostIsNat ==
    ASSUME SpendTypeOK
    PROVE  /\ \A a \in Ids : KnownCost(a) \in Nat /\ Overrun(a, KnownCost(a)) \in Nat
           /\ Claimed \in [Ids -> Int] /\ Learned \in [Ids -> Int]
           /\ Overrunning \in [Ids -> Int]
<1>1. \A a \in Ids : KnownCost(a) \in Nat
  BY DEF KnownCost
<1>2. \A a \in Ids : Overrun(a, KnownCost(a)) \in Nat
  BY <1>1, OverrunIsNat
<1> QED BY <1>1, <1>2, AmountIsNat DEF Claimed, Learned, Overrunning

\* What an attempt is now known to have cost goes from nothing to a cost: the
\* two sums move by it and by its overrun.
LEMMA CostLearned ==
    ASSUME SpendTypeOK, NEW a \in Ids, NEW cost \in Nat,
           KnownCost(a) = 0, KnownCost(a)' = cost,
           \A x \in Ids \ {a} : KnownCost(x)' = KnownCost(x)
    PROVE  /\ Summed(Learned') = Summed(Learned) + cost
           /\ Summed(Overrunning') = Summed(Overrunning) + Overrun(a, cost)
<1>1. Overrun(a, 0) = 0 /\ Overrun(a, cost) \in Nat
  BY AmountIsNat, AmountsAssumption, OverrunIsNat DEF Overrun, Greater
<1>2. /\ Learned \in [Ids -> Int] /\ Overrunning \in [Ids -> Int]
      /\ Learned' \in [Ids -> Int] /\ Overrunning' \in [Ids -> Int]
  <2>1. \A x \in Ids : KnownCost(x)' \in Nat /\ Overrun(x, KnownCost(x)') \in Nat
    <3>1. \A x \in Ids : KnownCost(x)' \in Nat
      BY KnownCostIsNat
    <3> QED BY <3>1, OverrunIsNat
  <2> QED BY <2>1, KnownCostIsNat DEF Learned, Overrunning
<1>3. /\ Learned'[a] = Learned[a] + cost
      /\ Overrunning'[a] = Overrunning[a] + Overrun(a, cost)
  BY <1>1 DEF Learned, Overrunning
<1>4. \A x \in Ids \ {a} : Learned'[x] = Learned[x] /\ Overrunning'[x] = Overrunning[x]
  BY DEF Learned, Overrunning
<1>5. Summed(Learned') = Summed(Learned) + cost
  BY <1>2, <1>3, <1>4, SummedMoves
<1>6. Summed(Overrunning') = Summed(Overrunning) + Overrun(a, cost)
  BY <1>1, <1>2, <1>3, <1>4, SummedMoves
<1> QED BY <1>5, <1>6

LEMMA SumsInitially == SpendInit => SumsHold
<1> SUFFICES ASSUME SpendInit PROVE SumsHold
  OBVIOUS
<1>1. \A a \in Ids : KnownCost(a) = 0 /\ Overrun(a, KnownCost(a)) = 0
  BY AmountIsNat, AmountsAssumption DEF SpendInit, KnownCost, Overrun, Greater
<1>2. \A a \in Ids : Claimed[a] = 0 /\ Learned[a] = 0 /\ Overrunning[a] = 0
  BY <1>1 DEF SpendInit, Claimed, Reserved, Learned, Overrunning
<1>3. Total(Claimed, Ids) = 0 /\ Total(Learned, Ids) = 0 /\ Total(Overrunning, Ids) = 0
  BY <1>2, IdsFinite, SumsOfNothing
<1> QED BY <1>3 DEF SpendInit, SumsHold, Summed, Total

LEMMA SumsStep ==
    ASSUME BudgetIInv, SumsHold, [SpendNext]_spendVars
    PROVE  SumsHold'
<1>0. SpendTypeOK /\ SpendTypeOK'
  BY BudgetStep DEF BudgetIInv, BudgetInv
<1>1. ASSUME NEW a \in Ids, NEW cap \in Caps, NEW share \in Caps, ClaimSpend(a, cap, share)
      PROVE  SumsHold'
  <2>1. Learned' = Learned /\ Overrunning' = Overrunning
    BY <1>1 DEF ClaimSpend, Learned, Overrunning, KnownCost
  <2>2. daily'.known = daily.known /\ daily'.overrun = daily.overrun
    BY <1>0, <1>1 DEF ClaimSpend, SpendTypeOK, DailyRows
  <2>3. daily'.reserved = Summed(Claimed')
    <3>1. CASE Fits(a, cap, share)
      <4>1. Reserved' = Reserved \cup {a} /\ a \notin Reserved
        BY <1>0, <1>1, <3>1 DEF ClaimSpend, Reserved, SpendTypeOK
      <4>2. Claimed \in [Ids -> Int] /\ Claimed' \in [Ids -> Int] /\ Amount(a) \in Int
        BY <1>0, AmountIsNat DEF Claimed
      <4>3. /\ Claimed'[a] = Claimed[a] + Amount(a)
            /\ \A x \in Ids \ {a} : Claimed'[x] = Claimed[x]
        BY <4>1, AmountIsNat DEF Claimed
      <4>4. Summed(Claimed') = Summed(Claimed) + Amount(a)
        BY <4>2, <4>3, SummedMoves
      <4>5. daily'.reserved = daily.reserved + Amount(a)
        BY <1>0, <1>1, <3>1 DEF ClaimSpend, SpendTypeOK, DailyRows
      <4> QED BY <4>4, <4>5 DEF SumsHold
    <3>2. CASE ~Fits(a, cap, share)
      <4>1. Claimed' = Claimed
        BY <1>0, <1>1, <3>2 DEF ClaimSpend, Reserved, Claimed, SpendTypeOK
      <4>2. daily'.reserved = daily.reserved
        BY <1>0, <1>1, <3>2 DEF ClaimSpend, SpendTypeOK, DailyRows
      <4> QED BY <4>1, <4>2 DEF SumsHold
    <3> QED BY <3>1, <3>2
  <2> QED BY <2>1, <2>2, <2>3 DEF SumsHold
<1>2. ASSUME NEW a \in Ids, NEW cost \in Costs \cup {0, Unknown}, RecordUsage(a, cost)
      PROVE  SumsHold'
  <2>1. KnownCost(a) = 0 /\ \A x \in Ids \ {a} : KnownCost(x)' = KnownCost(x)
    BY <1>0, <1>2, AmountsAssumption DEF RecordUsage, SpendTypeOK, KnownCost
  <2>2. Claimed' = Claimed /\ daily'.reserved = daily.reserved
    BY <1>0, <1>2 DEF RecordUsage, Claimed, Reserved, SpendTypeOK, DailyRows
  <2>3. CASE cost = Unknown
    <3>1. KnownCost(a)' = 0
      BY <1>0, <1>2, <2>3, AmountsAssumption DEF RecordUsage, SpendTypeOK, KnownCost
    <3>2. Learned' = Learned /\ Overrunning' = Overrunning
      BY <2>1, <3>1 DEF Learned, Overrunning
    <3>3. daily'.known = daily.known /\ daily'.overrun = daily.overrun
      BY <1>0, <1>2, <2>3 DEF RecordUsage, SpendTypeOK, DailyRows, Overrun
    <3> QED BY <2>2, <3>2, <3>3 DEF SumsHold
  <2>4. CASE cost # Unknown
    <3>1. cost \in Nat /\ KnownCost(a)' = cost
      BY <1>0, <1>2, <2>4, AmountsAssumption DEF RecordUsage, SpendTypeOK, KnownCost
    <3>2. /\ daily'.known = daily.known + cost
          /\ daily'.overrun = daily.overrun + Overrun(a, cost)
      BY <1>0, <1>2, <2>4 DEF RecordUsage, SpendTypeOK, DailyRows
    <3>3. /\ Summed(Learned') = Summed(Learned) + cost
          /\ Summed(Overrunning') = Summed(Overrunning) + Overrun(a, cost)
      BY <1>0, <2>1, <3>1, CostLearned
    <3> QED BY <2>2, <3>2, <3>3 DEF SumsHold
  <2> QED BY <2>3, <2>4
<1>3. ASSUME NEW a \in Ids, NEW cost \in Costs, Reconcile(a, cost)
      PROVE  SumsHold'
  <2>1. /\ cost \in Nat /\ KnownCost(a) = 0 /\ KnownCost(a)' = cost
        /\ \A x \in Ids \ {a} : KnownCost(x)' = KnownCost(x)
    BY <1>0, <1>3, AmountsAssumption DEF Reconcile, SpendTypeOK, KnownCost
  <2>2. Claimed' = Claimed /\ daily'.reserved = daily.reserved
    BY <1>0, <1>3 DEF Reconcile, Claimed, Reserved, SpendTypeOK, DailyRows
  <2>3. /\ daily'.known = daily.known + cost
        /\ daily'.overrun = daily.overrun + Overrun(a, cost)
    BY <1>0, <1>3 DEF Reconcile, SpendTypeOK, DailyRows
  <2>4. /\ Summed(Learned') = Summed(Learned) + cost
        /\ Summed(Overrunning') = Summed(Overrunning) + Overrun(a, cost)
    BY <1>0, <2>1, CostLearned
  <2> QED BY <2>2, <2>3, <2>4 DEF SumsHold
<1>4. CASE UNCHANGED spendVars
  <2>1. Claimed' = Claimed /\ Learned' = Learned /\ Overrunning' = Overrunning
    BY <1>4 DEF spendVars, Claimed, Reserved, Learned, Overrunning, KnownCost
  <2> QED BY <1>4, <2>1 DEF spendVars, SumsHold
<1> QED BY <1>1, <1>2, <1>3, <1>4 DEF SpendNext

\* The day's row adds up: what is reserved, known, unknown and overrun is what
\* the claims, the facts and the corrections say (system-spend.ts 567-600,
\* 805-830, 900-918).
THEOREM DailyRowAddsUp == SpendSpec => []BooksAgree
<1>1. BudgetIInv /\ SumsHold /\ [SpendNext]_spendVars => SumsHold'
  BY SumsStep
<1>2. BudgetIInv /\ SumsHold => BooksAgree
  BY DEF BudgetIInv, BudgetInv, UnknownCounted, Uncorrected, SumsHold, BooksAgree,
         Claimed, Learned, Overrunning
<1> QED BY BudgetAlways, SumsInitially, <1>1, <1>2, PTL DEF SpendSpec

\* The rows of the budget hold what their columns admit: the calls of unknown
\* cost are never counted below zero (system-spend.ts 909-918).
THEOREM SpendTypes == SpendSpec => []SpendTypeOK
<1>1. BudgetIInv => SpendTypeOK
  BY DEF BudgetIInv, BudgetInv
<1> QED BY BudgetAlways, <1>1, PTL

\* Whatever caps the documents carry, what is reserved is within the day's cap
\* and that within the release ceiling (system-spend.ts 512-600).
THEOREM ReservationsWithinCap == SpendSpec => []ReservedWithinCap
<1>1. BudgetIInv => ReservedWithinCap
  BY DEF BudgetIInv, BudgetInv
<1> QED BY BudgetAlways, <1>1, PTL

\* The Sample Spins never reserve more than their share, which is counted
\* from their own claims (system-spend.ts 543-566).
THEOREM SpinsKeepTheirShare == SpendSpec => []SpinsWithinShare
<1>1. BudgetIInv => SpinsWithinShare
  BY DEF BudgetIInv, BudgetInv
<1> QED BY BudgetAlways, <1>1, PTL

\* A day that was closed is not reopened by any later document
\* (system-spend.ts 533-541).
THEOREM CapNeverReopens == SpendSpec => CapOnlyTightens
<1>1. BudgetIInv /\ [SpendNext]_spendVars => [daily'.cap <= daily.cap]_spendVars
  BY BudgetStep
<1> QED BY BudgetAlways, <1>1, PTL DEF SpendSpec, CapOnlyTightens

\* Both limits of a day hold together, whatever order documents and claims of
\* either purpose came in (system-spend.ts 512-600).
THEOREM SpendsWithinCaps == SpendSpec => []SpendWithinCaps
BY ReservationsWithinCap, SpinsKeepTheirShare, PTL DEF SpendWithinCaps

-----------------------------------------------------------------------------
(***************************************************************************)
(* The pasted reference: its steps are steps of the budget, its refund is  *)
(* final, and no attempt that may have cost something is out of recovery's *)
(* reach.                                                                  *)
(***************************************************************************)

allVars == <<spendVars, autopsyVars>>

(***************************************************************************)
(* Every step of the work is a step of the budget.                         *)
(***************************************************************************)
\* The claim an autopsy makes is the budget's: the Sample Spins' share is not
\* looked at for one.
LEMMA AutopsyClaims ==
    ASSUME NEW a \in AutopsyIds, NEW cap \in Caps, AutopsyStart(a, cap)
    PROVE  ClaimSpend(a, cap, cap)
<1>1. a \notin SpinIds
  BY AmountsAssumption
<1>2. Fits(a, cap, 0) <=> Fits(a, cap, cap)
  BY <1>1 DEF Fits
<1> QED BY <1>2 DEF AutopsyStart, ClaimSpend

LEMMA AutopsyStepSpends ==
    ASSUME AutopsyTypeOK, [AutopsyNext]_allVars
    PROVE  [SpendNext]_spendVars
<1> AutopsyIds \subseteq Ids
  BY DEF Ids
<1>1. CASE Paste \/ SettleParked \/ AutopsyLeaseEnds \/ Tombstone \/ Restore \/ Pause
  BY <1>1 DEF Paste, SettleParked, AutopsyLeaseEnds, Tombstone, Restore, Pause
<1>2. CASE RecoverStale
  <2>1. cache.active \in Ids
    BY <1>2 DEF RecoverStale, AutopsyTypeOK
  <2> QED BY <1>2, <2>1 DEF RecoverStale, SpendNext
<1>3. ASSUME NEW a \in AutopsyIds, AutopsyDispatch(a) \/ WorkerDies(a)
      PROVE  [SpendNext]_spendVars
  BY <1>3 DEF AutopsyDispatch, WorkerDies
<1>4. ASSUME NEW a \in AutopsyIds, NEW cap \in Caps, AutopsyStart(a, cap)
      PROVE  [SpendNext]_spendVars
  BY <1>4, AutopsyClaims DEF SpendNext
<1>5. ASSUME NEW a \in AutopsyIds, BookRefusal(a)
      PROVE  [SpendNext]_spendVars
  BY <1>5 DEF BookRefusal, SpendNext
<1>6. ASSUME NEW a \in AutopsyIds, NEW succeeded \in BOOLEAN, NEW cost \in Costs \cup {Unknown},
             Finalize(a, succeeded, cost)
      PROVE  [SpendNext]_spendVars
  BY <1>6 DEF Finalize, SpendNext
<1>7. CASE UNCHANGED allVars
  BY <1>7 DEF allVars
<1> QED BY <1>1, <1>2, <1>3, <1>4, <1>5, <1>6, <1>7 DEF AutopsyNext

(***************************************************************************)
(* What the creator is owed, by the claim's status: a claim is charged     *)
(* when it is made, refunded only parked and answered only completed, and  *)
(* neither of those is ever left.                                          *)
(***************************************************************************)
OwedByStatus ==
    /\ money.debits = IF cache.status = "none" THEN 0 ELSE 1
    /\ money.refunds \in {0, 1} /\ (money.refunds = 1 => cache.status = "parked")
    /\ given \in {0, 1} /\ (given = 1 => cache.status = "completed")

WorkInv == AutopsyTypeOK /\ OwedByStatus /\ UnbookedIsFindable

LEMMA WorkInitially == SpendInit /\ AutopsyInit => WorkInv
<1> SUFFICES ASSUME SpendInit, AutopsyInit PROVE WorkInv
  OBVIOUS
<1>1. money \in [credits : Nat, debits : {0}, refunds : {0}]
  BY TriesAssumption DEF AutopsyInit
<1>3. AutopsyTypeOK
  <2>1. 1 \in 1..MaxTries
    BY TriesAssumption
  <2> QED BY <1>1, <2>1 DEF AutopsyInit, AutopsyTypeOK
<1>4. OwedByStatus
  BY <1>1 DEF AutopsyInit, OwedByStatus
<1>2. UnbookedIsFindable
  BY DEF SpendInit, UnbookedIsFindable, Unbooked, Ids
<1> QED BY <1>2, <1>3, <1>4 DEF WorkInv

\* Rows as their types say, for the provers to keep apart.
CacheRows == [status : {"none", "pending", "failed", "completed", "parked"},
              tries : 1..MaxTries, active : AutopsyIds \cup {None},
              leased : BOOLEAN, tombstoned : BOOLEAN]
MoneyRows == [credits : Nat, debits : Nat, refunds : Nat]

\* What the claim's row may be after a step that ends or holds an attempt.
LEMMA EndedTypes ==
    ASSUME AutopsyTypeOK
    PROVE  /\ Ended \in CacheRows /\ ~Ended.leased /\ Ended.active = None
           /\ Ended.status \in {"failed", "parked"}
BY DEF AutopsyTypeOK, Ended, CacheRows

LEMMA HeldTypes ==
    ASSUME AutopsyTypeOK, NEW a \in AutopsyIds, Startable
    PROVE  /\ Held(a) \in CacheRows /\ Held(a).active = a /\ Held(a).status = "pending"
<1>1. cache \in CacheRows
  BY DEF AutopsyTypeOK, CacheRows
<1>2. (IF cache.status = "failed" THEN cache.tries + 1 ELSE cache.tries) \in 1..MaxTries
  BY <1>1, TriesAssumption DEF CacheRows, Startable
<1> QED BY <1>1, <1>2 DEF CacheRows, Held

LEMMA AutopsyTypesStep ==
    ASSUME WorkInv, [AutopsyNext]_allVars
    PROVE  AutopsyTypeOK'
<1> DEFINE Cached(row) == /\ row \in CacheRows /\ (row.leased => row.active # None)
                          /\ (row.active # None => row.status = "pending")
           Rest == /\ job \in [AutopsyIds -> {"unsent", "queued", "running", "over"}]
                   /\ owner \in [live : BOOLEAN, paused : BOOLEAN]
                   /\ given \in Nat
<1>0. AutopsyTypeOK /\ Cached(cache) /\ money \in MoneyRows /\ Rest
  BY DEF WorkInv, AutopsyTypeOK, CacheRows, MoneyRows
<1> SUFFICES Cached(cache)' /\ money' \in MoneyRows /\ Rest'
  BY DEF AutopsyTypeOK, CacheRows, MoneyRows
<1>1. CASE Paste
  <2>1. money.credits - Price \in Nat /\ money.debits + 1 \in Nat
    BY <1>0, <1>1, TriesAssumption DEF Paste, MoneyRows
  <2>2. money' \in MoneyRows
    BY <1>0, <1>1, <2>1 DEF Paste, MoneyRows
  <2>3. Cached(cache')
    BY <1>0, <1>1 DEF Paste, CacheRows
  <2> QED BY <1>0, <1>1, <2>2, <2>3 DEF Paste
<1>2. CASE SettleParked
  <2>1. money.credits + Price \in Nat /\ money.refunds + 1 \in Nat
    BY <1>0, <1>2, TriesAssumption DEF SettleParked, MoneyRows
  <2>2. money' \in MoneyRows
    BY <1>0, <1>2, <2>1 DEF SettleParked, MoneyRows
  <2> QED BY <1>0, <1>2, <2>2 DEF SettleParked
<1>3. CASE AutopsyLeaseEnds
  BY <1>0, <1>3 DEF AutopsyLeaseEnds, CacheRows
<1>4. CASE RecoverStale
  BY <1>0, <1>4, EndedTypes DEF RecoverStale
<1>5. CASE Tombstone
  <2>1. Cached(cache')
    BY <1>0, <1>5 DEF Tombstone, CacheRows
  <2> QED BY <1>0, <1>5, <2>1 DEF Tombstone
<1>6. CASE Restore \/ Pause
  BY <1>0, <1>6 DEF Restore, Pause
<1>7. ASSUME NEW a \in AutopsyIds, AutopsyDispatch(a) \/ BookRefusal(a) \/ WorkerDies(a)
      PROVE  Cached(cache)' /\ money' \in MoneyRows /\ Rest'
  BY <1>0, <1>7 DEF AutopsyDispatch, BookRefusal, WorkerDies, autopsyVars
<1>8. ASSUME NEW a \in AutopsyIds, NEW cap \in Caps, AutopsyStart(a, cap)
      PROVE  Cached(cache)' /\ money' \in MoneyRows /\ Rest'
  <2>1. Cached(Held(a)) /\ a # None
    BY <1>0, <1>8, HeldTypes, AmountsAssumption DEF AutopsyStart
  <2>2. Cached(cache')
    BY <1>0, <1>8, <2>1 DEF AutopsyStart
  <2> QED BY <1>0, <1>8, <2>2 DEF AutopsyStart
<1>9. ASSUME NEW a \in AutopsyIds, NEW succeeded \in BOOLEAN, NEW cost \in Costs \cup {Unknown},
             Finalize(a, succeeded, cost)
      PROVE  Cached(cache)' /\ money' \in MoneyRows /\ Rest'
  <2>1. Cached(cache')
    <3>1. \/ cache' = cache
          \/ cache' = [cache EXCEPT !.status = "parked", !.active = None,
                                    !.leased = FALSE, !.tombstoned = TRUE]
          \/ cache' = [cache EXCEPT !.status = "completed", !.active = None, !.leased = FALSE]
          \/ cache' = Ended
      BY <1>9 DEF Finalize
    <3> QED BY <1>0, <3>1, EndedTypes DEF CacheRows
  <2>2. given' \in Nat
    BY <1>0, <1>9 DEF Finalize
  <2> QED BY <1>0, <1>9, <2>1, <2>2 DEF Finalize
<1>10. CASE UNCHANGED allVars
  BY <1>0, <1>10 DEF allVars, autopsyVars
<1> QED
  BY <1>1, <1>2, <1>3, <1>4, <1>5, <1>6, <1>7, <1>8, <1>9, <1>10 DEF AutopsyNext

LEMMA OwedStep ==
    ASSUME WorkInv, [AutopsyNext]_allVars
    PROVE  OwedByStatus'
<1>0. /\ AutopsyTypeOK /\ OwedByStatus /\ cache \in CacheRows /\ money \in MoneyRows
  BY DEF WorkInv, AutopsyTypeOK, CacheRows, MoneyRows
<1>1. CASE Paste
  <2>1. /\ cache.status = "none" /\ cache'.status = "pending"
        /\ money'.debits = 1 /\ money'.refunds = money.refunds /\ given' = given
    BY <1>0, <1>1 DEF Paste, CacheRows, MoneyRows, OwedByStatus
  <2> QED BY <1>0, <2>1 DEF OwedByStatus
<1>2. CASE SettleParked
  <2>1. /\ cache' = cache /\ cache.status = "parked" /\ given' = given
        /\ money'.debits = money.debits /\ money'.refunds = 1
    BY <1>0, <1>2 DEF SettleParked, MoneyRows, OwedByStatus
  <2> QED BY <1>0, <2>1 DEF OwedByStatus
<1>3. ASSUME money' = money, given' = given,
             \/ cache'.status = cache.status
             \/ /\ cache.status \in {"pending", "failed"}
                /\ cache'.status \in {"pending", "failed", "parked"}
      PROVE  OwedByStatus'
  BY <1>0, <1>3 DEF OwedByStatus
<1>4. CASE AutopsyLeaseEnds \/ Restore \/ Pause
  BY <1>0, <1>3, <1>4 DEF AutopsyLeaseEnds, Restore, Pause, CacheRows
<1>5. CASE RecoverStale
  BY <1>0, <1>3, <1>5, EndedTypes DEF RecoverStale
<1>6. CASE Tombstone
  BY <1>0, <1>3, <1>6 DEF Tombstone, CacheRows
<1>7. ASSUME NEW a \in AutopsyIds, AutopsyDispatch(a) \/ BookRefusal(a) \/ WorkerDies(a)
      PROVE  OwedByStatus'
  BY <1>3, <1>7 DEF AutopsyDispatch, BookRefusal, WorkerDies, autopsyVars
<1>8. ASSUME NEW a \in AutopsyIds, NEW cap \in Caps, AutopsyStart(a, cap)
      PROVE  OwedByStatus'
  BY <1>0, <1>3, <1>8, HeldTypes DEF AutopsyStart, Startable
<1>9. ASSUME NEW a \in AutopsyIds, NEW succeeded \in BOOLEAN, NEW cost \in Costs \cup {Unknown},
             Finalize(a, succeeded, cost)
      PROVE  OwedByStatus'
  <2>1. CASE ~(usage[a] = None /\ Owned(a))
    BY <1>3, <1>9, <2>1 DEF Finalize
  <2>2. CASE usage[a] = None /\ Owned(a) /\ ~owner.live
    <3>1. cache'.status = "parked" /\ cache.status \in {"pending", "parked"}
      BY <1>0, <1>9, <2>2 DEF Finalize, Owned, CacheRows
    <3> QED BY <1>3, <1>9, <2>2, <3>1 DEF Finalize
  <2>3. CASE usage[a] = None /\ Owned(a) /\ owner.live
    <3>1. cache.status = "pending" /\ given = 0 /\ money' = money
      BY <1>0, <1>9, <2>3 DEF Finalize, Owned, OwedByStatus
    <3>2. CASE succeeded
      <4>1. cache'.status = "completed" /\ given' = 1
        <5>1. /\ cache' = [cache EXCEPT !.status = "completed", !.active = None,
                                        !.leased = FALSE]
              /\ given' = given + 1
          BY <1>9, <2>3, <3>2 DEF Finalize
        <5> QED BY <1>0, <3>1, <5>1 DEF CacheRows
      <4> QED BY <1>0, <3>1, <4>1 DEF OwedByStatus
    <3>3. CASE ~succeeded
      <4>1. cache' = Ended /\ given' = given
        BY <1>9, <2>3, <3>3 DEF Finalize
      <4> QED BY <1>0, <1>3, <3>1, <4>1, EndedTypes
    <3> QED BY <3>2, <3>3
  <2> QED BY <2>1, <2>2, <2>3
<1>10. CASE UNCHANGED allVars
  BY <1>3, <1>10 DEF allVars, autopsyVars
<1> QED
  BY <1>1, <1>2, <1>4, <1>5, <1>6, <1>7, <1>8, <1>9, <1>10 DEF AutopsyNext

LEMMA FindableStep ==
    ASSUME WorkInv, SpendTypeOK, [AutopsyNext]_allVars
    PROVE  UnbookedIsFindable'
<1> USE DEF WorkInv, AutopsyTypeOK, UnbookedIsFindable, Unbooked
<1>0. AutopsyIds \subseteq Ids /\ None \notin AutopsyIds
  BY AmountsAssumption DEF Ids
<1>1. CASE Paste \/ SettleParked \/ Tombstone \/ Restore \/ Pause \/ AutopsyLeaseEnds
  BY ZenonT(60), <1>1 DEF Paste, SettleParked, Tombstone, Restore, Pause, AutopsyLeaseEnds, spendVars
<1>2. CASE RecoverStale
  BY <1>0, <1>2, AmountsAssumption DEF RecoverStale, RecordUsage, SpendTypeOK
<1>3. ASSUME NEW a \in AutopsyIds, AutopsyDispatch(a) \/ WorkerDies(a)
      PROVE  UnbookedIsFindable'
  BY <1>3 DEF AutopsyDispatch, WorkerDies, spendVars
<1>4. ASSUME NEW a \in AutopsyIds, NEW cap \in Caps, AutopsyStart(a, cap)
      PROVE  UnbookedIsFindable'
  <2>1. \A b \in AutopsyIds : ~Unbooked(b)
    BY <1>0, <1>4 DEF AutopsyStart, Startable
  <2>2. \A b \in AutopsyIds \ {a} : ~Unbooked(b)'
    BY <1>0, <1>4, <2>1 DEF AutopsyStart, ClaimSpend, SpendTypeOK
  <2>3. claims'[a] = "reserved" => cache'.status = "pending" /\ cache'.active = a
    BY <1>4 DEF AutopsyStart, Held
  <2> QED BY <2>2, <2>3
<1>5. ASSUME NEW a \in AutopsyIds, BookRefusal(a)
      PROVE  UnbookedIsFindable'
  BY <1>0, <1>5 DEF BookRefusal, RecordUsage, autopsyVars, SpendTypeOK
<1>6. ASSUME NEW a \in AutopsyIds, NEW succeeded \in BOOLEAN, NEW cost \in Costs \cup {Unknown},
             Finalize(a, succeeded, cost)
      PROVE  UnbookedIsFindable'
  <2>1. CASE usage[a] = None /\ Owned(a)
    <3>1. claims' = claims /\ usage' = [usage EXCEPT ![a] = cost] /\ cost # None
      BY <1>6, <2>1, AmountsAssumption DEF Finalize, RecordUsage
    <3>2. ~Unbooked(a)'
      BY <1>0, <3>1 DEF SpendTypeOK
    <3>3. CASE cache.status = "pending" /\ cache.active = a
      <4>1. \A b \in AutopsyIds \ {a} : ~Unbooked(b)
        BY <3>3
      <4> QED BY <1>0, <3>1, <3>2, <4>1 DEF SpendTypeOK
    <3>4. CASE cache.status = "parked" /\ cache.tombstoned /\ ~owner.live
      <4>1. cache'.status = "parked" /\ cache'.tombstoned
        BY ZenonT(30), <1>6, <2>1, <3>4 DEF Finalize
      <4> QED BY <4>1
    <3> QED BY <2>1, <3>3, <3>4 DEF Owned
  <2>2. CASE ~(usage[a] = None /\ Owned(a))
    BY <1>6, <2>2 DEF Finalize, spendVars
  <2> QED BY <2>1, <2>2
<1>7. CASE UNCHANGED allVars
  BY <1>7 DEF allVars, autopsyVars, spendVars
<1> QED BY <1>1, <1>2, <1>3, <1>4, <1>5, <1>6, <1>7 DEF AutopsyNext

(***************************************************************************)
(* The attempts that were reserved for the claim, counted by its tries: a  *)
(* claim that no attempt has held yet has one try to spare.                *)
(***************************************************************************)
Tried == Reserved \cap AutopsyIds
Untried == cache.status = "none" \/ (cache.status = "pending" /\ cache.active = None)
TriesCounted == Cardinality(Tried) <= IF Untried THEN cache.tries - 1 ELSE cache.tries

LEMMA TriedFinite == IsFiniteSet(Tried) /\ Cardinality(Tried) \in Nat
<1>1. IsFiniteSet(Tried)
  BY AmountsAssumption, FS_Subset DEF Tried
<1> QED BY <1>1, FS_CardinalityType

LEMMA CountedInitially == SpendInit /\ AutopsyInit => TriesCounted
<1> SUFFICES ASSUME SpendInit, AutopsyInit PROVE TriesCounted
  OBVIOUS
<1>1. Tried = {}
  BY DEF SpendInit, Tried, Reserved
<1>2. Cardinality(Tried) = 0
  BY <1>1, FS_EmptySet
<1> QED BY <1>2 DEF AutopsyInit, TriesCounted, Untried

LEMMA CountedStep ==
    ASSUME WorkInv, SpendTypeOK, TriesCounted, [AutopsyNext]_allVars
    PROVE  TriesCounted'
<1>0. AutopsyTypeOK /\ cache \in CacheRows /\ cache.tries \in Nat
  BY TriesAssumption DEF WorkInv, AutopsyTypeOK, CacheRows
<1>1. ASSUME claims' = claims, cache'.tries = cache.tries,
             Untried' => Untried
      PROVE  TriesCounted'
  <2>1. Tried' = Tried
    BY <1>1 DEF Tried, Reserved
  <2> QED BY <1>0, <1>1, <2>1, TriedFinite DEF TriesCounted
<1>2. CASE Paste \/ SettleParked \/ Restore \/ Pause \/ AutopsyLeaseEnds \/ Tombstone
  <2>1. cache'.tries = cache.tries /\ claims' = claims
    BY <1>0, <1>2 DEF Paste, SettleParked, Restore, Pause, AutopsyLeaseEnds, Tombstone,
                      CacheRows, spendVars
  <2>2. \/ cache.status = "none"
        \/ cache'.status = cache.status /\ cache'.active = cache.active
        \/ cache'.status = "parked"
    BY <1>0, <1>2 DEF Paste, SettleParked, Restore, Pause, AutopsyLeaseEnds, Tombstone,
                      CacheRows
  <2>3. Untried' => Untried
    BY <2>2 DEF Untried
  <2> QED BY <1>1, <2>1, <2>3
<1>3. ASSUME claims' = claims, cache' = Ended
      PROVE  TriesCounted'
  <2>1. cache'.tries = cache.tries /\ ~Untried'
    BY <1>0, <1>3, EndedTypes DEF Ended, CacheRows, Untried
  <2> QED BY <1>1, <1>3, <2>1
<1>4. CASE RecoverStale
  BY <1>3, <1>4 DEF RecoverStale, RecordUsage
<1>5. ASSUME NEW a \in AutopsyIds, AutopsyDispatch(a) \/ BookRefusal(a) \/ WorkerDies(a)
      PROVE  TriesCounted'
  <2>1. claims' = claims /\ cache' = cache
    BY <1>5 DEF AutopsyDispatch, BookRefusal, RecordUsage, WorkerDies, spendVars, autopsyVars
  <2> QED BY <1>1, <2>1 DEF Untried
<1>6. ASSUME NEW a \in AutopsyIds, NEW cap \in Caps, AutopsyStart(a, cap)
      PROVE  TriesCounted'
  <2>1. CASE claims'[a] # "reserved"
    <3>1. claims[a] = "none" /\ claims' = [claims EXCEPT ![a] = "refused"] /\ a \in Ids
      BY <1>6, <2>1 DEF AutopsyStart, ClaimSpend, SpendTypeOK, Ids
    <3>2. Tried' = Tried
      BY <3>1 DEF Tried, Reserved, SpendTypeOK
    <3>3. cache' = cache
      BY <1>6, <2>1 DEF AutopsyStart
    <3> QED BY <3>2, <3>3 DEF TriesCounted, Untried
  <2>2. CASE claims'[a] = "reserved"
    <3>1. Tried' = Tried \cup {a} /\ a \notin Tried
      BY <1>6, <2>2 DEF AutopsyStart, ClaimSpend, SpendTypeOK, Ids, Tried, Reserved
    <3>2. Cardinality(Tried') = Cardinality(Tried) + 1
      BY <3>1, TriedFinite, FS_AddElement
    <3>3. cache' = Held(a) /\ a # None
      BY <1>6, <2>2, AmountsAssumption DEF AutopsyStart
    <3>4. ~Untried'
      BY <1>0, <1>6, <3>3, HeldTypes DEF AutopsyStart, Untried
    <3>5. CASE cache.status = "failed"
      <4>1. cache'.tries = cache.tries + 1 /\ ~Untried
        BY <1>0, <3>3, <3>5 DEF Held, CacheRows, Untried
      <4> QED BY <1>0, <3>2, <3>4, <4>1, TriedFinite DEF TriesCounted
    <3>6. CASE cache.status # "failed"
      <4>1. cache'.tries = cache.tries /\ Untried
        BY <1>0, <1>6, <3>3, <3>6 DEF AutopsyStart, Startable, Held, CacheRows, Untried
      <4> QED BY <1>0, <3>2, <3>4, <4>1, TriedFinite DEF TriesCounted
    <3> QED BY <3>5, <3>6
  <2> QED BY <2>1, <2>2
<1>7. ASSUME NEW a \in AutopsyIds, NEW succeeded \in BOOLEAN, NEW cost \in Costs \cup {Unknown},
             Finalize(a, succeeded, cost)
      PROVE  TriesCounted'
  <2>1. claims' = claims
    BY <1>7 DEF Finalize, RecordUsage, spendVars
  <2>2. \/ cache' = cache
        \/ cache' = [cache EXCEPT !.status = "parked", !.active = None,
                                  !.leased = FALSE, !.tombstoned = TRUE]
        \/ cache' = [cache EXCEPT !.status = "completed", !.active = None, !.leased = FALSE]
        \/ cache' = Ended
    BY <1>7 DEF Finalize
  <2>3. CASE cache' = Ended
    BY <1>3, <2>1, <2>3
  <2>4. CASE cache' # Ended
    <3>1. cache'.tries = cache.tries /\ (Untried' => Untried)
      BY <1>0, <2>2, <2>4 DEF CacheRows, Untried
    <3> QED BY <1>1, <2>1, <3>1
  <2> QED BY <2>3, <2>4
<1>8. CASE UNCHANGED allVars
  BY <1>1, <1>8 DEF allVars, spendVars, autopsyVars, Untried
<1> QED BY <1>2, <1>4, <1>5, <1>6, <1>7, <1>8 DEF AutopsyNext

-----------------------------------------------------------------------------
WorkIInv == WorkInv /\ BudgetIInv /\ TriesCounted

LEMMA WorkAlways == AutopsySpec => []WorkIInv
<1>1. SpendInit /\ AutopsyInit => WorkIInv
  BY WorkInitially, BudgetInitially, CountedInitially DEF WorkIInv
<1>2. WorkIInv /\ [AutopsyNext]_allVars => WorkIInv'
  <2> SUFFICES ASSUME WorkInv, BudgetIInv, TriesCounted, [AutopsyNext]_allVars
               PROVE  WorkInv' /\ BudgetIInv' /\ TriesCounted'
    BY DEF WorkIInv
  <2>1. BudgetIInv'
    BY AutopsyStepSpends, BudgetStep DEF WorkInv
  <2>2. SpendTypeOK
    BY DEF BudgetIInv, BudgetInv
  <2>3. WorkInv'
    BY <2>2, AutopsyTypesStep, OwedStep, FindableStep DEF WorkInv
  <2>4. TriesCounted'
    BY <2>2, CountedStep
  <2> QED BY <2>1, <2>3, <2>4
<1> QED BY <1>1, <1>2, PTL DEF AutopsySpec, allVars

\* The autopsies spend as the budget specifies: its theorems hold of them, in
\* whatever order jobs are delivered, workers die and recovery runs.
THEOREM AutopsiesSpendWithinBudget == AutopsySpec => SpendSpec
<1>1. WorkIInv /\ [AutopsyNext]_allVars => [SpendNext]_spendVars
  BY AutopsyStepSpends DEF WorkIInv, WorkInv
<1> QED BY WorkAlways, <1>1, PTL DEF AutopsySpec, SpendSpec, allVars

\* Only a pending claim names an attempt or has a lease, and no claim is tried
\* past its ceiling (system-spend.ts 1157-1380, 1383-1600).
THEOREM AutopsyTypes == AutopsySpec => []AutopsyTypeOK
<1>1. WorkIInv => AutopsyTypeOK
  BY DEF WorkIInv, WorkInv
<1> QED BY WorkAlways, <1>1, PTL

\* A creator is charged once and given back at most that, and never both given
\* back and answered (pasted-reference.ts, settleParkedAutopsies).
THEOREM RefundsAreFinal == AutopsySpec => []RefundIsFinal
<1>1. WorkIInv => RefundIsFinal
  BY DEF WorkIInv, WorkInv, OwedByStatus, RefundIsFinal
<1> QED BY WorkAlways, <1>1, PTL

\* The vendor is paid for no more attempts of one claim than the ceiling,
\* however often its job is delivered and its worker written off.
THEOREM TriesAreBounded == AutopsySpec => []TriesWithinCeiling
<1>1. WorkIInv => TriesWithinCeiling
  <2> SUFFICES ASSUME WorkIInv PROVE TriesWithinCeiling
    OBVIOUS
  <2>1. cache.tries \in 1..MaxTries /\ TriesCounted
    BY DEF WorkIInv, WorkInv, AutopsyTypeOK
  <2>2. Cardinality(Tried) <= MaxTries
    BY <2>1, TriedFinite, TriesAssumption DEF TriesCounted
  <2> QED BY <2>2 DEF TriesWithinCeiling, Tried
<1> QED BY WorkAlways, <1>1, PTL

\* An attempt that may have cost something and left no fact of it is the one
\* recovery selects, or was parked by a deletion (system-spend.ts 192-283).
THEOREM UnbookedAreFindable == AutopsySpec => []UnbookedIsFindable
<1>1. WorkIInv => UnbookedIsFindable
  BY DEF WorkIInv, WorkInv
<1> QED BY WorkAlways, <1>1, PTL

\* Every attempt the vendor was paid for is within the ceiling and has its fact
\* or its trace (system-spend.ts 1157-1380, 1620-1680).
THEOREM AttemptsAreAccounted == AutopsySpec => []AttemptsAccounted
BY TriesAreBounded, UnbookedAreFindable, PTL DEF AttemptsAccounted

-----------------------------------------------------------------------------
(***************************************************************************)
(* The public Sample Spin: its steps are steps of the budget, an address   *)
(* has one window through every rotation, and what its calls cost is booked.*)
(***************************************************************************)

requestVars == <<spendVars, spinVars>>

Writing == {"calling", "answered", "recording", "correcting"}

\* What each place of a handler says of its claim and its facts: until it has
\* booked its own cost, only recovery can have booked one, as unknown.
PlaceAgrees(r) ==
    /\ spin[r].at # "new" => claims[r] = "reserved"
    /\ usage[r] # None => claims[r] # "none"
    /\ spin[r].at = "calling" => r \notin old /\ usage[r] = None
    /\ spin[r].at \in Writing => usage[r] \in {None, Unknown} /\ adjusted[r] = None
    /\ spin[r].at = "correcting" => usage[r] = Unknown /\ spin[r].cost # Unknown
    /\ spin[r].at = "over" => spin[r].cost \in {usage[r], adjusted[r]}

\* A window is under a key that is still looked up, one for each address.
WindowsHeld ==
    /\ \A b \in buckets : b.version \in {keyring.current, keyring.prior}
    /\ OneWindowPerVisitor

SpinInv == SpinTypeOK /\ (\A r \in SpinIds : PlaceAgrees(r)) /\ WindowsHeld /\ VendorsWithinLimit

LEMMA SpinStepSpends ==
    ASSUME SpinInv, [SpinNext]_requestVars
    PROVE  [SpendNext]_spendVars
<1> SpinIds \subseteq Ids
  BY DEF Ids
<1>0. \A r \in SpinIds : /\ spin[r].cost \in Costs \cup {Unknown}
                         /\ spin[r].at = "correcting" => spin[r].cost \in Costs
  BY DEF SpinInv, SpinTypeOK, PlaceAgrees
<1>1. ASSUME NEW r \in SpinIds, NEW v \in Visitors, NEW cap \in Caps, NEW share \in Caps,
             Admit(r, v, cap, share)
      PROVE  [SpendNext]_spendVars
  BY <1>1 DEF Admit, SpendNext
<1>2. CASE \E b \in buckets : WindowEnds(b)
  BY <1>2 DEF WindowEnds
<1>3. CASE Rotate
  BY <1>3 DEF Rotate
<1>4. ASSUME NEW r \in SpinIds, NEW cost \in Costs \cup {Unknown}, Answered(r, cost)
      PROVE  [SpendNext]_spendVars
  BY <1>4 DEF Answered
<1>5. ASSUME NEW r \in SpinIds, FinaliseReads(r) \/ HandlerDies(r) \/ Ages(r)
      PROVE  [SpendNext]_spendVars
  BY <1>5 DEF FinaliseReads, HandlerDies, Ages
<1>6. ASSUME NEW r \in SpinIds, FinaliseRecords(r)
      PROVE  [SpendNext]_spendVars
  BY <1>0, <1>6 DEF FinaliseRecords, SpendNext
<1>7. ASSUME NEW r \in SpinIds, FinaliseCorrects(r) \/ RecoverSpin(r)
      PROVE  [SpendNext]_spendVars
  BY <1>0, <1>7 DEF FinaliseCorrects, RecoverSpin, SpendNext
<1>8. CASE UNCHANGED requestVars
  BY <1>8 DEF requestVars
<1> QED BY <1>1, <1>2, <1>3, <1>4, <1>5, <1>6, <1>7, <1>8 DEF SpinNext

LEMMA SpinInitially == SpendInit /\ SpinInit => SpinInv
<1> SUFFICES ASSUME SpendInit, SpinInit PROVE SpinInv
  OBVIOUS
<1>1. SpinTypeOK
  <2>1. 1 \in 1..MaxVersion /\ 0 \in 0..MaxVersion
    BY VisitsAssumption
  <2> QED BY <2>1 DEF SpinInit, SpinTypeOK
<1>2. \A r \in SpinIds : PlaceAgrees(r)
  BY DEF SpendInit, SpinInit, PlaceAgrees, Writing, Ids
<1>3. WindowsHeld
  BY DEF SpinInit, WindowsHeld, OneWindowPerVisitor
<1>4. VendorsWithinLimit
  <2>1. {r \in SpinIds : spin[r].at = "calling"} = {}
    BY DEF SpinInit
  <2> QED BY <2>1, FS_EmptySet, VisitsAssumption DEF VendorsWithinLimit
<1> QED BY <1>1, <1>2, <1>3, <1>4 DEF SpinInv

LEMMA SpinTypesStep ==
    ASSUME SpinInv, SpendTypeOK, [SpinNext]_requestVars
    PROVE  SpinTypeOK'
<1>0. SpinTypeOK /\ SpinIds \subseteq Ids
  BY DEF SpinInv, Ids
<1> USE DEF SpinTypeOK
<1>1. ASSUME NEW r \in SpinIds, NEW v \in Visitors, NEW cap \in Caps, NEW share \in Caps,
             Admit(r, v, cap, share)
      PROVE  SpinTypeOK'
  <2>1. Reserved \subseteq Reserved' /\ (claims'[r] = "reserved" => r \in Reserved')
    BY <1>0, <1>1 DEF Admit, ClaimSpend, SpendTypeOK, Reserved, Ids
  <2> QED BY <1>0, <1>1, <2>1 DEF Admit
<1>2. ASSUME NEW r \in SpinIds, NEW cost \in Costs \cup {Unknown}, Answered(r, cost)
      PROVE  SpinTypeOK'
  <2>1. Reserved' = Reserved /\ cost \in Nat \cup {Unknown}
    BY <1>2, AmountsAssumption DEF Answered, spendVars, Reserved
  <2> QED BY <1>0, <1>2, <2>1 DEF Answered
<1>3. ASSUME NEW r \in SpinIds,
             FinaliseReads(r) \/ FinaliseRecords(r) \/ FinaliseCorrects(r) \/ HandlerDies(r)
      PROVE  SpinTypeOK'
  <2>1. Reserved' = Reserved
    BY <1>3 DEF FinaliseReads, FinaliseRecords, FinaliseCorrects, HandlerDies, RecordUsage,
                Reconcile, spendVars, Reserved
  <2> QED BY <1>0, <1>3, <2>1
          DEF FinaliseReads, FinaliseRecords, FinaliseCorrects, HandlerDies, Verdict
<1>4. ASSUME NEW r \in SpinIds, Ages(r)
      PROVE  SpinTypeOK'
  BY <1>0, <1>4 DEF Ages, MayAge, spendVars, Reserved
<1>5. ASSUME NEW r \in SpinIds, RecoverSpin(r)
      PROVE  SpinTypeOK'
  BY <1>0, <1>5 DEF RecoverSpin, RecordUsage, spinVars, Reserved
<1>6. CASE \E b \in buckets : WindowEnds(b)
  BY <1>0, <1>6 DEF WindowEnds, spendVars, Reserved
<1>7. CASE Rotate
  BY <1>0, <1>7, VisitsAssumption DEF Rotate, spendVars, Reserved
<1>8. CASE UNCHANGED requestVars
  BY <1>0, <1>8 DEF requestVars, spendVars, spinVars, Reserved
<1> QED BY <1>1, <1>2, <1>3, <1>4, <1>5, <1>6, <1>7, <1>8 DEF SpinNext

LEMMA PlacesStep ==
    ASSUME SpinInv, SpendTypeOK, [SpinNext]_requestVars, NEW q \in SpinIds
    PROVE  PlaceAgrees(q)'
<1>0. /\ SpinTypeOK /\ SpinIds \subseteq Ids /\ PlaceAgrees(q)
      /\ spin[q].cost # None
  BY AmountsAssumption DEF SpinInv, SpinTypeOK, Ids
<1>1. ASSUME NEW r \in SpinIds, NEW v \in Visitors, NEW cap \in Caps, NEW share \in Caps,
             Admit(r, v, cap, share)
      PROVE  PlaceAgrees(q)'
  <2>1. UNCHANGED <<usage, adjusted, old>>
    BY <1>1 DEF Admit, ClaimSpend
  <2>2. CASE q = r /\ claims'[r] = "reserved"
    <3>1. spin'[q].at = "calling" /\ q \notin old
      BY <1>0, <1>1, <2>2 DEF Admit, ClaimSpend, SpinTypeOK, Reserved
    <3>2. usage[q] = None /\ adjusted[q] = None
      BY <1>0, <1>1, <2>2, AmountsAssumption DEF PlaceAgrees, Admit, ClaimSpend, SpendTypeOK
    <3> QED BY <1>0, <2>1, <2>2, <3>1, <3>2 DEF PlaceAgrees, Writing
  <2>3. CASE ~(q = r /\ claims'[r] = "reserved")
    <3>1. spin'[q] = spin[q]
      BY <1>0, <1>1, <2>3 DEF Admit, SpinTypeOK
    <3>2. /\ claims[q] = "reserved" => claims'[q] = "reserved"
          /\ claims[q] # "none" => claims'[q] # "none"
      BY <1>0, <1>1 DEF Admit, ClaimSpend, SpendTypeOK
    <3> QED BY <1>0, <2>1, <3>1, <3>2 DEF PlaceAgrees
  <2> QED BY <2>2, <2>3
<1>2. ASSUME NEW r \in SpinIds, NEW cost \in Costs \cup {Unknown}, Answered(r, cost)
      PROVE  PlaceAgrees(q)'
  <2>1. UNCHANGED <<claims, usage, adjusted, old>>
    BY <1>2 DEF Answered, spendVars
  <2>2. spin'[q] = IF q = r THEN [at |-> "answered", cost |-> cost] ELSE spin[q]
    BY <1>0, <1>2 DEF Answered, SpinTypeOK
  <2> QED BY <1>0, <1>2, <2>1, <2>2 DEF Answered, PlaceAgrees, Writing
<1>3. ASSUME NEW r \in SpinIds, FinaliseReads(r)
      PROVE  PlaceAgrees(q)'
  <2>1. UNCHANGED <<claims, usage, adjusted, old>>
    BY <1>3 DEF FinaliseReads, spendVars
  <2>2. CASE q = r
    <3>1. spin'[q].at = Verdict(q) /\ spin'[q].cost = spin[q].cost
      BY <1>0, <1>3, <2>2 DEF FinaliseReads, SpinTypeOK
    <3> QED BY <1>0, <1>3, <2>1, <2>2, <3>1
            DEF FinaliseReads, PlaceAgrees, Verdict, Writing
  <2>3. CASE q # r
    BY <1>0, <1>3, <2>1, <2>3 DEF FinaliseReads, SpinTypeOK, PlaceAgrees
  <2> QED BY <2>2, <2>3
<1>4. ASSUME NEW r \in SpinIds, FinaliseRecords(r)
      PROVE  PlaceAgrees(q)'
  <2>1. UNCHANGED <<claims, adjusted, old>>
    BY <1>4 DEF FinaliseRecords, RecordUsage, spendVars
  <2>2. CASE q # r
    <3>1. spin'[q] = spin[q] /\ usage'[q] = usage[q]
      BY <1>0, <1>4, <2>2
      DEF FinaliseRecords, SpinTypeOK, RecordUsage, SpendTypeOK, spendVars
    <3> QED BY <1>0, <2>1, <3>1 DEF PlaceAgrees
  <2>3. CASE q = r /\ usage[q] = None
    <3>1. spin'[q].at = "over" /\ spin'[q].cost = spin[q].cost /\ usage'[q] = spin[q].cost
      BY <1>0, <1>4, <2>3 DEF FinaliseRecords, SpinTypeOK, RecordUsage, SpendTypeOK
    <3> QED BY <1>0, <1>4, <2>1, <2>3, <3>1
            DEF FinaliseRecords, PlaceAgrees, Writing
  <2>4. CASE q = r /\ usage[q] # None
    <3>1. spin'[q].at = "thrown" /\ spin'[q].cost = spin[q].cost /\ usage' = usage
      BY <1>0, <1>4, <2>4 DEF FinaliseRecords, SpinTypeOK, spendVars
    <3> QED BY <1>0, <1>4, <2>1, <2>4, <3>1 DEF FinaliseRecords, PlaceAgrees, Writing
  <2> QED BY <2>2, <2>3, <2>4
<1>5. ASSUME NEW r \in SpinIds, FinaliseCorrects(r)
      PROVE  PlaceAgrees(q)'
  <2>1. UNCHANGED <<claims, usage, old>>
    BY <1>5 DEF FinaliseCorrects, Reconcile
  <2>2. CASE q # r
    <3>1. spin'[q] = spin[q] /\ adjusted'[q] = adjusted[q]
      BY <1>0, <1>5, <2>2 DEF FinaliseCorrects, SpinTypeOK, Reconcile, SpendTypeOK
    <3> QED BY <1>0, <2>1, <3>1 DEF PlaceAgrees
  <2>3. CASE q = r
    <3>1. spin'[q].at = "over" /\ spin'[q].cost = spin[q].cost /\ adjusted'[q] = spin[q].cost
      BY <1>0, <1>5, <2>3 DEF FinaliseCorrects, SpinTypeOK, Reconcile, SpendTypeOK
    <3> QED BY <1>0, <1>5, <2>1, <2>3, <3>1 DEF FinaliseCorrects, PlaceAgrees, Writing
  <2> QED BY <2>2, <2>3
<1>6. ASSUME NEW r \in SpinIds, HandlerDies(r)
      PROVE  PlaceAgrees(q)'
  <2>1. UNCHANGED <<claims, usage, adjusted, old>>
    BY <1>6 DEF HandlerDies, spendVars
  <2>2. spin'[q] = IF q = r THEN [spin[q] EXCEPT !.at = "dead"] ELSE spin[q]
    BY <1>0, <1>6 DEF HandlerDies, SpinTypeOK
  <2> QED BY <1>0, <1>6, <2>1, <2>2 DEF HandlerDies, PlaceAgrees, Writing, SpinTypeOK
<1>7. ASSUME NEW r \in SpinIds, Ages(r)
      PROVE  PlaceAgrees(q)'
  BY <1>0, <1>7 DEF Ages, MayAge, PlaceAgrees, spendVars
<1>8. ASSUME NEW r \in SpinIds, RecoverSpin(r)
      PROVE  PlaceAgrees(q)'
  <2>1. UNCHANGED <<claims, adjusted, old, spin>>
    BY <1>8 DEF RecoverSpin, RecordUsage, spinVars
  <2>2. CASE q # r
    <3>1. usage'[q] = usage[q]
      BY <1>0, <1>8, <2>2 DEF RecoverSpin, RecordUsage, SpendTypeOK
    <3> QED BY <1>0, <2>1, <3>1 DEF PlaceAgrees
  <2>3. CASE q = r
    <3>1. /\ usage[q] = None /\ usage'[q] = Unknown /\ adjusted[q] = None
          /\ claims[q] = "reserved" /\ q \in old
      BY <1>0, <1>8, <2>3, AmountsAssumption
      DEF RecoverSpin, RecordUsage, SpendTypeOK, Unbooked
    <3> QED BY <1>0, <2>1, <3>1, AmountsAssumption DEF PlaceAgrees
  <2> QED BY <2>2, <2>3
<1>9. CASE Rotate \/ (\E b \in buckets : WindowEnds(b)) \/ UNCHANGED requestVars
  BY <1>0, <1>9 DEF Rotate, WindowEnds, requestVars, spendVars, spinVars, PlaceAgrees
<1> QED
  BY <1>1, <1>2, <1>3, <1>4, <1>5, <1>6, <1>7, <1>8, <1>9 DEF SpinNext

LEMMA WindowsStep ==
    ASSUME SpinInv, [SpinNext]_requestVars
    PROVE  WindowsHeld'
<1>0. WindowsHeld
  BY DEF SpinInv
<1>1. ASSUME NEW r \in SpinIds, NEW v \in Visitors, NEW cap \in Caps, NEW share \in Caps,
             Admit(r, v, cap, share)
      PROVE  WindowsHeld'
  <2>1. CASE claims'[r] = "reserved"
    <3>1. /\ buckets' = buckets \cup {[visitor |-> v, version |-> keyring.current]}
          /\ keyring' = keyring
      BY <1>1, <2>1 DEF Admit
    <3>2. \A b \in buckets : b.visitor # v
      BY <1>0, <1>1 DEF Admit, Window, WindowsHeld
    <3> QED BY <1>0, <3>1, <3>2 DEF WindowsHeld, OneWindowPerVisitor
  <2>2. CASE claims'[r] # "reserved"
    BY <1>0, <1>1, <2>2 DEF Admit, WindowsHeld, OneWindowPerVisitor
  <2> QED BY <2>1, <2>2
<1>2. CASE \E b \in buckets : WindowEnds(b)
  BY <1>0, <1>2 DEF WindowEnds, WindowsHeld, OneWindowPerVisitor
<1>3. CASE Rotate
  <2>1. \A b \in buckets : b.version = keyring.current
    BY <1>0, <1>3 DEF Rotate, Retired, WindowsHeld
  <2>2. buckets' = buckets /\ keyring'.prior = keyring.current
    BY <1>3 DEF Rotate
  <2> QED BY <1>0, <2>1, <2>2 DEF WindowsHeld, OneWindowPerVisitor
<1>4. CASE UNCHANGED <<buckets, keyring>>
  BY <1>0, <1>4 DEF WindowsHeld, OneWindowPerVisitor
<1> QED
  BY <1>1, <1>2, <1>3, <1>4 DEF SpinNext, Answered, FinaliseReads, FinaliseRecords,
     FinaliseCorrects, HandlerDies, Ages, RecoverSpin, spinVars, requestVars

Calling == {r \in SpinIds : spin[r].at = "calling"}

LEMMA SpinsFinite == \A S \in SUBSET SpinIds : IsFiniteSet(S) /\ Cardinality(S) \in Nat
<1> TAKE S \in SUBSET SpinIds
<1>1. IsFiniteSet(S)
  BY AmountsAssumption, FS_Subset
<1> QED BY <1>1, FS_CardinalityType

LEMMA VendorsStep ==
    ASSUME SpinInv, SpendTypeOK, [SpinNext]_requestVars
    PROVE  VendorsWithinLimit'
<1>0. /\ SpinTypeOK /\ Cardinality(Calling) <= MaxConcurrent /\ SpinIds \subseteq Ids
      /\ Cardinality(Calling) \in Nat /\ Cardinality(Calling') \in Nat
      /\ MaxConcurrent \in Nat
  BY SpinsFinite, VisitsAssumption DEF SpinInv, VendorsWithinLimit, Calling, Ids
<1> SUFFICES Cardinality(Calling') <= MaxConcurrent
  BY DEF VendorsWithinLimit, Calling
<1>1. ASSUME NEW r \in SpinIds, NEW v \in Visitors, NEW cap \in Caps, NEW share \in Caps,
             Admit(r, v, cap, share)
      PROVE  Cardinality(Calling') <= MaxConcurrent
  <2>1. Calling \subseteq InFlight /\ InFlight \subseteq SpinIds
    BY DEF SpinInv, PlaceAgrees, Calling, InFlight, Unbooked
  <2>2. Cardinality(Calling) <= Cardinality(InFlight) /\ Cardinality(InFlight) \in Nat
    BY <2>1, SpinsFinite, FS_Subset
  <2>3. Cardinality(Calling) < MaxConcurrent
    BY <1>0, <1>1, <2>2 DEF Admit
  <2>4. Calling' \subseteq Calling \cup {r}
    BY <1>0, <1>1 DEF Admit, Calling, SpinTypeOK
  <2>5. IsFiniteSet(Calling)
    BY SpinsFinite DEF Calling
  <2>6. /\ IsFiniteSet(Calling \cup {r})
        /\ Cardinality(Calling \cup {r}) <= Cardinality(Calling) + 1
    <3>1. Cardinality(Calling \cup {r}) =
            IF r \in Calling THEN Cardinality(Calling) ELSE Cardinality(Calling) + 1
      BY <2>5, FS_AddElement
    <3> QED BY <1>0, <2>5, <3>1, FS_AddElement
  <2>7. Cardinality(Calling') <= Cardinality(Calling \cup {r})
    BY <2>4, <2>6, FS_Subset
  <2>8. Cardinality(Calling \cup {r}) \in Nat
    BY <2>6, FS_CardinalityType
  <2> QED BY <1>0, <2>3, <2>6, <2>7, <2>8
<1>2. CASE Calling' \subseteq Calling
  <2>1. Cardinality(Calling') <= Cardinality(Calling)
    BY <1>2, SpinsFinite, FS_Subset DEF Calling
  <2> QED BY <1>0, <2>1
<1>3. ASSUME NEW r \in SpinIds, NEW cost \in Costs \cup {Unknown},
             \/ Answered(r, cost) \/ FinaliseReads(r) \/ FinaliseRecords(r)
             \/ FinaliseCorrects(r) \/ HandlerDies(r)
      PROVE  Calling' \subseteq Calling
  <2>1. \E place \in [at : {"answered", "recording", "correcting", "over", "thrown", "dead"},
                      cost : Costs \cup {Unknown}] :
          spin' = [spin EXCEPT ![r] = place]
    <3>1. spin[r] \in [at : {"new", "calling", "answered", "recording", "correcting",
                             "over", "thrown", "dead"}, cost : Costs \cup {Unknown}]
      BY <1>0 DEF SpinTypeOK
    <3> QED BY <1>3, <3>1 DEF Answered, FinaliseReads, Verdict, FinaliseRecords,
                              FinaliseCorrects, HandlerDies
  <2> QED BY <1>0, <2>1 DEF Calling, SpinTypeOK
<1>4. ASSUME spin' = spin
      PROVE  Calling' \subseteq Calling
  BY <1>4 DEF Calling
<1>5. ASSUME NEW r \in SpinIds, Ages(r) \/ RecoverSpin(r)
      PROVE  Calling' \subseteq Calling
  BY <1>4, <1>5 DEF Ages, RecoverSpin, spinVars
<1>6. CASE Rotate \/ (\E b \in buckets : WindowEnds(b)) \/ UNCHANGED requestVars
  BY <1>4, <1>6, <1>2 DEF Rotate, WindowEnds, requestVars, spinVars
<1> QED BY <1>1, <1>2, <1>3, <1>5, <1>6 DEF SpinNext

-----------------------------------------------------------------------------
SpinIInv == SpinInv /\ BudgetIInv

LEMMA SpinAlways == SpinSpec => []SpinIInv
<1>1. SpendInit /\ SpinInit => SpinIInv
  BY SpinInitially, BudgetInitially DEF SpinIInv
<1>2. SpinIInv /\ [SpinNext]_requestVars => SpinIInv'
  <2> SUFFICES ASSUME SpinInv, BudgetIInv, [SpinNext]_requestVars
               PROVE  SpinInv' /\ BudgetIInv'
    BY DEF SpinIInv
  <2>1. BudgetIInv'
    BY SpinStepSpends, BudgetStep
  <2>2. SpendTypeOK
    BY DEF BudgetIInv, BudgetInv
  <2>3. SpinInv'
    BY <2>2, SpinTypesStep, PlacesStep, WindowsStep, VendorsStep DEF SpinInv
  <2> QED BY <2>1, <2>3
<1> QED BY <1>1, <1>2, PTL DEF SpinSpec, requestVars

\* The Sample Spins spend as the budget specifies: its theorems hold of them,
\* whenever handlers die and recovery overtakes them.
THEOREM SpinsSpendWithinBudget == SpinSpec => SpendSpec
<1>1. SpinIInv /\ [SpinNext]_requestVars => [SpendNext]_spendVars
  BY SpinStepSpends DEF SpinIInv
<1> QED BY SpinAlways, <1>1, PTL DEF SpinSpec, SpendSpec, requestVars

\* Nothing calls the vendor without its reservation, and only a reserved
\* attempt is presumed dead (public-sample-spin.ts 113-162).
THEOREM SpinTypes == SpinSpec => []SpinTypeOK
<1>1. SpinIInv => SpinTypeOK
  BY DEF SpinIInv, SpinInv
<1> QED BY SpinAlways, <1>1, PTL

\* One address has one window at a time, however often the key its digest is
\* made with is rotated (public-sample-spin.ts 170-218).
THEOREM VisitorsHaveOneWindow == SpinSpec => []OneWindowPerVisitor
<1>1. SpinIInv => OneWindowPerVisitor
  BY DEF SpinIInv, SpinInv, WindowsHeld
<1> QED BY SpinAlways, <1>1, PTL

\* No more handlers than the limit call the vendor at once, though the slots
\* are counted by lease and not by process (system-spend.ts 430-441).
THEOREM VendorsAreLimited == SpinSpec => []VendorsWithinLimit
<1>1. SpinIInv => VendorsWithinLimit
  BY DEF SpinIInv, SpinInv
<1> QED BY SpinAlways, <1>1, PTL

\* A handler that ended normally left its fact, recovery's before it or not
\* (credits/src/sample-spin/run.ts, finalise).
THEOREM SpinSpendIsBooked == SpinSpec => []SpinSpendBooked
<1>1. SpinIInv => SpinSpendBooked
  BY DEF SpinIInv, SpinInv, PlaceAgrees, SpinSpendBooked
<1> QED BY SpinAlways, <1>1, PTL

\* Admission keeps to one window an address and to the limit of handlers
\* (public-sample-spin.ts 170-218, system-spend.ts 430-441).
THEOREM AdmissionIsLimited == SpinSpec => []AdmissionHolds
BY VisitorsHaveOneWindow, VendorsAreLimited, PTL DEF AdmissionHolds

=============================================================================
