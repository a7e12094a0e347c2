--------------------------- MODULE BrainDocuments ---------------------------
(***************************************************************************)
(* The brain of one creator profile: versions of its documents, one line   *)
(* of them for each kind (db/src/with-workspace.ts, brain-ops.ts), the     *)
(* interview that writes the first of some kinds (interview-ops.ts), and   *)
(* rules promoted from feedback (promotion-ops.ts).  The documents in      *)
(* force are those that an activation names; a generation is written with  *)
(* what it takes for the latest one (credits/src/generate.ts).             *)
(*                                                                         *)
(* Every operation is one transaction that begins, waits for the profile's *)
(* lock, reads under it, and commits or rolls back.  What a document says  *)
(* is left out: it is known by the document it was made from and by the    *)
(* fields its creator has confirmed.                                       *)
(***************************************************************************)
EXTENDS Integers, SequencesExt

CONSTANTS
  Members,      \* owners at the screens
  Nobody,
  Kinds,        \* kinds of document
  Interviewed,  \* the kinds that the interview writes
  Fields,       \* the claim positions of a document
  Enough,       \* MIN_COMPARABLE_RESULTS
  MaxDocs,      \* BRAIN_VERSION_MAX
  MaxBegun,     \* bound: transactions
  MaxFeedback,  \* bound: reactions to what one document wrote
  Operations,   \* bound: the operations members use
  Surprises     \* bound: "pause", and "connloss" of the edit slot

ASSUME BrainAssumption ==
  /\ Nobody \notin Members
  /\ Interviewed \subseteq Kinds /\ IsFiniteSet(Interviewed)
  /\ MaxDocs \in Nat /\ MaxBegun \in Nat /\ MaxFeedback \in Nat
  /\ Enough \in Nat \ {0}

VARIABLES
  docs,       \* brain_docs, in the order they were written
  snapshots,  \* brain_activation_snapshots, in the order they were committed
  proposals,  \* promotion_proposals
  feedback,   \* reactions to generations, by the document they are held against
  draft,      \* the interview: kinds with an answer that can be cited (a decided
              \* empty list cannot), and whether it is submitted
  work,       \* each member's transaction
  brainLock,  \* who holds the profile's advisory lock
  editSlot,   \* who holds the workspace's slot for edits
  begun,      \* how many transactions have begun: their now() is in this order
  paused      \* an open pause

records   == <<docs, snapshots, proposals, draft>>
brainVars == <<records, feedback, work, brainLock, editSlot, begun, paused>>

Idle == [step |-> "idle"]
None == 0  \* where a document, a proposal or an activation may be named

BrainInit ==
  /\ docs = <<>> /\ snapshots = <<>> /\ proposals = <<>>
  /\ feedback = [d \in 1..MaxDocs |-> 0]
  /\ draft = [answered |-> {}, submitted |-> FALSE]
  /\ work = [m \in Members |-> Idle]
  /\ brainLock = Nobody /\ editSlot = Nobody
  /\ begun = 0
  /\ paused = FALSE
-----------------------------------------------------------------------------
(* Documents: ds is a state of the table, k a kind, d a document.          *)

OfKind(ds, k) == {d \in DOMAIN ds : ds[d].kind = k}
With(ds, k, statuses) == {d \in OfKind(ds, k) : ds[d].status \in statuses}
ActiveIds(ds) == {d \in DOMAIN ds : ds[d].status = "active"}

(* authoritativeEditableBrainDoc: the proposal if it is the newer one,     *)
(* the active version otherwise.                                           *)
Authoritative(ds, k) ==
  LET current == With(ds, k, {"proposed", "active"})
  IN {d \in current : \A e \in current : ds[e].version <= ds[d].version}

(* Mutant: what an edit was made from is not looked at again.              *)
IsEditableStill(ds, d) == TRUE
IsEditable(ds, d) == d \in Authoritative(ds, ds[d].kind)

Superseded(ds, gone) ==
  [d \in DOMAIN ds |->
     IF d \in gone THEN [ds[d] EXCEPT !.status = "superseded"] ELSE ds[d]]

Newest(ds, k) == Max({ds[d].version : d \in OfKind(ds, k)} \cup {0})

(* writeBrainDoc, once for each of ks: the next version, proposed; an older*)
(* proposal is over, and what is active stays.                             *)
WrittenAll(ds, ks, from) ==
  Superseded(ds, UNION {With(ds, k, {"proposed"}) : k \in ks})
  \o [i \in 1..Cardinality(ks) |->
       LET k == SetToSeq(ks)[i]
       IN [kind |-> k, from |-> from, status |-> "proposed", confirmed |-> {},
           version |-> Newest(ds, k) + 1]]
Written(ds, k, from) == WrittenAll(ds, {k}, from)

(* confirmBrainDocFields: the last submission is the confirmation.         *)
Confirmed(ds, d, fields) == [ds EXCEPT ![d].confirmed = fields]

(* activateBrainDoc: the active version of the kind is over, and so is     *)
(* every other proposal.                                                   *)
Activated(ds, d) ==
  [Superseded(ds, With(ds, ds[d].kind, {"proposed", "active"}) \ {d})
     EXCEPT ![d].status = "active"]

(* activateBrainDocCoherent: with the activation, the ids of all that is   *)
(* active after it.  Its created_at is the transaction's now().            *)
Snapshot(ds, since) == [names |-> ActiveIds(ds), began |-> since]
-----------------------------------------------------------------------------
(* Promotions: a family is a basis document, a digest how much feedback    *)
(* there was.  The drafts are what the feedback supports now.              *)

Drafts(f) == {d \in DOMAIN f : f[d] >= Enough}
IsProposedAs(p, d, f) == p.basis = d /\ p.digest = f[d]

(* The rows inserted, for each draft whose digest its family does not hold *)
(* in any status.                                                          *)
Drafted(ps, f) ==
  SetToSeq({[basis |-> d, digest |-> f[d], status |-> "proposed", doc |-> None,
             activation |-> None]
              : d \in {d \in Drafts(f) : \A i \in DOMAIN ps : ~IsProposedAs(ps[i], d, f)}})

(* refreshPromotionProposals: a proposal of older feedback is superseded.  *)
Refreshed(ps, f) ==
  [i \in DOMAIN ps |->
     IF ps[i].status = "proposed" /\ ~IsProposedAs(ps[i], ps[i].basis, f)
       THEN [ps[i] EXCEPT !.status = "superseded"] ELSE ps[i]]
  \o Drafted(ps, f)
-----------------------------------------------------------------------------
(* A transaction.                                                          *)

(* What a member asks for.  A request that would be refused whatever comes *)
(* before its turn is left out: of a version or a proposal that is over.   *)
Open(rows) == {i \in DOMAIN rows : rows[i].status = "proposed"}
Asked ==
  {r \in [op : {"write"}, kind : Kinds \ Interviewed]
      \cup [op : {"answer"}, kind : Interviewed]
      \cup [op : {"submit", "refresh"}]
      \cup [op : {"edit"}, doc : DOMAIN docs]
      \cup [op : {"activate"}, doc : Open(docs)]
      \cup [op : {"confirm"}, doc : Open(docs), fields : SUBSET Fields \ {{}}]
      \cup [op : {"accept", "reject"}, proposal : Open(proposals),
            base : UNION {snapshots[i].names : i \in DOMAIN snapshots}] :
     /\ r.op \in Operations
     /\ r.op \in {"answer", "submit"} => ~draft.submitted}

(* The transaction begins.  An edit has taken the slot for edits, and      *)
(* first looks without a lock whether its document is still the current    *)
(* one (editBrainDocument).                                                *)
Begin(m) ==
  /\ work[m] = Idle /\ begun < MaxBegun
  /\ begun' = begun + 1
  /\ \E r \in Asked :
       /\ work' = [work EXCEPT ![m] = [step |-> "begun", asked |-> r, began |-> begun + 1]]
       /\ \/ r.op = "edit" /\ editSlot = Nobody /\ IsEditable(docs, r.doc) /\ editSlot' = m
          \/ r.op # "edit" /\ UNCHANGED editSlot
  /\ UNCHANGED <<records, feedback, brainLock, paused>>

(* Mutant: the transactions do not wait for each other.                    *)
NeedNotWait == TRUE
IsUnlocked == brainLock = Nobody

(* The membership and brain locks, and what the operation reads under them.*)
(* The pause, which writeBrainDoc reads just before it waits for the lock, *)
(* is read with the rest.                                                  *)
Lock(m) ==
  /\ work[m].step = "begun" /\ IsUnlocked
  /\ brainLock' = m
  /\ work' = [work EXCEPT ![m] =
       [step |-> "locked", asked |-> @.asked, began |-> @.began,
        docs |-> docs, proposals |-> proposals, feedback |-> feedback,
        draft |-> draft, paused |-> paused]]
  /\ UNCHANGED <<records, feedback, editSlot, begun, paused>>

Ends(m) ==
  /\ work' = [work EXCEPT ![m] = Idle]
  /\ brainLock' = Nobody
  /\ editSlot' = IF editSlot = m THEN Nobody ELSE editSlot
  /\ UNCHANGED <<feedback, begun, paused>>

Does(m, op) == work[m].step = "locked" /\ work[m].asked.op = op
Request(m) == work[m].asked
HasRoom(m, n) == ~work[m].paused /\ Len(work[m].docs) + n <= MaxDocs

(* Any refusal, and any failure before the commit.                         *)
Rollback(m) ==
  /\ work[m].step = "locked"
  /\ Ends(m) /\ UNCHANGED records

(* The inference of a kind that is not interviewed (infer-voice.ts).       *)
Write(m) ==
  /\ Does(m, "write") /\ HasRoom(m, 1)
  /\ docs' = Written(docs, Request(m).kind, None)
  /\ Ends(m) /\ UNCHANGED <<snapshots, proposals, draft>>

(* saveInterviewDraft, not refused by a pause.                             *)
SaveAnswer(m) ==
  /\ Does(m, "answer") /\ ~work[m].draft.submitted
  /\ draft' = [draft EXCEPT !.answered = work[m].draft.answered \cup {Request(m).kind}]
  /\ Ends(m) /\ UNCHANGED <<docs, snapshots, proposals>>

(* submitInterview: a version of each kind with an answer, all or none.    *)
Submit(m) ==
  /\ Does(m, "submit") /\ ~work[m].draft.submitted
  /\ LET answered == work[m].draft.answered
     IN /\ answered = {} \/ HasRoom(m, Cardinality(answered))
        /\ docs' = WrittenAll(docs, answered, None)
  /\ draft' = [draft EXCEPT !.submitted = TRUE]
  /\ Ends(m) /\ UNCHANGED <<snapshots, proposals>>

(* editBrainDocument, whose base is looked at again under the lock.        *)
Edit(m) ==
  /\ Does(m, "edit") /\ HasRoom(m, 1) /\ IsEditable(work[m].docs, Request(m).doc)
  /\ docs' = Written(docs, docs[Request(m).doc].kind, Request(m).doc)
  /\ Ends(m) /\ UNCHANGED <<snapshots, proposals, draft>>

IsOpenProposal(m) ==
  LET d == Request(m).doc
  IN work[m].docs[d].status = "proposed" /\ IsEditable(work[m].docs, d)

Confirm(m) ==
  /\ Does(m, "confirm") /\ ~work[m].paused /\ IsOpenProposal(m)
  /\ docs' = Confirmed(docs, Request(m).doc, Request(m).fields)
  /\ Ends(m) /\ UNCHANGED <<snapshots, proposals, draft>>

Activate(m) ==
  /\ Does(m, "activate") /\ ~work[m].paused /\ IsOpenProposal(m)
  /\ Fields \subseteq work[m].docs[Request(m).doc].confirmed
  /\ docs' = Activated(docs, Request(m).doc)
  /\ snapshots' = Append(snapshots, Snapshot(docs', work[m].began))
  /\ Ends(m) /\ UNCHANGED <<proposals, draft>>

Refresh(m) ==
  /\ Does(m, "refresh") /\ ~work[m].paused
  /\ proposals' = Refreshed(proposals, work[m].feedback)
  /\ Ends(m) /\ UNCHANGED <<docs, snapshots, draft>>

(* decidePromotionProposal: what was decided before is told again, and the *)
(* page that was reviewed must have shown the rule on the document that is *)
(* active.                                                                 *)
IsDecidable(m) ==
  LET p == work[m].proposals[Request(m).proposal]
  IN /\ ~work[m].paused /\ p.status = "proposed"
     /\ Request(m).base \in With(work[m].docs, work[m].docs[p.basis].kind, {"active"})

Reject(m) ==
  /\ Does(m, "reject") /\ IsDecidable(m)
  /\ proposals' = [proposals EXCEPT ![Request(m).proposal].status = "rejected"]
  /\ Ends(m) /\ UNCHANGED <<docs, snapshots, draft>>

(* The rule added to the active document is written, confirmed in every    *)
(* field and activated in the one transaction.                             *)
Accept(m) ==
  /\ Does(m, "accept") /\ IsDecidable(m)
  /\ HasRoom(m, 1) /\ IsEditable(work[m].docs, Request(m).base)
  /\ LET written == Written(docs, docs[Request(m).base].kind, Request(m).base)
         d == Len(written)
     IN /\ docs' = Activated(Confirmed(written, d, Fields), d)
        /\ snapshots' = Append(snapshots, Snapshot(docs', work[m].began))
        /\ proposals' = [proposals EXCEPT ![Request(m).proposal] =
             [@ EXCEPT !.status = "accepted", !.doc = d, !.activation = Len(snapshots')]]
  /\ Ends(m) /\ UNCHANGED draft

(* recordGenerationFeedback takes no part in the lock.  The document is    *)
(* the one that the activation of the generation names.                    *)
React ==
  /\ \E i \in DOMAIN snapshots : \E d \in snapshots[i].names :
       /\ feedback[d] < MaxFeedback
       /\ feedback' = [feedback EXCEPT ![d] = @ + 1]
  /\ UNCHANGED <<records, work, brainLock, editSlot, begun, paused>>

PauseOrResume ==
  /\ "pause" \in Surprises
  /\ paused' = ~paused
  /\ UNCHANGED <<records, feedback, work, brainLock, editSlot, begun>>

LoseEditSlot ==
  /\ "connloss" \in Surprises /\ editSlot # Nobody
  /\ editSlot' = Nobody
  /\ UNCHANGED <<records, feedback, work, brainLock, begun, paused>>

Transact(m) ==
  \/ Begin(m) \/ Lock(m) \/ Rollback(m)
  \/ Write(m) \/ SaveAnswer(m) \/ Submit(m) \/ Edit(m) \/ Confirm(m) \/ Activate(m)
  \/ Refresh(m) \/ Reject(m) \/ Accept(m)

BrainNext == (\E m \in Members : Transact(m)) \/ React \/ PauseOrResume \/ LoseEditSlot

BrainSpec == BrainInit /\ [][BrainNext]_brainVars
-----------------------------------------------------------------------------
(* What the columns admit; a locked transaction knows what it read.        *)
BrainTypeOK ==
  /\ \A d \in DOMAIN docs :
       docs[d] \in [kind : Kinds, from : 0..MaxDocs, confirmed : SUBSET Fields,
                    status : {"proposed", "active", "superseded"}, version : 1..MaxDocs]
  /\ \A i \in DOMAIN snapshots :
       snapshots[i] \in [names : SUBSET DOMAIN docs, began : 1..MaxBegun]
  /\ \A i \in DOMAIN proposals :
       proposals[i] \in [basis : DOMAIN docs, digest : Enough..MaxFeedback,
                         status : {"proposed", "superseded", "accepted", "rejected"},
                         doc : {None} \cup DOMAIN docs,
                         activation : {None} \cup DOMAIN snapshots]
  /\ draft \in [answered : SUBSET Interviewed, submitted : BOOLEAN]
  /\ feedback \in [1..MaxDocs -> 0..MaxFeedback]
  /\ \A m \in Members : work[m].step \in {"idle", "begun", "locked"}
  /\ {brainLock, editSlot} \subseteq Members \cup {Nobody}
  /\ begun \in 0..MaxBegun /\ paused \in BOOLEAN

(* What is in force is what its creator agreed to: of a kind one version   *)
(* is active at most, confirmed in every field whatever was submitted      *)
(* while it was being activated, and one is proposed; the last activation  *)
(* to commit names the active versions of all kinds; and a promotion that  *)
(* was accepted names the document and the activation it became            *)
(* (confirmBrainDocFields, activateBrainDocCoherent, decidePromotion).     *)
InForceAsConfirmed ==
  /\ BrainTypeOK
  /\ \A k \in Kinds, s \in {"active", "proposed"} : Cardinality(With(docs, k, {s})) <= 1
  /\ \A d \in ActiveIds(docs) : docs[d].confirmed = Fields
  /\ ActiveIds(docs) = IF snapshots = <<>> THEN {} ELSE Last(snapshots).names
  /\ \A i \in DOMAIN proposals : LET p == proposals[i] IN
       p.status = "accepted" =>
         /\ p.doc \in snapshots[p.activation].names
         /\ docs[p.doc].kind = docs[p.basis].kind

(* No one's work is overwritten by someone who had not seen it: an edit or *)
(* a promotion is made from the version just before it, and a submitted    *)
(* interview has a document for each kind with an answer that can be cited.*)
NoEditIsLost ==
  /\ \A d \in DOMAIN docs : LET base == docs[d].from IN
       base # None => /\ docs[base].kind = docs[d].kind
                      /\ docs[base].version = docs[d].version - 1
  /\ draft.submitted =>
       \A k \in Interviewed : k \in draft.answered <=> OfKind(docs, k) # {}

(* The snapshot that latestBrainActivation finds, by created_at.           *)
LatestActivation ==
  CHOOSE s \in ToSet(snapshots) : \A t \in ToSet(snapshots) : t.began <= s.began

(* A generation is written with the documents that are active, and not     *)
(* with superseded ones, as brain-ops.ts says of its one entrypoint.       *)
LatestActivationIsCurrent ==
  snapshots # <<>> => LatestActivation.names = ActiveIds(docs)
=============================================================================
