----------------------------- MODULE SampleSpin -----------------------------
(***************************************************************************)
(* The public Sample Spin: admission of an anonymous request under one     *)
(* lock (db/src/public-sample-spin.ts), its vendor sequence under one      *)
(* deadline and its finalization (credits/src/sample-spin/run.ts), and the *)
(* recovery of an attempt whose process is presumed dead (db/src/          *)
(* system-spend.ts).  A visitor is known by a digest under a key that the  *)
(* operator rotates; a window lasts a day.                                 *)
(*                                                                         *)
(* An action is one transaction or one read.  A request repeated with its  *)
(* id is told how the first one stands and changes nothing the model       *)
(* keeps.  An attempt grows old when its lease has passed on the           *)
(* database's clock: the deadline of its vendor calls is compiled to be    *)
(* shorter, so it is never still calling then, though it may still be      *)
(* writing.                                                                *)
(***************************************************************************)
EXTENDS SystemSpend

CONSTANTS
    Visitors,       \* addresses, as the trusted proxy attests them
    MaxConcurrent,  \* PUBLIC_SAMPLE_SPIN_MAX_CONCURRENT
    MaxVersion      \* bound: versions of the digest key

ASSUME VisitsAssumption == MaxConcurrent \in Nat \ {0} /\ MaxVersion \in Nat \ {0}

VARIABLES
    spin,     \* each request: where its handler is, what its calls cost
    old,      \* requests whose lease has passed
    buckets,  \* the unexpired windows: who, and under which key version
    keyring   \* the current key version and the prior one (0: none)

spinVars == <<spin, old, buckets, keyring>>

SpinInit ==
    /\ spin = [r \in SpinIds |-> [at |-> "new", cost |-> Unknown]]
    /\ old = {}
    /\ buckets = {}
    /\ keyring = [current |-> 1, prior |-> 0]

\* publicSampleSpinInFlightCount: reserved, no usage row, not past the lease.
InFlight == {r \in SpinIds : Unbooked(r) /\ r \notin old}

\* Mutant for AdmissionHolds: only the current version is looked up.
WindowUnderCurrent(v) == {b \in buckets : b.visitor = v /\ b.version = keyring.current}
\* lockCurrentBucket: an unexpired window under either version.
Window(v) ==
    {b \in buckets : b.visitor = v /\ b.version \in {keyring.current, keyring.prior}}

\* admitPublicSampleSpin of a request id not seen before, for visitor v: slots,
\* then the window, then the money; only a reservation opens a window.
Admit(r, v, cap, share) ==
    /\ Cardinality(InFlight) < MaxConcurrent
    /\ Window(v) = {}
    /\ ClaimSpend(r, cap, share)
    /\ IF claims'[r] = "reserved"
         THEN /\ buckets' = buckets \cup {[visitor |-> v, version |-> keyring.current]}
              /\ spin' = [spin EXCEPT ![r].at = "calling"]
         ELSE UNCHANGED <<buckets, spin>>
    /\ UNCHANGED <<old, keyring>>

\* The counted calls are over, or the deadline ended them.
Answered(r, cost) ==
    /\ spin[r].at = "calling"
    /\ spin' = [spin EXCEPT ![r] = [at |-> "answered", cost |-> cost]]
    /\ UNCHANGED <<spendVars, old, buckets, keyring>>

\* Mutant for SpinSpendBooked: a fact that comes after recovery is dropped.
VerdictDropping(r) == IF usage[r] = None THEN "recording" ELSE "over"
\* finalise reads whether recovery has booked the attempt already.
Verdict(r) ==
    IF usage[r] = None THEN "recording"
    ELSE IF usage[r] = Unknown /\ spin[r].cost # Unknown THEN "correcting"
    ELSE "over"

FinaliseReads(r) ==
    /\ spin[r].at = "answered"
    /\ spin' = [spin EXCEPT ![r].at = Verdict(r)]
    /\ UNCHANGED <<spendVars, old, buckets, keyring>>

\* recordSystemModelUsage; recovery may have come between the read and this
\* write, which then throws (it is another fact) and is not tried again.
FinaliseRecords(r) ==
    /\ spin[r].at = "recording"
    /\ spin' = [spin EXCEPT ![r].at = IF usage[r] = None THEN "over" ELSE "thrown"]
    /\ IF usage[r] = None THEN RecordUsage(r, spin[r].cost) ELSE UNCHANGED spendVars
    /\ UNCHANGED <<old, buckets, keyring>>

FinaliseCorrects(r) ==
    /\ spin[r].at = "correcting"
    /\ Reconcile(r, spin[r].cost)
    /\ spin' = [spin EXCEPT ![r].at = "over"]
    /\ UNCHANGED <<old, buckets, keyring>>

\* The process dies; nothing takes the request up again.
HandlerDies(r) ==
    /\ spin[r].at \in {"calling", "answered", "recording", "correcting"}
    /\ spin' = [spin EXCEPT ![r].at = "dead"]
    /\ UNCHANGED <<spendVars, old, buckets, keyring>>

\* The lease covers the deadline.
MayAge(r) == claims[r] = "reserved" /\ r \notin old /\ spin[r].at # "calling"
Ages(r) ==
    /\ MayAge(r)
    /\ old' = old \cup {r}
    /\ UNCHANGED <<spendVars, spin, buckets, keyring>>

\* recoverStalePublicSampleSpinAttempts: checked again under the row's lock.
RecoverSpin(r) ==
    /\ Unbooked(r) /\ r \in old
    /\ RecordUsage(r, Unknown)
    /\ UNCHANGED spinVars

WindowEnds(b) ==
    /\ buckets' = buckets \ {b}
    /\ UNCHANGED <<spendVars, spin, old, keyring>>

\* The operator makes a new key current and keeps one prior; a prior key is
\* given up when no unexpired window is under it (priorKeyVersionRetired).
Retired(version) == \A b \in buckets : b.version # version
Rotate ==
    /\ keyring.current < MaxVersion
    /\ Retired(keyring.prior)
    /\ keyring' = [current |-> keyring.current + 1, prior |-> keyring.current]
    /\ UNCHANGED <<spendVars, spin, old, buckets>>

SpinNext ==
    \/ \E r \in SpinIds :
          \/ \E v \in Visitors, cap, share \in Caps : Admit(r, v, cap, share)
          \/ \E cost \in Costs \cup {Unknown} : Answered(r, cost)
          \/ FinaliseReads(r) \/ FinaliseRecords(r) \/ FinaliseCorrects(r)
          \/ HandlerDies(r) \/ Ages(r) \/ RecoverSpin(r)
    \/ \E b \in buckets : WindowEnds(b)
    \/ Rotate

SpinSpec == SpendInit /\ SpinInit /\ [][SpinNext]_<<spendVars, spinVars>>
-----------------------------------------------------------------------------
\* The variables hold what they admit; nothing calls the vendor without its
\* reservation, and only a reserved attempt is ever presumed dead.
SpinTypeOK ==
    /\ spin \in [SpinIds -> [at : {"new", "calling", "answered", "recording", "correcting",
                                   "over", "thrown", "dead"},
                             cost : Costs \cup {Unknown}]]
    /\ \A r \in SpinIds : spin[r].at # "new" => r \in Reserved
    /\ old \subseteq Reserved \cap SpinIds
    /\ buckets \subseteq [visitor : Visitors, version : 1..MaxVersion]
    /\ keyring \in [current : 1..MaxVersion, prior : 0..MaxVersion]

\* One address has one window at a time, through every rotation of the key
\* its digest is made with (public-sample-spin.ts 8-10).
OneWindowPerVisitor == \A b, c \in buckets : b.visitor = c.visitor => b = c

\* No more handlers than the limit are calling the vendor at once: an attempt
\* that leaves the count because its lease passed has stopped calling.
VendorsWithinLimit == Cardinality({r \in SpinIds : spin[r].at = "calling"}) <= MaxConcurrent

\* What is admitted is limited: by address through every rotation, by
\* concurrency through every lapsed lease.
AdmissionHolds == OneWindowPerVisitor /\ VendorsWithinLimit

\* A handler that ended normally left its fact: the row holds what the calls
\* cost, or was corrected to it if recovery had booked it as unknown.
SpinSpendBooked ==
    \A r \in SpinIds :
        spin[r].at = "over" => spin[r].cost \in {usage[r], adjusted[r]}
=============================================================================
