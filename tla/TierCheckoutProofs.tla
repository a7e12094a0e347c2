-------------------------- MODULE TierCheckoutProofs --------------------------
(***************************************************************************)
(* An owner never holds two Checkouts that can both bill, and the row      *)
(* knows the one of an attempt: for any number of presses, old calls,      *)
(* Sessions and restores, and whatever the windows are, from the old       *)
(* binary on and where the cutover is long past.                           *)
(***************************************************************************)
EXTENDS TierCheckoutRollout, FiniteSums, FiniteSetTheorems, TLAPS

allVars == <<checkoutVars, cutoverVars>>

-----------------------------------------------------------------------------
(* Shapes.  An attempt's number may come from a replay of the webhook's    *)
(* handlers, a fold; that the door is one does not depend on what it is.   *)

Pcs == {"idle", "reserved", "again", "calling", "answered"}

SessionsOf(A) ==
  [attempt : A, born : Nat, status : {"open", "complete", "expired"},
   life : {"none", "live", "dead"}, handed : BOOLEAN]

CallsOf(A) == [pc : Pcs, attempt : A, round : {1, 2}, since : Nat]

Shape ==
  /\ checkouts \in Seq(SessionsOf({checkouts[s].attempt : s \in DOMAIN checkouts}))
  /\ calls \in [Callers -> CallsOf({calls[c].attempt : c \in Callers})]
  /\ rollout \in [state : {"expanded", "draining", "active"}, revision : Nat, drained : Nat]
  /\ report \in [clear : BOOLEAN, revision : Nat]
  /\ oldCall \in [OldCalls -> [pc : {"idle", "read", "sent"}, since : Nat]]
  /\ ticks \in Nat /\ alive \in BOOLEAN /\ vouched \in BOOLEAN

(* Before the new protocol is active nobody has pressed under it.          *)
NobodyEarly ==
  rollout.state # "active" =>
    /\ \A c \in Callers : calls[c].pc = "idle"
    /\ adrift = {} /\ ~saved.taken

(* A call of the old binary ends within the window; and none has left      *)
(* since a fence that was put up after the fleet had stopped.              *)
OldCallsEnd ==
  /\ vouched => ~alive
  /\ \A o \in OldCalls : oldCall[o].pc = "sent" =>
       /\ oldCall[o].since <= ticks /\ ticks <= oldCall[o].since + Window
       /\ rollout.state = "draining" /\ vouched => oldCall[o].since <= rollout.drained

(* A report is of a drain that has begun.                                  *)
ReportHasItsDrain ==
  /\ report.revision <= rollout.revision
  /\ rollout.state = "expanded" => rollout.revision = 0

(* What a clear report of this drain says, if the operator's word held, is *)
(* still so: the old calls are over, and one Session at most can bill.     *)
ClearIsStillSo ==
  rollout.state = "draining" /\ vouched /\ report.clear /\ report.revision = rollout.revision =>
    /\ \A o \in OldCalls : oldCall[o].pc # "sent"
    /\ \A s \in DOMAIN checkouts : checkouts[s].status # "open"
    /\ \A s, t \in DOMAIN checkouts : Unresolved(s) /\ Unresolved(t) => s = t

(* Those who hold the workspace lock over a call to Stripe.                *)
Holders == {c \in Callers : calls[c].pc \in {"calling", "answered"}}

(* One press at a time is at Stripe, and it found no door before it went.  *)
HolderFoundNone ==
  /\ \A c, d \in Holders : c = d
  /\ Guarded => /\ Holders # {} => Doors = {}
                /\ \A s, t \in Doors : s = t

DoorInv ==
  Shape /\ NobodyEarly /\ OldCallsEnd /\ ReportHasItsDrain /\ ClearIsStillSo /\ HolderFoundNone

-----------------------------------------------------------------------------
(* Sequences and functions of records whose attempts are any.              *)

LEMMA TightSessions ==
  ASSUME NEW A, NEW q \in Seq(SessionsOf(A))
  PROVE  q \in Seq(SessionsOf({q[s].attempt : s \in DOMAIN q}))
<1> DEFINE B == {q[s].attempt : s \in DOMAIN q}
<1>1. \A s \in 1..Len(q) : q[s] \in SessionsOf(A)
  OBVIOUS
<1>2. \A s \in 1..Len(q) : q[s] \in SessionsOf(B)
  <2> SUFFICES ASSUME NEW s \in 1..Len(q) PROVE q[s] \in SessionsOf(B)
    OBVIOUS
  <2>1. q[s].attempt \in B
    OBVIOUS
  <2> HIDE DEF B
  <2> QED
    BY <1>1, <2>1 DEF SessionsOf
<1> HIDE DEF B
<1>3. q = [s \in 1..Len(q) |-> q[s]] /\ Len(q) \in Nat
  OBVIOUS
<1>4. q \in Seq(SessionsOf(B))
  BY <1>2, <1>3
<1> QED
  BY <1>4 DEF B

LEMMA TightCalls ==
  ASSUME NEW A, NEW f \in [Callers -> CallsOf(A)]
  PROVE  f \in [Callers -> CallsOf({f[c].attempt : c \in Callers})]
<1> DEFINE B == {f[c].attempt : c \in Callers}
<1>1. \A c \in Callers : f[c].attempt \in B
  OBVIOUS
<1> HIDE DEF B
<1>2. \A c \in Callers : f[c] \in CallsOf(B)
  BY <1>1 DEF CallsOf
<1> QED
  BY <1>2 DEF B

-----------------------------------------------------------------------------
(* What a step does to the Sessions                                        *)

LEMMA SessionFields ==
  ASSUME Shape, NEW s \in DOMAIN checkouts
  PROVE  /\ DOMAIN checkouts = 1..Len(checkouts) /\ Len(checkouts) \in Nat
         /\ checkouts[s] \in SessionsOf({checkouts[t].attempt : t \in DOMAIN checkouts})
BY DEF Shape

(* One more Session, which nobody was given, is no door.                   *)
LEMMA OpenedSession ==
  ASSUME Shape, NEW a, NEW h \in BOOLEAN, OpenSession(a, h)
  PROVE  /\ checkouts' \in Seq(SessionsOf({checkouts'[s].attempt : s \in DOMAIN checkouts'}))
         /\ ~h => Doors' \subseteq Doors
<1> DEFINE A == {checkouts[s].attempt : s \in DOMAIN checkouts}
           B == A \cup {a}
           e == [attempt |-> a, born |-> ticks, status |-> "open", life |-> "none", handed |-> h]
<1>1. checkouts \in Seq(SessionsOf(A))
  BY DEF Shape
<1>2. A \subseteq B /\ a \in B
  OBVIOUS
<1>3. checkouts' = Append(checkouts, e)
  BY DEF OpenSession
<1> HIDE DEF A, B
<1>4. e \in SessionsOf(B)
  BY <1>2 DEF SessionsOf, Shape
<1>5. e.handed = h
  OBVIOUS
<1> HIDE DEF e
<1>6. checkouts \in Seq(SessionsOf(B))
  <2>1. SessionsOf(A) \subseteq SessionsOf(B)
    BY <1>2 DEF SessionsOf
  <2> QED
    BY <1>1, <2>1
<1>7. checkouts' \in Seq(SessionsOf(B))
  BY <1>3, <1>4, <1>6
<1>8. /\ DOMAIN checkouts' = DOMAIN checkouts \cup {Len(checkouts) + 1}
      /\ checkouts'[Len(checkouts) + 1] = e
      /\ \A s \in DOMAIN checkouts : checkouts'[s] = checkouts[s]
  BY <1>3, <1>4, <1>6
<1>9. ~h => Doors' \subseteq Doors
  BY <1>5, <1>8 DEF Doors, Unresolved
<1> QED
  BY <1>7, <1>9, TightSessions

(* One Session is changed, and keeps its attempt.                          *)
LEMMA EditedSession ==
  ASSUME Shape, NEW s \in DOMAIN checkouts, NEW e,
         e \in SessionsOf({checkouts[t].attempt : t \in DOMAIN checkouts}),
         checkouts' = [checkouts EXCEPT ![s] = e]
  PROVE  /\ checkouts' \in Seq(SessionsOf({checkouts'[t].attempt : t \in DOMAIN checkouts'}))
         /\ DOMAIN checkouts' = DOMAIN checkouts
         /\ checkouts'[s] = e
         /\ \A t \in DOMAIN checkouts \ {s} : checkouts'[t] = checkouts[t]
<1> DEFINE A == {checkouts[t].attempt : t \in DOMAIN checkouts}
<1> HIDE DEF A
<1>1. checkouts \in Seq(SessionsOf(A)) /\ e \in SessionsOf(A)
  BY DEF Shape, A
<1>2. checkouts' \in Seq(SessionsOf(A))
  BY <1>1
<1>3. /\ DOMAIN checkouts' = DOMAIN checkouts
      /\ checkouts'[s] = e
      /\ \A t \in DOMAIN checkouts \ {s} : checkouts'[t] = checkouts[t]
  OBVIOUS
<1>4. \A q \in Seq(SessionsOf(A)) :
        q \in Seq(SessionsOf({q[t].attempt : t \in DOMAIN q}))
  BY TightSessions
<1>5. checkouts' \in Seq(SessionsOf({checkouts'[t].attempt : t \in DOMAIN checkouts'}))
  BY ONLY <1>2, <1>4
<1> QED
  BY <1>3, <1>5

(* Stripe ends what was open or live, or sells what was handed out: it     *)
(* opens no door.                                                          *)
LEMMA StripeShuts ==
  ASSUME Shape, AtStripe
  PROVE  /\ checkouts' \in Seq(SessionsOf({checkouts'[s].attempt : s \in DOMAIN checkouts'}))
         /\ Doors' \subseteq Doors
         /\ DOMAIN checkouts' = DOMAIN checkouts
         /\ \A s \in DOMAIN checkouts : Unresolved(s)' => Unresolved(s)
         /\ \A s \in DOMAIN checkouts : checkouts'[s].status = "open" => checkouts[s].status = "open"
<1>1. PICK s \in DOMAIN checkouts : Complete(s) \/ Expire(s) \/ End(s)
  BY DEF AtStripe
<1> DEFINE A == {checkouts[t].attempt : t \in DOMAIN checkouts}
<1>2. checkouts[s] \in SessionsOf(A)
  BY SessionFields
<1> HIDE DEF A
<1>3. PICK e \in SessionsOf(A) :
        /\ checkouts' = [checkouts EXCEPT ![s] = e]
        /\ e.status = "open" => checkouts[s].status = "open"
        /\ e.status = "open" \/ e.life = "live" =>
             checkouts[s].status = "open" \/ checkouts[s].life = "live"
        /\ e.handed = checkouts[s].handed
  <2>1. CASE Complete(s)
    <3> DEFINE d == [checkouts[s] EXCEPT !.status = "complete", !.life = "live"]
    <3>1. d \in SessionsOf(A) /\ d.status = "complete" /\ d.handed = checkouts[s].handed
      BY <1>2 DEF SessionsOf
    <3>2. checkouts' = [checkouts EXCEPT ![s] = d] /\ checkouts[s].status = "open"
      BY <2>1 DEF Complete
    <3> QED
      BY <3>1, <3>2
  <2>2. CASE Expire(s)
    <3> DEFINE d == [checkouts[s] EXCEPT !.status = "expired"]
    <3>1. d \in SessionsOf(A) /\ d.status = "expired" /\ d.handed = checkouts[s].handed
      BY <1>2 DEF SessionsOf
    <3>2. checkouts' = [checkouts EXCEPT ![s] = d] /\ checkouts[s].status = "open"
      BY <2>2 DEF Expire
    <3> QED
      BY <3>1, <3>2
  <2>3. CASE End(s)
    <3> DEFINE d == [checkouts[s] EXCEPT !.life = "dead"]
    <3>1. /\ d \in SessionsOf(A) /\ d.status = checkouts[s].status
          /\ d.handed = checkouts[s].handed
      BY <1>2 DEF SessionsOf
    <3>2. checkouts' = [checkouts EXCEPT ![s] = d] /\ checkouts[s].life = "live"
      BY <2>3 DEF End
    <3> QED
      BY <3>1, <3>2
  <2> QED
    BY <1>1, <2>1, <2>2, <2>3
<1>4. e \in SessionsOf({checkouts[t].attempt : t \in DOMAIN checkouts})
  BY DEF A
<1>5. /\ checkouts' \in Seq(SessionsOf({checkouts'[t].attempt : t \in DOMAIN checkouts'}))
      /\ DOMAIN checkouts' = DOMAIN checkouts
      /\ checkouts'[s] = e
      /\ \A t \in DOMAIN checkouts \ {s} : checkouts'[t] = checkouts[t]
  BY <1>3, <1>4, EditedSession
<1> HIDE DEF Shape
<1>6. \A t \in DOMAIN checkouts : Unresolved(t)' => Unresolved(t)
  BY <1>3, <1>5 DEF Unresolved
<1>7. \A t \in DOMAIN checkouts : checkouts'[t].handed = checkouts[t].handed
  BY <1>3, <1>5
<1>8. Doors' \subseteq Doors
  BY <1>5, <1>6, <1>7 DEF Doors
<1>9. \A t \in DOMAIN checkouts : checkouts'[t].status = "open" => checkouts[t].status = "open"
  BY <1>3, <1>5
<1> QED
  BY <1>5, <1>6, <1>8, <1>9

(* Handing one out leaves the Sessions as they are, and opens that one.    *)
LEMMA HandedOut ==
  ASSUME Shape, NEW c \in Callers, NEW s \in DOMAIN checkouts, HandOut(c, s)
  PROVE  /\ checkouts' \in Seq(SessionsOf({checkouts'[t].attempt : t \in DOMAIN checkouts'}))
         /\ Doors' \subseteq Doors \cup {s}
         /\ DOMAIN checkouts' = DOMAIN checkouts
         /\ \A t \in DOMAIN checkouts : Unresolved(t)' => Unresolved(t)
<1> DEFINE A == {checkouts[t].attempt : t \in DOMAIN checkouts}
           d == [checkouts[s] EXCEPT !.handed = TRUE]
<1>1. checkouts[s] \in SessionsOf(A)
  BY SessionFields
<1> HIDE DEF A
<1>2. /\ d \in SessionsOf(A) /\ d.status = checkouts[s].status /\ d.life = checkouts[s].life
  BY <1>1 DEF SessionsOf
<1>3. checkouts' = [checkouts EXCEPT ![s] = d]
  BY DEF HandOut
<1> HIDE DEF d
<1>4. d \in SessionsOf({checkouts[t].attempt : t \in DOMAIN checkouts})
  BY <1>2 DEF A
<1>5. /\ checkouts' \in Seq(SessionsOf({checkouts'[t].attempt : t \in DOMAIN checkouts'}))
      /\ DOMAIN checkouts' = DOMAIN checkouts
      /\ checkouts'[s] = d
      /\ \A t \in DOMAIN checkouts \ {s} : checkouts'[t] = checkouts[t]
  BY <1>3, <1>4, EditedSession
<1>6. \A t \in DOMAIN checkouts : Unresolved(t)' => Unresolved(t)
  BY <1>2, <1>5 DEF Unresolved
<1>7. Doors' \subseteq Doors \cup {s}
  BY <1>5, <1>6 DEF Doors
<1> QED
  BY <1>5, <1>6, <1>7

-----------------------------------------------------------------------------
(* What a step does to the presses                                         *)

LEMMA MovedCall ==
  ASSUME Shape, NEW c \in Callers, NEW a, NEW r \in CallsOf({a}),
         calls' = [calls EXCEPT ![c] = r]
  PROVE  /\ calls' \in [Callers -> CallsOf({calls'[d].attempt : d \in Callers})]
         /\ calls'[c] = r
         /\ \A d \in Callers \ {c} : calls'[d] = calls[d]
<1> DEFINE A == {calls[d].attempt : d \in Callers}
           B == A \cup {a}
<1>1. calls \in [Callers -> CallsOf(A)]
  BY DEF Shape
<1>2. A \subseteq B /\ a \in B
  OBVIOUS
<1> HIDE DEF A, B
<1>3. \A d \in Callers : calls[d] \in CallsOf(B)
  BY <1>1, <1>2 DEF CallsOf
<1>4. r \in CallsOf(B)
  BY <1>2 DEF CallsOf
<1>5. calls' \in [Callers -> CallsOf(B)]
  BY <1>1, <1>3, <1>4
<1>6. \A f \in [Callers -> CallsOf(B)] :
        f \in [Callers -> CallsOf({f[d].attempt : d \in Callers})]
  BY TightCalls
<1>7. calls' \in [Callers -> CallsOf({calls'[d].attempt : d \in Callers})]
  BY ONLY <1>5, <1>6
<1>8. calls'[c] = r /\ \A d \in Callers \ {c} : calls'[d] = calls[d]
  BY <1>1
<1> QED
  BY <1>7, <1>8

LEMMA CallFields ==
  ASSUME Shape, NEW c \in Callers PROVE calls[c] \in CallsOf({calls[c].attempt})
<1> DEFINE A == {calls[d].attempt : d \in Callers}
<1>1. calls[c] \in CallsOf(A)
  BY DEF Shape
<1> HIDE DEF A
<1> QED
  BY <1>1 DEF CallsOf

LEMMA IdleCall == Idle \in CallsOf({None})
BY DEF Idle, CallsOf, Pcs

(* A press that goes on, and one that is over or begins again.             *)
LEMMA CallGoesOn ==
  ASSUME Shape, NEW c \in Callers, NEW p \in Pcs, NEW a, NEW n \in Nat,
         \/ calls' = [calls EXCEPT ![c].pc = p]
         \/ calls' = [calls EXCEPT ![c].pc = p, ![c].attempt = a]
         \/ calls' = [calls EXCEPT ![c].pc = p, ![c].since = n]
  PROVE  /\ calls' \in [Callers -> CallsOf({calls'[d].attempt : d \in Callers})]
         /\ calls'[c].pc = p
         /\ \A d \in Callers \ {c} : calls'[d] = calls[d]
<1> DEFINE k == calls[c]
           r == [k EXCEPT !.pc = p]
           q == [k EXCEPT !.pc = p, !.attempt = a]
           s == [k EXCEPT !.pc = p, !.since = n]
<1>1. k \in CallsOf({calls[c].attempt})
  BY CallFields
<1> HIDE DEF k
<1>2. /\ r \in CallsOf({calls[c].attempt}) /\ r.pc = p
      /\ q \in CallsOf({a}) /\ q.pc = p
      /\ s \in CallsOf({calls[c].attempt}) /\ s.pc = p
  BY <1>1 DEF CallsOf
<1>3. \/ calls' = [calls EXCEPT ![c] = r]
      \/ calls' = [calls EXCEPT ![c] = q]
      \/ calls' = [calls EXCEPT ![c] = s]
  <2>1. CASE calls' = [calls EXCEPT ![c].pc = p]
    BY <2>1 DEF k
  <2>2. CASE calls' = [calls EXCEPT ![c].pc = p, ![c].attempt = a]
    BY <2>2, CallFields DEF k, CallsOf, Shape
  <2>3. CASE calls' = [calls EXCEPT ![c].pc = p, ![c].since = n]
    BY <2>3, CallFields DEF k, CallsOf, Shape
  <2> QED
    BY <2>1, <2>2, <2>3
<1> HIDE DEF q, r, s
<1> QED
  BY <1>2, <1>3, MovedCall

LEMMA CallIsOver ==
  ASSUME Shape, NEW c \in Callers,
         \/ calls' = [calls EXCEPT ![c] = Idle]
         \/ Restart(c)
  PROVE  /\ calls' \in [Callers -> CallsOf({calls'[d].attempt : d \in Callers})]
         /\ calls'[c].pc \in {"idle", "again"}
         /\ \A d \in Callers \ {c} : calls'[d] = calls[d]
<1> DEFINE again == [Idle EXCEPT !.pc = "again", !.round = 2]
<1>1. again \in CallsOf({None}) /\ again.pc = "again"
  BY DEF Idle, CallsOf, Pcs
<1>2. Idle.pc = "idle"
  BY DEF Idle
<1>3. calls' = [calls EXCEPT ![c] = Idle] \/ calls' = [calls EXCEPT ![c] = again]
  BY DEF Restart
<1> HIDE DEF again
<1> QED
  BY <1>1, <1>2, <1>3, IdleCall, MovedCall

-----------------------------------------------------------------------------
(* The lock and the doors.  Most steps let nobody to Stripe and open none. *)

LEMMA NothingOpens ==
  ASSUME HolderFoundNone, Holders' \subseteq Holders, Doors' \subseteq Doors,
         Guarded' => Guarded
  PROVE  HolderFoundNone'
BY DEF HolderFoundNone

LEMMA SameSessions == ASSUME UNCHANGED checkouts PROVE Doors' = Doors
BY DEF Doors, Unresolved

(* A step under the new protocol, which the cutover has no part in.        *)
LEMMA UnderActive ==
  ASSUME DoorInv, rollout.state = "active", UNCHANGED <<rollout, ticks, cutoverVars>>
  PROVE  /\ NobodyEarly' /\ OldCallsEnd' /\ ReportHasItsDrain' /\ ClearIsStillSo'
         /\ Guarded' => Guarded
BY DEF DoorInv, NobodyEarly, OldCallsEnd, ReportHasItsDrain, ClearIsStillSo, cutoverVars, Guarded

(* Who is not idle presses under the new protocol.                         *)
LEMMA PressedUnderActive ==
  ASSUME DoorInv, NEW c \in Callers, calls[c].pc # "idle" PROVE rollout.state = "active"
BY DEF DoorInv, NobodyEarly

LEMMA PressShape ==
  ASSUME Shape, UNCHANGED <<rollout, ticks, cutoverVars>>,
         checkouts' \in Seq(SessionsOf({checkouts'[s].attempt : s \in DOMAIN checkouts'})),
         calls' \in [Callers -> CallsOf({calls'[c].attempt : c \in Callers})]
  PROVE  Shape'
BY DEF Shape, cutoverVars

LEMMA SameSessionShape ==
  ASSUME Shape, UNCHANGED checkouts
  PROVE  checkouts' \in Seq(SessionsOf({checkouts'[s].attempt : s \in DOMAIN checkouts'}))
BY DEF Shape

LEMMA SameCallShape ==
  ASSUME Shape, UNCHANGED calls
  PROVE  calls' \in [Callers -> CallsOf({calls'[c].attempt : c \in Callers})]
BY DEF Shape

LEMMA NobodyHolds == ASSUME Unlocked PROVE Holders = {}
BY DEF Unlocked, Holders

LEMMA OthersHold ==
  ASSUME NEW c \in Callers, \A d \in Callers \ {c} : calls'[d] = calls[d]
  PROVE  /\ calls'[c].pc \notin {"calling", "answered"} => Holders' = Holders \ {c}
         /\ Holders' \subseteq Holders \cup {c}
         /\ c \in Holders => Holders' \subseteq Holders
BY DEF Holders

-----------------------------------------------------------------------------
(* The presses                                                             *)

LEMMA ReserveDoor ==
  ASSUME DoorInv, UNCHANGED cutoverVars, NEW c \in Callers, Reserve(c) PROVE DoorInv'
<1>1. Shape /\ rollout.state = "active" /\ UNCHANGED <<rollout, ticks, checkouts>>
  BY DEF DoorInv, Reserve
<1>2. PICK a : calls' = [calls EXCEPT ![c].pc = "reserved", ![c].attempt = a]
  BY DEF Reserve
<1>3. /\ calls' \in [Callers -> CallsOf({calls'[d].attempt : d \in Callers})]
      /\ calls'[c].pc = "reserved" /\ \A d \in Callers \ {c} : calls'[d] = calls[d]
  BY <1>1, <1>2, CallGoesOn, 0 \in Nat DEF Pcs
<1>4. Shape'
  BY <1>1, <1>3, SameSessionShape, PressShape
<1>5. NobodyEarly' /\ OldCallsEnd' /\ ReportHasItsDrain' /\ ClearIsStillSo' /\ (Guarded' => Guarded)
  BY <1>1, UnderActive
<1>6. Holders' \subseteq Holders /\ Doors' \subseteq Doors
  BY <1>1, <1>3, OthersHold, SameSessions
<1>7. HolderFoundNone'
  BY <1>5, <1>6, NothingOpens DEF DoorInv
<1> QED
  BY <1>4, <1>5, <1>7 DEF DoorInv

(* Nothing of the customer's but the match is unresolved, or nothing at    *)
(* all, when a press has looked and goes on.                               *)
LEMMA ScanFoundAll ==
  ASSUME Conflicts = {} PROVE \A s \in DOMAIN checkouts : Unresolved(s) => s \in Matches
BY DEF Conflicts

LEMMA ResolveFoundDoor ==
  ASSUME DoorInv, UNCHANGED cutoverVars, NEW c \in Callers, NEW s \in DOMAIN checkouts,
         ResolveFound(c, s)
  PROVE  DoorInv'
<1>1. Shape /\ rollout.state = "active" /\ UNCHANGED <<rollout, ticks>>
  BY DEF DoorInv, ResolveFound, Resolves
<1>2. Holders = {} /\ \A t \in DOMAIN checkouts : Unresolved(t) => t = s
  BY NobodyHolds, ScanFoundAll DEF ResolveFound, Resolves
<1>3. /\ Restart(c) \/ calls' = [calls EXCEPT ![c] = Idle]
      /\ HandOut(c, s) \/ UNCHANGED checkouts
  BY DEF ResolveFound, HandOut
<1>4. /\ calls' \in [Callers -> CallsOf({calls'[d].attempt : d \in Callers})]
      /\ calls'[c].pc \in {"idle", "again"} /\ \A d \in Callers \ {c} : calls'[d] = calls[d]
  BY <1>1, <1>3, CallIsOver
<1>5. Holders' = {}
  BY <1>2, <1>4, OthersHold
<1>6. /\ checkouts' \in Seq(SessionsOf({checkouts'[t].attempt : t \in DOMAIN checkouts'}))
      /\ Doors' \subseteq {s}
  <2>1. Doors \subseteq {s}
    BY <1>2 DEF Doors
  <2>2. CASE HandOut(c, s)
    BY <1>1, <2>1, <2>2, HandedOut
  <2>3. CASE UNCHANGED checkouts
    BY <1>1, <2>1, <2>3, SameSessions, SameSessionShape
  <2> QED
    BY <1>3, <2>2, <2>3
<1>7. Shape'
  BY <1>1, <1>4, <1>6, PressShape
<1>8. NobodyEarly' /\ OldCallsEnd' /\ ReportHasItsDrain' /\ ClearIsStillSo'
  BY <1>1, UnderActive
<1>9. HolderFoundNone'
  BY <1>5, <1>6 DEF HolderFoundNone
<1> QED
  BY <1>7, <1>8, <1>9 DEF DoorInv

LEMMA ResolveMissingDoor ==
  ASSUME DoorInv, UNCHANGED cutoverVars, NEW c \in Callers, ResolveMissing(c)
  PROVE  DoorInv'
<1>1. /\ Shape /\ rollout.state = "active" /\ UNCHANGED <<rollout, ticks, checkouts>>
      /\ ticks \in Nat
  BY DEF DoorInv, ResolveMissing, Resolves, Shape
<1>2. Holders = {} /\ \A t \in DOMAIN checkouts : ~Unresolved(t)
  BY NobodyHolds, ScanFoundAll DEF ResolveMissing, Resolves
<1>3. \/ Restart(c)
      \/ calls' = [calls EXCEPT ![c].pc = "calling", ![c].since = ticks]
  BY DEF ResolveMissing
<1>4. /\ calls' \in [Callers -> CallsOf({calls'[d].attempt : d \in Callers})]
      /\ \A d \in Callers \ {c} : calls'[d] = calls[d]
  BY <1>1, <1>3, CallIsOver, CallGoesOn DEF Pcs
<1>5. Holders' \subseteq {c} /\ Doors' = {}
  BY <1>1, <1>2, <1>4, OthersHold, SameSessions DEF Doors
<1>6. Shape'
  BY <1>1, <1>4, SameSessionShape, PressShape
<1>7. NobodyEarly' /\ OldCallsEnd' /\ ReportHasItsDrain' /\ ClearIsStillSo'
  BY <1>1, UnderActive
<1>8. HolderFoundNone'
  BY <1>5 DEF HolderFoundNone
<1> QED
  BY <1>6, <1>7, <1>8 DEF DoorInv

(* Stripe opens a Session for a key it has none for; nobody has its        *)
(* address yet.                                                            *)
LEMMA OpenedIsNoDoor ==
  ASSUME Shape, NEW a, Opened(a)
  PROVE  /\ checkouts' \in Seq(SessionsOf({checkouts'[s].attempt : s \in DOMAIN checkouts'}))
         /\ Doors' \subseteq Doors
BY OpenedSession, SameSessions, SameSessionShape DEF Opened

LEMMA ArriveDoor ==
  ASSUME DoorInv, UNCHANGED cutoverVars, NEW c \in Callers, Arrive(c) PROVE DoorInv'
<1>1. /\ Shape /\ calls[c].pc = "calling" /\ UNCHANGED <<rollout, ticks>>
      /\ calls' = [calls EXCEPT ![c].pc = "answered"]
  BY DEF DoorInv, Arrive
<1>2. rollout.state = "active"
  BY <1>1, PressedUnderActive
<1>3. /\ checkouts' \in Seq(SessionsOf({checkouts'[s].attempt : s \in DOMAIN checkouts'}))
      /\ Doors' \subseteq Doors
  BY <1>1, OpenedIsNoDoor DEF Arrive
<1>4. /\ calls' \in [Callers -> CallsOf({calls'[d].attempt : d \in Callers})]
      /\ \A d \in Callers \ {c} : calls'[d] = calls[d]
  BY <1>1, CallGoesOn, 0 \in Nat DEF Pcs
<1>5. Holders' \subseteq Holders
  BY <1>1, <1>4, OthersHold DEF Holders
<1>6. Shape'
  BY <1>1, <1>3, <1>4, PressShape
<1>7. NobodyEarly' /\ OldCallsEnd' /\ ReportHasItsDrain' /\ ClearIsStillSo' /\ (Guarded' => Guarded)
  BY <1>1, <1>2, UnderActive
<1>8. HolderFoundNone'
  BY <1>3, <1>5, <1>7, NothingOpens DEF DoorInv
<1> QED
  BY <1>6, <1>7, <1>8 DEF DoorInv

LEMMA ArriveAdriftDoor ==
  ASSUME DoorInv, UNCHANGED cutoverVars, NEW w \in adrift, ArriveAdrift(w) PROVE DoorInv'
<1>1. Shape /\ UNCHANGED <<rollout, ticks, calls>> /\ rollout.state = "active"
  BY DEF DoorInv, ArriveAdrift, NobodyEarly
<1>2. /\ checkouts' \in Seq(SessionsOf({checkouts'[s].attempt : s \in DOMAIN checkouts'}))
      /\ Doors' \subseteq Doors
  BY <1>1, OpenedIsNoDoor DEF ArriveAdrift
<1>3. Holders' \subseteq Holders
  BY <1>1 DEF Holders
<1>4. Shape'
  BY <1>1, <1>2, SameCallShape, PressShape
<1>5. NobodyEarly' /\ OldCallsEnd' /\ ReportHasItsDrain' /\ ClearIsStillSo' /\ (Guarded' => Guarded)
  BY <1>1, UnderActive
<1>6. HolderFoundNone'
  BY <1>2, <1>3, <1>5, NothingOpens DEF DoorInv
<1> QED
  BY <1>4, <1>5, <1>6 DEF DoorInv

(* Whose call was answered held the lock since before it was made, and had *)
(* found no door then.                                                     *)
LEMMA AnswerDoor ==
  ASSUME DoorInv, UNCHANGED cutoverVars, NEW c \in Callers, Answer(c) PROVE DoorInv'
<1>1. Shape /\ calls[c].pc = "answered" /\ UNCHANGED <<rollout, ticks>>
  BY DEF DoorInv, Answer
<1>2. PICK s \in DOMAIN checkouts : HandOut(c, s)
  BY DEF Answer
<1>3. rollout.state = "active"
  BY <1>1, PressedUnderActive
<1>4. c \in Holders /\ \A d \in Holders : d = c
  BY <1>1 DEF DoorInv, HolderFoundNone, Holders
<1>5. /\ calls' \in [Callers -> CallsOf({calls'[d].attempt : d \in Callers})]
      /\ calls'[c].pc \in {"idle", "again"} /\ \A d \in Callers \ {c} : calls'[d] = calls[d]
  BY <1>1, <1>2, CallIsOver DEF HandOut
<1>6. Holders' = {}
  BY <1>4, <1>5, OthersHold
<1>7. /\ checkouts' \in Seq(SessionsOf({checkouts'[t].attempt : t \in DOMAIN checkouts'}))
      /\ Doors' \subseteq Doors \cup {s}
  BY <1>1, <1>2, HandedOut
<1>8. Shape'
  BY <1>1, <1>5, <1>7, PressShape
<1>9. NobodyEarly' /\ OldCallsEnd' /\ ReportHasItsDrain' /\ ClearIsStillSo' /\ (Guarded' => Guarded)
  BY <1>1, <1>3, UnderActive
<1>10. HolderFoundNone'
  <2>1. Guarded' => Doors = {}
    BY <1>4, <1>9 DEF DoorInv, HolderFoundNone
  <2> QED
    BY <1>6, <1>7, <2>1 DEF HolderFoundNone
<1> QED
  BY <1>8, <1>9, <1>10 DEF DoorInv

LEMMA LeaveDoor ==
  ASSUME DoorInv, UNCHANGED cutoverVars, NEW c \in Callers, Leave(c) PROVE DoorInv'
<1>1. /\ Shape /\ calls[c].pc # "idle" /\ UNCHANGED <<rollout, ticks, checkouts>>
      /\ calls' = [calls EXCEPT ![c] = Idle]
  BY DEF DoorInv, Leave
<1>2. rollout.state = "active"
  BY <1>1, PressedUnderActive
<1>3. /\ calls' \in [Callers -> CallsOf({calls'[d].attempt : d \in Callers})]
      /\ calls'[c].pc \in {"idle", "again"} /\ \A d \in Callers \ {c} : calls'[d] = calls[d]
  BY <1>1, CallIsOver
<1>4. Holders' \subseteq Holders /\ Doors' \subseteq Doors
  BY <1>1, <1>3, OthersHold, SameSessions
<1>5. Shape'
  BY <1>1, <1>3, SameSessionShape, PressShape
<1>6. NobodyEarly' /\ OldCallsEnd' /\ ReportHasItsDrain' /\ ClearIsStillSo' /\ (Guarded' => Guarded)
  BY <1>1, <1>2, UnderActive
<1>7. HolderFoundNone'
  BY <1>4, <1>6, NothingOpens DEF DoorInv
<1> QED
  BY <1>5, <1>6, <1>7 DEF DoorInv

-----------------------------------------------------------------------------
(* Stripe, the webhook and the operator                                    *)

LEMMA StripeDoor == ASSUME DoorInv, UNCHANGED cutoverVars, AtStripe PROVE DoorInv'
<1>1. Shape /\ UNCHANGED <<rollout, ticks, calls, adrift, saved>>
  BY DEF DoorInv, AtStripe
<1>2. /\ checkouts' \in Seq(SessionsOf({checkouts'[s].attempt : s \in DOMAIN checkouts'}))
      /\ Doors' \subseteq Doors
      /\ DOMAIN checkouts' = DOMAIN checkouts
      /\ \A s \in DOMAIN checkouts : Unresolved(s)' => Unresolved(s)
      /\ \A s \in DOMAIN checkouts : checkouts'[s].status = "open" => checkouts[s].status = "open"
  BY <1>1, StripeShuts
<1>3. Shape'
  BY <1>1, <1>2, SameCallShape, PressShape
<1>4. NobodyEarly' /\ OldCallsEnd' /\ ReportHasItsDrain' /\ (Guarded' => Guarded)
  BY <1>1 DEF DoorInv, NobodyEarly, OldCallsEnd, ReportHasItsDrain, Guarded, cutoverVars
<1>5. ClearIsStillSo'
  BY <1>1, <1>2 DEF DoorInv, ClearIsStillSo, cutoverVars
<1>6. HolderFoundNone'
  BY <1>1, <1>2, <1>4, NothingOpens DEF DoorInv, Holders
<1> QED
  BY <1>3, <1>4, <1>5, <1>6 DEF DoorInv

(* A step that is about the row alone.                                     *)
LEMMA RowOnlyDoor ==
  ASSUME DoorInv, UNCHANGED cutoverVars, UNCHANGED <<rollout, ticks, calls, adrift, checkouts>>,
         saved'.taken = saved.taken \/ rollout.state = "active"
  PROVE  DoorInv'
<1>1. Shape'
  BY SameCallShape, SameSessionShape, PressShape DEF DoorInv
<1>2. NobodyEarly' /\ OldCallsEnd' /\ ReportHasItsDrain' /\ (Guarded' => Guarded)
  BY DEF DoorInv, NobodyEarly, OldCallsEnd, ReportHasItsDrain, Guarded, cutoverVars
<1>3. ClearIsStillSo'
  BY DEF DoorInv, ClearIsStillSo, cutoverVars, Unresolved
<1>4. HolderFoundNone'
  BY <1>2, SameSessions, NothingOpens DEF DoorInv, Holders
<1> QED
  BY <1>1, <1>2, <1>3, <1>4 DEF DoorInv

LEMMA RestoreDoor == ASSUME DoorInv, UNCHANGED cutoverVars, RestoreBackup PROVE DoorInv'
<1>1. /\ Shape /\ UNCHANGED <<rollout, ticks, checkouts>> /\ rollout.state = "active"
      /\ calls' = [c \in Callers |-> Idle]
  BY DEF DoorInv, RestoreBackup, NobodyEarly
<1>2. calls' \in [Callers -> CallsOf({None})]
  BY <1>1, IdleCall
<1>3. calls' \in [Callers -> CallsOf({calls'[d].attempt : d \in Callers})]
  <2>1. \A f \in [Callers -> CallsOf({None})] :
          f \in [Callers -> CallsOf({f[d].attempt : d \in Callers})]
    BY TightCalls
  <2> QED
    BY ONLY <1>2, <2>1
<1>4. Holders' = {}
  BY <1>1 DEF Holders, Idle
<1>5. Shape'
  BY <1>1, <1>3, SameSessionShape, PressShape
<1>6. NobodyEarly' /\ OldCallsEnd' /\ ReportHasItsDrain' /\ ClearIsStillSo' /\ (Guarded' => Guarded)
  BY <1>1, UnderActive
<1>7. HolderFoundNone'
  BY <1>1, <1>4, <1>6, SameSessions, NothingOpens DEF DoorInv
<1> QED
  BY <1>5, <1>6, <1>7 DEF DoorInv

LEMMA PressDoor == ASSUME DoorInv, PressNext, UNCHANGED cutoverVars PROVE DoorInv'
<1>1. ASSUME NEW c \in Callers,
             \/ Reserve(c) \/ ResolveMissing(c) \/ Arrive(c) \/ Answer(c) \/ Leave(c)
             \/ \E s \in DOMAIN checkouts : ResolveFound(c, s)
      PROVE  DoorInv'
  BY <1>1, ReserveDoor, ResolveMissingDoor, ArriveDoor, AnswerDoor, LeaveDoor, ResolveFoundDoor
<1>2. CASE Backup
  BY <1>2, RowOnlyDoor DEF Backup
<1>3. ASSUME NEW i \in DOMAIN sent, Deliver(i) PROVE DoorInv'
  BY <1>3, RowOnlyDoor DEF Deliver
<1>4. ASSUME NEW s \in DOMAIN checkouts, Reconcile(s) PROVE DoorInv'
  BY <1>4, RowOnlyDoor DEF Reconcile
<1> QED
  BY <1>1, <1>2, <1>3, <1>4, ArriveAdriftDoor, StripeDoor, RestoreDoor DEF PressNext

-----------------------------------------------------------------------------
(* The old binary                                                          *)

LEMMA OldQuietDoor ==
  ASSUME DoorInv, UNCHANGED checkoutVars, UNCHANGED report,
         alive' \in BOOLEAN, alive' => alive, vouched' = vouched,
         oldCall' \in [OldCalls -> [pc : {"idle", "read", "sent"}, since : Nat]],
         \A o \in OldCalls : oldCall'[o].pc = "sent" =>
            \/ oldCall'[o] = oldCall[o]
            \/ oldCall'[o].since = ticks /\ alive
  PROVE  DoorInv'
<1>1. Shape'
  BY DEF DoorInv, Shape, checkoutVars
<1>2. NobodyEarly'
  BY DEF DoorInv, NobodyEarly, checkoutVars
<1>3. ticks \in Nat /\ Window \in Nat
  BY CheckoutAssumption DEF DoorInv, Shape
<1>4. OldCallsEnd'
  <2>1. vouched' => ~alive'
    BY DEF DoorInv, OldCallsEnd
  <2> SUFFICES ASSUME NEW o \in OldCalls, oldCall'[o].pc = "sent"
               PROVE  /\ oldCall'[o].since <= ticks' /\ ticks' <= oldCall'[o].since + Window
                      /\ rollout'.state = "draining" /\ vouched' => oldCall'[o].since <= rollout'.drained
    BY <2>1 DEF OldCallsEnd
  <2>2. CASE oldCall'[o] = oldCall[o]
    BY <2>2 DEF DoorInv, OldCallsEnd, checkoutVars
  <2>3. CASE oldCall'[o].since = ticks /\ alive
    <3>1. ~vouched'
      BY <2>3 DEF DoorInv, OldCallsEnd
    <3> QED
      BY <1>3, <2>3, <3>1 DEF checkoutVars
  <2> QED
    BY <2>2, <2>3
<1>5. ReportHasItsDrain'
  BY DEF DoorInv, ReportHasItsDrain, checkoutVars
<1>6. ClearIsStillSo'
  BY DEF DoorInv, ClearIsStillSo, OldCallsEnd, checkoutVars, Unresolved
<1>7. HolderFoundNone'
  BY SameSessions, NothingOpens DEF DoorInv, Holders, Guarded, checkoutVars
<1> QED
  BY <1>1, <1>2, <1>4, <1>5, <1>6, <1>7 DEF DoorInv

LEMMA OldArriveDoor == ASSUME DoorInv, NEW o \in OldCalls, OldArrive(o) PROVE DoorInv'
<1>1. /\ Shape /\ OpenSession(None, alive) /\ oldCall[o].pc = "sent"
      /\ oldCall' = [oldCall EXCEPT ![o] = Parked]
      /\ UNCHANGED <<rollout, calls, adrift, ticks, saved, alive, report, vouched>>
  BY DEF DoorInv, OldArrive
<1>2. /\ checkouts' \in Seq(SessionsOf({checkouts'[s].attempt : s \in DOMAIN checkouts'}))
      /\ ~alive => Doors' \subseteq Doors
  BY <1>1, OpenedSession DEF Shape
<1>3. /\ oldCall' \in [OldCalls -> [pc : {"idle", "read", "sent"}, since : Nat]]
      /\ \A p \in OldCalls : oldCall'[p].pc = "sent" => oldCall'[p] = oldCall[p]
  BY <1>1 DEF Shape, Parked
<1>4. Shape'
  BY <1>1, <1>2, <1>3 DEF Shape
<1>5. NobodyEarly' /\ ReportHasItsDrain' /\ (Guarded' => Guarded)
  BY <1>1 DEF DoorInv, NobodyEarly, ReportHasItsDrain, Guarded
<1>6. OldCallsEnd'
  BY <1>1, <1>3 DEF DoorInv, OldCallsEnd
<1>7. ClearIsStillSo'
  BY <1>1 DEF DoorInv, ClearIsStillSo
<1>8. HolderFoundNone'
  <2>1. CASE alive
    BY <1>1, <2>1 DEF DoorInv, OldCallsEnd, HolderFoundNone, Holders, Guarded
  <2>2. CASE ~alive
    BY <1>1, <1>2, <1>5, <2>2, NothingOpens DEF DoorInv, Holders
  <2> QED
    BY <2>1, <2>2
<1> QED
  BY <1>4, <1>5, <1>6, <1>7, <1>8 DEF DoorInv

LEMMA OldDoor ==
  ASSUME DoorInv, NEW o \in OldCalls, OldRead(o) \/ OldSend(o) \/ OldArrive(o) PROVE DoorInv'
<1>1. /\ oldCall \in [OldCalls -> [pc : {"idle", "read", "sent"}, since : Nat]]
      /\ ticks \in Nat /\ alive \in BOOLEAN
  BY DEF DoorInv, Shape
<1>2. CASE OldRead(o)
  <2>1. /\ oldCall' \in [OldCalls -> [pc : {"idle", "read", "sent"}, since : Nat]]
        /\ \A p \in OldCalls : oldCall'[p].pc = "sent" => oldCall'[p] = oldCall[p]
    BY <1>1, <1>2 DEF OldRead
  <2> QED
    BY <1>1, <1>2, <2>1, OldQuietDoor DEF OldRead
<1>3. CASE OldSend(o)
  <2>1. /\ oldCall' \in [OldCalls -> [pc : {"idle", "read", "sent"}, since : Nat]]
        /\ oldCall'[o].since = ticks
        /\ \A p \in OldCalls \ {o} : oldCall'[p] = oldCall[p]
    BY <1>1, <1>3 DEF OldSend
  <2> QED
    BY <1>1, <1>3, <2>1, OldQuietDoor DEF OldSend
<1> QED
  BY <1>2, <1>3, OldArriveDoor

LEMMA StopDoor == ASSUME DoorInv, StopFleet PROVE DoorInv'
<1>1. oldCall \in [OldCalls -> [pc : {"idle", "read", "sent"}, since : Nat]]
  BY DEF DoorInv, Shape
<1>2. /\ oldCall' \in [OldCalls -> [pc : {"idle", "read", "sent"}, since : Nat]]
      /\ \A p \in OldCalls : oldCall'[p].pc = "sent" => oldCall'[p] = oldCall[p]
  BY <1>1 DEF StopFleet, Parked
<1> QED
  BY <1>2, OldQuietDoor DEF StopFleet

-----------------------------------------------------------------------------
(* The cutover                                                             *)

LEMMA DrainDoor == ASSUME DoorInv, BeginDrain \/ RestartDrain PROVE DoorInv'
<1>1. /\ rollout \in [state : {"expanded", "draining", "active"}, revision : Nat, drained : Nat]
      /\ report \in [clear : BOOLEAN, revision : Nat] /\ ticks \in Nat /\ alive \in BOOLEAN
      /\ oldCall \in [OldCalls -> [pc : {"idle", "read", "sent"}, since : Nat]]
  BY DEF DoorInv, Shape
<1>2. PICK n \in Nat : Drain(n) /\ report.revision < n /\ rollout.state # "active"
  <2>1. CASE BeginDrain
    <3>1. report.revision < 1
      BY <1>1, <2>1 DEF BeginDrain, DoorInv, ReportHasItsDrain
    <3> QED
      BY <2>1, <3>1 DEF BeginDrain
  <2>2. CASE RestartDrain
    <3>1. report.revision < rollout.revision + 1
      BY <1>1 DEF DoorInv, ReportHasItsDrain
    <3> QED
      BY <1>1, <2>2, <3>1 DEF RestartDrain
  <2> QED
    BY <2>1, <2>2
<1>3. /\ rollout' = [state |-> "draining", revision |-> n, drained |-> ticks]
      /\ vouched' = ~alive
      /\ UNCHANGED <<checkouts, calls, adrift, ticks, saved, alive, oldCall, report>>
  BY <1>2 DEF Drain
<1>4. rollout'.state = "draining" /\ rollout'.revision = n /\ rollout'.drained = ticks
  BY <1>3
<1>5. Shape'
  <2>1. rollout' \in [state : {"expanded", "draining", "active"}, revision : Nat, drained : Nat]
    BY <1>1, <1>3
  <2>2. vouched' \in BOOLEAN
    BY <1>3
  <2> QED
    BY <1>3, <2>1, <2>2 DEF DoorInv, Shape
<1>6. NobodyEarly'
  BY <1>2, <1>3 DEF DoorInv, NobodyEarly
<1>7. OldCallsEnd'
  <2>1. \A o \in OldCalls : oldCall[o].pc = "sent" =>
           oldCall[o].since <= ticks /\ ticks <= oldCall[o].since + Window
    BY DEF DoorInv, OldCallsEnd
  <2> QED
    BY <1>3, <1>4, <2>1 DEF OldCallsEnd
<1>8. ReportHasItsDrain'
  BY <1>1, <1>2, <1>3, <1>4 DEF ReportHasItsDrain
<1>9. ClearIsStillSo'
  BY <1>1, <1>2, <1>3, <1>4 DEF ClearIsStillSo
<1>10. HolderFoundNone'
  BY <1>3, <1>4, SameSessions, NothingOpens DEF DoorInv, Holders, Guarded
<1> QED
  BY <1>5, <1>6, <1>7, <1>8, <1>9, <1>10 DEF DoorInv

(* An audit after the quiescence, behind a fence that was put up after the *)
(* fleet had stopped, has every old call behind it.                        *)
LEMMA AuditDoor == ASSUME DoorInv, Audit PROVE DoorInv'
<1>1. /\ rollout \in [state : {"expanded", "draining", "active"}, revision : Nat, drained : Nat]
      /\ report \in [clear : BOOLEAN, revision : Nat] /\ ticks \in Nat
      /\ oldCall \in [OldCalls -> [pc : {"idle", "read", "sent"}, since : Nat]]
  BY DEF DoorInv, Shape
<1>2. PICK b \in BOOLEAN :
        /\ b => RowFound /\ \A s \in DOMAIN checkouts : ~Blocks(s)
        /\ report' = [clear |-> b, revision |-> rollout.revision]
  BY DEF Audit
<1>3. report'.clear = b /\ report'.revision = rollout.revision
  BY <1>2
<1>4. UNCHANGED <<checkouts, calls, adrift, ticks, saved, rollout, alive, oldCall, vouched>>
  BY DEF Audit, checkoutVars
<1>5. Shape'
  <2>1. report' \in [clear : BOOLEAN, revision : Nat]
    BY <1>1, <1>2
  <2> QED
    BY <1>4, <2>1 DEF DoorInv, Shape
<1>6. NobodyEarly' /\ OldCallsEnd' /\ (Guarded' => Guarded)
  BY <1>4 DEF DoorInv, NobodyEarly, OldCallsEnd, Guarded
<1>7. ReportHasItsDrain'
  BY <1>1, <1>3, <1>4 DEF DoorInv, ReportHasItsDrain
<1>8. ClearIsStillSo'
  <2> SUFFICES ASSUME rollout.state = "draining", vouched, b
               PROVE  /\ \A o \in OldCalls : oldCall[o].pc # "sent"
                      /\ \A s \in DOMAIN checkouts : checkouts[s].status # "open"
                      /\ \A s, t \in DOMAIN checkouts : Unresolved(s) /\ Unresolved(t) => s = t
    BY <1>3, <1>4 DEF ClearIsStillSo, Unresolved
  <2>1. ASSUME NEW o \in OldCalls, oldCall[o].pc = "sent" PROVE FALSE
    <3>1. oldCall[o].since <= rollout.drained /\ ticks <= oldCall[o].since + Window
      BY <2>1 DEF DoorInv, OldCallsEnd
    <3>2. oldCall[o].since \in Nat /\ rollout.drained \in Nat
      BY <1>1
    <3>3. ticks - rollout.drained >= Quiescence
      BY DEF Audit
    <3> QED
      BY <1>1, <3>1, <3>2, <3>3, CheckoutAssumption, CutoverAssumption
  <2>2. \A s \in DOMAIN checkouts : checkouts[s].status # "open"
    BY <1>2 DEF Blocks
  <2>3. \A s \in DOMAIN checkouts : checkouts[s].life = "live" => row.sub = s
    BY <1>2 DEF Blocks
  <2>4. \A s \in DOMAIN checkouts : Unresolved(s) => row.sub = s
    BY <2>2, <2>3 DEF Unresolved
  <2> QED
    BY <2>1, <2>2, <2>4
<1>9. HolderFoundNone'
  BY <1>4, <1>6, SameSessions, NothingOpens DEF DoorInv, Holders
<1> QED
  BY <1>5, <1>6, <1>7, <1>8, <1>9 DEF DoorInv

LEMMA ActivateDoor == ASSUME DoorInv, Activate PROVE DoorInv'
<1>1. /\ rollout \in [state : {"expanded", "draining", "active"}, revision : Nat, drained : Nat]
      /\ rollout.state = "draining"
  BY DEF DoorInv, Shape, Activate
<1>2. /\ rollout' = [rollout EXCEPT !.state = "active"]
      /\ UNCHANGED <<checkouts, calls, adrift, ticks, saved, alive, oldCall, report, vouched>>
  BY DEF Activate, cutoverVars
<1>3. rollout'.state = "active" /\ rollout'.revision = rollout.revision
  BY <1>1, <1>2
<1>4. Shape'
  BY SMTT(30), <1>1, <1>2 DEF DoorInv, Shape
<1>5. NobodyEarly' /\ OldCallsEnd' /\ ReportHasItsDrain' /\ ClearIsStillSo'
  BY <1>2, <1>3 DEF DoorInv, NobodyEarly, OldCallsEnd, ReportHasItsDrain, ClearIsStillSo
<1>6. HolderFoundNone'
  <2>1. Holders' = {}
    BY <1>1, <1>2 DEF DoorInv, NobodyEarly, Holders
  <2>2. Guarded' => \A s, t \in Doors : s = t
    BY <1>1, <1>2 DEF Activate, Guarded, DoorInv, ClearIsStillSo, Doors
  <2> QED
    BY <1>2, <2>1, <2>2, SameSessions DEF HolderFoundNone
<1> QED
  BY <1>4, <1>5, <1>6 DEF DoorInv

LEMMA TickDoor == ASSUME DoorInv, CutoverTick PROVE DoorInv'
<1>1. /\ ticks' = ticks + 1 /\ ticks \in Nat
      /\ oldCall \in [OldCalls -> [pc : {"idle", "read", "sent"}, since : Nat]]
      /\ UNCHANGED <<checkouts, calls, adrift, saved, rollout, cutoverVars>>
  BY DEF DoorInv, Shape, CutoverTick, CheckoutTick
<1>2. Shape'
  <2>1. ticks' \in Nat
    BY <1>1
  <2>2. UNCHANGED <<checkouts, calls, rollout, report, oldCall, alive, vouched>>
    BY <1>1 DEF cutoverVars
  <2> QED
    BY <2>1, <2>2 DEF DoorInv, Shape
<1>3. NobodyEarly' /\ ReportHasItsDrain' /\ ClearIsStillSo' /\ (Guarded' => Guarded)
  BY <1>1
  DEF DoorInv, NobodyEarly, ReportHasItsDrain, ClearIsStillSo, Unresolved, Guarded, cutoverVars
<1>4. OldCallsEnd'
  <2>1. \A o \in OldCalls : oldCall[o].since \in Nat
    BY <1>1
  <2>2. \A o \in OldCalls : oldCall[o].pc = "sent" => ticks < oldCall[o].since + Window
    BY DEF CutoverTick
  <2> QED
    BY <1>1, <2>1, <2>2, CheckoutAssumption DEF DoorInv, OldCallsEnd, cutoverVars
<1>5. HolderFoundNone'
  BY <1>1, <1>3, SameSessions, NothingOpens DEF DoorInv, Holders
<1> QED
  BY <1>2, <1>3, <1>4, <1>5 DEF DoorInv

-----------------------------------------------------------------------------
LEMMA InitDoor == ASSUME CutoverInit \/ ActiveInit PROVE DoorInv
<1>1. Shape
  <2>1. checkouts = <<>> /\ calls = [c \in Callers |-> Idle] /\ ticks = 0
    BY DEF CutoverInit, ActiveInit, CheckoutInit
  <2>2. checkouts \in Seq(SessionsOf({checkouts[s].attempt : s \in DOMAIN checkouts}))
    BY <2>1
  <2>3. calls \in [Callers -> CallsOf({calls[d].attempt : d \in Callers})]
    <3>1. calls \in [Callers -> CallsOf({None})]
      BY <2>1, IdleCall
    <3>2. \A f \in [Callers -> CallsOf({None})] :
            f \in [Callers -> CallsOf({f[d].attempt : d \in Callers})]
      BY TightCalls
    <3> QED
      BY ONLY <3>1, <3>2
  <2>4. rollout \in [state : {"expanded", "draining", "active"}, revision : Nat, drained : Nat]
    BY DEF CutoverInit, ActiveInit
  <2>5. report \in [clear : BOOLEAN, revision : Nat]
    <3>1. \/ report = [clear |-> FALSE, revision |-> 0]
          \/ report = [clear |-> TRUE, revision |-> 1]
      BY DEF CutoverInit, ActiveInit
    <3>2. /\ [clear |-> FALSE, revision |-> 0] \in [clear : BOOLEAN, revision : Nat]
          /\ [clear |-> TRUE, revision |-> 1] \in [clear : BOOLEAN, revision : Nat]
      OBVIOUS
    <3> QED
      BY <3>1, <3>2
  <2>6. alive \in BOOLEAN /\ vouched \in BOOLEAN
    <3>1. CASE CutoverInit
      BY Zenon, <3>1 DEF CutoverInit
    <3>2. CASE ActiveInit
      BY Zenon, <3>2 DEF ActiveInit
    <3> QED
      BY <3>1, <3>2
  <2>7. oldCall \in [OldCalls -> [pc : {"idle", "read", "sent"}, since : Nat]]
    BY DEF CutoverInit, ActiveInit, Parked
  <2> QED
    BY <2>1, <2>2, <2>3, <2>4, <2>5, <2>6, <2>7 DEF Shape
<1>2. NobodyEarly
  BY DEF CutoverInit, ActiveInit, CheckoutInit, NobodyEarly, Idle, NoBackup
<1>3. OldCallsEnd
  BY DEF CutoverInit, ActiveInit, OldCallsEnd, Parked
<1>4. ReportHasItsDrain /\ ClearIsStillSo
  BY DEF CutoverInit, ActiveInit, ReportHasItsDrain, ClearIsStillSo
<1>5. HolderFoundNone
  BY DEF CutoverInit, ActiveInit, CheckoutInit, HolderFoundNone, Holders, Doors, Idle
<1> QED
  BY <1>1, <1>2, <1>3, <1>4, <1>5 DEF DoorInv

LEMMA NextDoor == DoorInv /\ [CutoverNext]_allVars => DoorInv'
<1> SUFFICES ASSUME DoorInv, [CutoverNext]_allVars PROVE DoorInv'
  OBVIOUS
<1>1. ASSUME NEW o \in OldCalls, OldRead(o) \/ OldSend(o) \/ OldArrive(o) PROVE DoorInv'
  BY <1>1, OldDoor
<1>2. CASE UNCHANGED allVars
  BY <1>2, RowOnlyDoor DEF allVars, checkoutVars
<1> QED
  BY <1>1, <1>2, StopDoor, DrainDoor, AuditDoor, ActivateDoor, TickDoor, PressDoor DEF CutoverNext

LEMMA DoorInvariant == CutoverSpec => []DoorInv
<1> QED
  BY InitDoor, NextDoor, PTL DEF CutoverSpec, allVars

(* However often a plan is pressed, whatever calls and answers are lost,   *)
(* with a restored database and with what the old binary left behind: the  *)
(* owner holds one Checkout that can bill at most, if the fleet had been   *)
(* stopped as the operator said (createTierCheckoutUrl and                 *)
(* activateTierCheckoutAttemptProtocol).                                   *)
THEOREM CheckoutHasOneDoor == CutoverSpec => []OneDoor
<1>1. DoorInv => OneDoor
  <2> SUFFICES ASSUME DoorInv, Guarded PROVE Cardinality(Doors) <= 1
    BY DEF OneDoor
  <2>1. \A s, t \in Doors : s = t
    BY DEF DoorInv, HolderFoundNone
  <2>2. CASE Doors = {}
    BY <2>2, FS_EmptySet
  <2>3. CASE Doors # {}
    <3>1. PICK s : Doors = {s}
      BY <2>1, <2>3
    <3> QED
      BY <3>1, FS_Singleton
  <2> QED
    BY <2>2, <2>3
<1> QED
  BY <1>1, DoorInvariant, PTL

-----------------------------------------------------------------------------
(* The row knows its door.  The numbers of the row, the Sessions and the   *)
(* calls are of their types, which needs to know what a replay of the      *)
(* webhook's handlers returns.                                             *)

RowsOf(n, a) ==
  [fenced : BOOLEAN, dead : 0..MaxCheckouts, sub : 0..MaxCheckouts,
   status : {"none", "live", "dead"}, seen : 0..n, attempt : 0..a, since : 0..MaxTicks,
   session : 0..MaxCheckouts]

(* A row after n events and a attempts, with its CHECKs.                   *)
RowTyped(r, n, a) ==
  r \in RowsOf(n, a) /\ (r.attempt # None => r.fenced) /\ (r.fenced => r.status = "none")

EventsOf(n) == [kind : {"checkout", "snapshot", "invoice", "deleted"}, sub : 1..n]

RowsInv ==
  RowTyped(row, Len(sent), attempts) /\ RowTyped(saved.row, Len(sent), attempts)

EventsInv ==
  /\ sent \in Seq(EventsOf(Len(checkouts)))
  /\ receipts \cup answered \cup saved.receipts \subseteq DOMAIN sent

NumbersInv ==
  /\ attempts \in Nat /\ ticks \in 0..MaxTicks /\ Len(checkouts) \in 0..MaxCheckouts
  /\ \A s \in DOMAIN checkouts : AttemptOf(s) \in 0..attempts /\ checkouts[s].born \in 0..MaxTicks
  /\ \A c \in Callers : calls[c].attempt \in 0..attempts
  /\ \A w \in adrift : w.attempt \in 0..attempts

LEMMA TypedLonger ==
  ASSUME NEW n \in Nat, NEW m \in Nat, n <= m, NEW a \in Nat, NEW b \in Nat, a <= b,
         NEW r, RowTyped(r, n, a)
  PROVE  RowTyped(r, m, b)
BY DEF RowTyped, RowsOf

LEMMA ClearedTyped ==
  ASSUME NEW n \in Nat, NEW a \in Nat, NEW r \in RowsOf(n, a)
  PROVE  /\ Cleared(r) \in RowsOf(n, a)
         /\ Cleared(r).attempt = None /\ Cleared(r).session = None
         /\ \A f \in {"fenced", "dead", "sub", "status", "seen"} : Cleared(r)[f] = r[f]
<1>1. 0 \in 0..a /\ 0 \in 0..MaxTicks /\ 0 \in 0..MaxCheckouts
  BY CheckoutAssumption
<1> QED BY <1>1 DEF RowsOf, Cleared, None

(* What one event makes of a row.                                          *)
LEMMA HandledTyped ==
  ASSUME EventsInv, NumbersInv, NEW r, RowTyped(r, Len(sent), attempts), NEW i \in DOMAIN sent
  PROVE  Handled(r, i) = Thrown \/ RowTyped(Handled(r, i), Len(sent), attempts)
<1>1. /\ sent[i].sub \in 1..MaxCheckouts /\ i \in 0..Len(sent) /\ Len(sent) \in Nat
      /\ MaxCheckouts \in Nat /\ attempts \in Nat /\ MaxTicks \in Nat
  <2>1. sent[i] \in EventsOf(Len(checkouts)) /\ i \in 1..Len(sent) /\ Len(sent) \in Nat
    BY DEF EventsInv
  <2>2. Len(checkouts) \in 0..MaxCheckouts /\ attempts \in Nat
    BY DEF NumbersInv
  <2> QED BY <2>1, <2>2, CheckoutAssumption DEF EventsOf
<1> DEFINE s == sent[i].sub
           n == Len(sent)
           Out(q) == q = Thrown \/ RowTyped(q, n, attempts)
<1>2. s \in 0..MaxCheckouts /\ Out(r) /\ Out(Thrown)
  BY <1>1
<1>3. r \in RowsOf(n, attempts) /\ (r.attempt # None => r.fenced) /\ (r.fenced => r.status = "none")
  BY DEF RowTyped
<1>4. Out(OnCheckout(r, i, s))
  <2> DEFINE q == [r EXCEPT !.sub = s, !.session = IF r.attempt # None THEN s ELSE @]
  <2>1. q \in RowsOf(n, attempts)
    BY <1>2, <1>3 DEF RowsOf
  <2>2. q.attempt = r.attempt /\ q.fenced = r.fenced /\ q.status = r.status
    BY <1>3 DEF RowsOf
  <2>3. RowTyped(q, n, attempts)
    BY <1>3, <2>1, <2>2 DEF RowTyped
  <2>4. OnCheckout(r, i, s) \in {r, Thrown, q}
    BY DEF OnCheckout
  <2> QED BY <1>2, <2>3, <2>4
<1>5. Out(OnSnapshot(r, i, s))
  <2> DEFINE q == [Cleared(r) EXCEPT !.sub = s, !.status = "live", !.seen = i, !.fenced = FALSE,
                                     !.dead = None]
  <2>1. q \in RowsOf(n, attempts) /\ q.attempt = None /\ ~q.fenced
    <3> DEFINE c == Cleared(r)
    <3>1. c \in RowsOf(n, attempts) /\ c.attempt = None
      BY <1>1, <1>3, ClearedTyped
    <3>2. None \in 0..MaxCheckouts
      BY <1>1 DEF None
    <3> HIDE DEF c
    <3>3. [c EXCEPT !.sub = s, !.status = "live", !.seen = i, !.fenced = FALSE, !.dead = None]
            \in RowsOf(n, attempts)
      BY <1>1, <1>2, <3>1, <3>2 DEF RowsOf
    <3> QED BY <3>1, <3>3 DEF RowsOf, c
  <2>2. RowTyped(q, n, attempts)
    BY <2>1 DEF RowTyped
  <2>3. OnSnapshot(r, i, s) \in {r, Thrown, q}
    BY DEF OnSnapshot
  <2> QED BY <1>2, <2>2, <2>3
<1>6. Out(OnDeleted(r, i, s))
  <2> DEFINE p == [r EXCEPT !.sub = s, !.status = "dead", !.seen = i]
             q == [Cleared(r) EXCEPT !.sub = None, !.seen = i, !.dead = s]
  <2>1. p \in RowsOf(n, attempts) /\ p.attempt = r.attempt /\ p.fenced = r.fenced
    BY <1>1, <1>2, <1>3 DEF RowsOf
  <2>2. q \in RowsOf(n, attempts) /\ q.attempt = None /\ q.fenced = r.fenced /\ q.status = r.status
    <3> DEFINE c == Cleared(r)
    <3>1. c \in RowsOf(n, attempts) /\ c.attempt = None /\ c.fenced = r.fenced /\ c.status = r.status
      BY <1>1, <1>3, ClearedTyped
    <3>2. None \in 0..MaxCheckouts
      BY <1>1 DEF None
    <3> HIDE DEF c
    <3>3. [c EXCEPT !.sub = None, !.seen = i, !.dead = s] \in RowsOf(n, attempts)
      BY <1>1, <1>2, <3>1, <3>2 DEF RowsOf
    <3> QED BY <3>1, <3>3 DEF RowsOf, c
  <2>3. ~r.fenced => RowTyped(p, n, attempts)
    BY <1>3, <2>1 DEF RowTyped
  <2>4. RowTyped(q, n, attempts)
    BY <1>3, <2>2 DEF RowTyped
  <2>5. OnDeleted(r, i, s) \in {r, Thrown, q} \/ (~r.fenced /\ OnDeleted(r, i, s) = p)
    BY DEF OnDeleted
  <2> QED BY <1>2, <2>3, <2>4, <2>5
<1>7. Out(OnInvoice(r, s))
  <2> DEFINE q == [r EXCEPT !.sub = s]
  <2>1. q \in RowsOf(n, attempts) /\ q.attempt = r.attempt /\ q.fenced = r.fenced /\ q.status = r.status
    BY <1>2, <1>3 DEF RowsOf
  <2>2. RowTyped(q, n, attempts)
    BY <1>3, <2>1 DEF RowTyped
  <2>3. OnInvoice(r, s) \in {r, Thrown, q}
    BY DEF OnInvoice
  <2> QED BY <1>2, <2>2, <2>3
<1> QED BY <1>4, <1>5, <1>6, <1>7 DEF Handled

LEMMA ReboundTyped ==
  ASSUME RowsInv, NumbersInv, NEW s \in DOMAIN checkouts, Shape
  PROVE  RowTyped(Rebound(s), Len(sent), attempts)
<1>1. s \in 0..MaxCheckouts /\ AttemptOf(s) \in 0..attempts /\ checkouts[s].born \in 0..MaxTicks
  BY SessionFields, CheckoutAssumption DEF NumbersInv
<1> DEFINE q == [row EXCEPT !.attempt = AttemptOf(s), !.since = checkouts[s].born, !.session = s]
<1>2. row \in RowsOf(Len(sent), attempts)
  BY DEF RowsInv, RowTyped
<1>3. q \in RowsOf(Len(sent), attempts) /\ q.fenced = row.fenced /\ q.status = row.status
  BY <1>1, <1>2 DEF RowsOf
<1>4. row.fenced => RowTyped(q, Len(sent), attempts)
  BY <1>3 DEF RowsInv, RowTyped
<1>5. Rebound(s) = row \/ (row.fenced /\ Rebound(s) = q)
  BY DEF Rebound
<1> QED BY <1>4, <1>5 DEF RowsInv

LEMMA LargestOf ==
  ASSUME NEW n \in Nat, NEW t \in SUBSET (1..n), t # {}
  PROVE  \E x \in t : \A y \in t : x >= y
<1> DEFINE T == {n - y : y \in t}
<1>1. T \in SUBSET Nat /\ T # {}
  <2>1. \A y \in t : y \in 1..n
    OBVIOUS
  <2>2. \A y \in 1..n : n - y \in Nat
    OBVIOUS
  <2> QED BY <2>1, <2>2
<1>2. PICK m \in T : \A k \in T : <<k, m>> \notin OpToRel(<, Nat)
  BY <1>1, NatLessThanWellFounded, WFMin
<1>3. \A k \in T : ~(k < m)
  BY <1>1, <1>2 DEF OpToRel
<1>4. PICK x \in t : m = n - x
  OBVIOUS
<1>5. ASSUME NEW y \in t PROVE x >= y
  <2>1. n - y \in T /\ x \in 1..n /\ y \in 1..n
    OBVIOUS
  <2>2. ~(n - y < n - x)
    BY <1>3, <1>4, <2>1
  <2> HIDE DEF T
  <2>3. x \in Nat /\ y \in Nat
    BY <2>1
  <2> QED BY <2>2, <2>3
<1> QED BY <1>5

(* A reconciliation's replay gives a row, or throws.                       *)
LEMMA ReplayedTyped ==
  ASSUME RowsInv, EventsInv, NumbersInv, Shape, NEW s \in DOMAIN checkouts
  PROVE  Replayed(s) = Thrown \/ RowTyped(Replayed(s), Len(sent), attempts)
<1> DEFINE R == {r \in RowsOf(Len(sent), attempts) \cup {Thrown} :
                   r = Thrown \/ RowTyped(r, Len(sent), attempts)}
           same == [i \in DOMAIN sent |-> i]
           U == DOMAIN same
           b == Rebound(s)
           g == [p \in U \X R |-> ReplayStep(s, p[2], p[1])]
           pick == [t \in SUBSET U |-> Max(t)]
           Iter == CHOOSE F : F = [t \in SUBSET U |-> IF t = {} THEN b
                     ELSE ReplayStep(s, F[t \ {Max(t)}], same[Max(t)])]
<1>1. IsFiniteSet(U) /\ U = 1..Len(sent) /\ Len(sent) \in Nat
  BY FS_Interval DEF EventsInv
<1>0. \A i \in U : same[i] = i
  OBVIOUS
<1>2. b \in R
  BY ReboundTyped DEF RowTyped
<1>3. \A r \in R, i \in U : ReplayStep(s, r, i) \in R
  <2> SUFFICES ASSUME NEW r \in R, NEW i \in U PROVE ReplayStep(s, r, i) \in R
    OBVIOUS
  <2>1. CASE ReplayStep(s, r, i) = r
    BY <2>1
  <2>2. CASE r # Thrown /\ ReplayStep(s, r, i) = Handled(r, i)
    <3>1. Handled(r, i) = Thrown \/ RowTyped(Handled(r, i), Len(sent), attempts)
      BY <2>2, HandledTyped
    <3> QED BY <2>2, <3>1 DEF RowTyped
  <2> QED BY <2>1, <2>2 DEF ReplayStep
<1>4. \A t \in SUBSET U : t # {} => Max(t) \in t
  <2> SUFFICES ASSUME NEW t \in SUBSET U, t # {} PROVE Max(t) \in t
    OBVIOUS
  <2>1. \E x \in t : \A y \in t : x >= y
    BY <1>1, LargestOf
  <2> QED BY <2>1 DEF Max
<1>5. \E F : F = [t \in SUBSET U |-> IF t = {} THEN b ELSE ReplayStep(s, F[t \ {Max(t)}], same[Max(t)])]
  <2>1. g \in [U \X R -> R]
    BY <1>3
  <2> HIDE DEF R, b, U, g, pick, same
  <2>2. \A t \in SUBSET U : t # {} => pick[t] \in t
    BY <1>4 DEF pick
  <2>3. PICK F \in [SUBSET U -> R] : IsFold(U, b, g, pick, F)
    BY <1>1, <1>2, <2>1, <2>2, FoldsExist
  <2>4. ASSUME NEW t \in SUBSET U, t # {}
        PROVE  g[<<pick[t], F[t \ {pick[t]}]>>] = ReplayStep(s, F[t \ {Max(t)}], same[Max(t)])
    <3>1. pick[t] = Max(t) /\ Max(t) \in U
      BY <1>4, <2>4 DEF pick
    <3>2. F[t \ {Max(t)}] \in R
      BY <2>3
    <3> QED BY <1>0, <3>1, <3>2 DEF g
  <2>5. F = [t \in SUBSET U |-> IF t = {} THEN b ELSE ReplayStep(s, F[t \ {Max(t)}], same[Max(t)])]
    BY <2>3, <2>4 DEF IsFold
  <2> QED BY <2>5
<1>6. Iter = [t \in SUBSET U |-> IF t = {} THEN b ELSE ReplayStep(s, Iter[t \ {Max(t)}], same[Max(t)])]
  BY <1>5, Zenon
<1>7. U \in {t \in SUBSET U : Iter[t] \in R}
  <2> DEFINE T == {t \in SUBSET U : Iter[t] \in R}
  <2> HIDE DEF Iter, R, b, U, same
  <2>1. ASSUME NEW t \in SUBSET U, \A q \in SUBSET t : q # t => q \in T PROVE t \in T
    <3>1. CASE t = {}
      BY <1>2, <1>6, <3>1
    <3>2. CASE t # {}
      <4>1. Max(t) \in t /\ t \ {Max(t)} \in T
        BY <1>4, <2>1, <3>2
      <4>2. Iter[t] = ReplayStep(s, Iter[t \ {Max(t)}], Max(t))
        BY <1>0, <1>6, <3>2, <4>1
      <4> QED BY <1>3, <4>1, <4>2
    <3> QED BY <3>1, <3>2
  <2> HIDE DEF T
  <2>2. IsFiniteSet(U)
    BY <1>1
  <2>3. \A t \in SUBSET U : t \in T
    BY ONLY <2>1, <2>2, SetInduction
  <2> QED BY <2>3 DEF T
<1>8. Replayed(s) = Iter[U]
  BY DEF Replayed, FoldLeftDomain, FoldLeft, MapThenFoldSet
<1> QED BY <1>7, <1>8

(* A Session's life: given to the owner, sold, ended; its events tell so.  *)
SessionsAge ==
  /\ \A s \in DOMAIN checkouts :
       /\ checkouts[s].status # "complete" => checkouts[s].life = "none"
       /\ checkouts[s].life # "none" => checkouts[s].handed
  /\ \A i \in DOMAIN sent :
       /\ checkouts[sent[i].sub].handed
       /\ sent[i].kind = "deleted" => checkouts[sent[i].sub].life = "dead"

(* A key opens one Session; the old binary has none.                       *)
KeysOpenOne ==
  /\ \A s, t \in DOMAIN checkouts : AttemptOf(s) = AttemptOf(t) /\ AttemptOf(s) # None => s = t
  /\ rollout.state # "active" => \A s \in DOMAIN checkouts : AttemptOf(s) = None

(* Whoever is at Stripe is there for the attempt of the row; the Session   *)
(* bound to the row is that attempt's.                                     *)
HoldersAttempt == \A c \in Callers :
  calls[c].pc \in {"calling", "answered"} => calls[c].attempt = row.attempt /\ row.attempt # None

SessionIsBound ==
  /\ row.attempt = None => row.session = None
  /\ row.session # None => row.session \in DOMAIN checkouts /\ AttemptOf(row.session) = row.attempt

(* A door is the row's attempt, or the row has mirrored it.                *)
KnownBy(s) ==
  \/ AttemptOf(s) = row.attempt
  \/ HasLive(row) /\ row.sub = s /\ row.seen \in DOMAIN sent /\ sent[row.seen].sub = s

DoorsKnown == Guarded => \A s \in Doors : AttemptOf(s) # None => KnownBy(s)

(* Nothing is told of another subscription after a door has opened.        *)
DoorIsLatest == Guarded => \A s \in Doors : AttemptOf(s) # None =>
  \A i, j \in DOMAIN sent : sent[i].sub = s /\ sent[j].sub # s => j < i

KnownInv == ~restored => HoldersAttempt /\ SessionIsBound /\ DoorsKnown /\ DoorIsLatest

FieldsInv == RowsInv /\ EventsInv /\ NumbersInv
RowInv == FieldsInv /\ SessionsAge /\ KeysOpenOne /\ KnownInv

-----------------------------------------------------------------------------
(* The Sessions after each kind of change                                  *)

LEMMA OpensOne ==
  ASSUME Shape, NEW a, NEW h, OpenSession(a, h)
  PROVE  /\ Len(checkouts') = Len(checkouts) + 1 /\ Len(checkouts') <= MaxCheckouts
         /\ DOMAIN checkouts' = DOMAIN checkouts \cup {Len(checkouts')}
         /\ Len(checkouts') \notin DOMAIN checkouts
         /\ \A s \in DOMAIN checkouts : checkouts'[s] = checkouts[s]
         /\ checkouts'[Len(checkouts')].attempt = a /\ checkouts'[Len(checkouts')].born = ticks
         /\ checkouts'[Len(checkouts')].status = "open" /\ checkouts'[Len(checkouts')].life = "none"
         /\ checkouts'[Len(checkouts')].handed = h
<1> DEFINE e == [attempt |-> a, born |-> ticks, status |-> "open", life |-> "none", handed |-> h]
<1>1. checkouts' = Append(checkouts, e) /\ Len(checkouts) < MaxCheckouts
  BY DEF OpenSession
<1>2. PICK S : checkouts \in Seq(S)
  BY DEF Shape
<1>3. checkouts \in Seq(S \cup {e}) /\ e \in S \cup {e} /\ Len(checkouts) \in Nat
  BY <1>2
<1>4. e.attempt = a /\ e.born = ticks /\ e.status = "open" /\ e.life = "none" /\ e.handed = h
  OBVIOUS
<1> HIDE DEF e
<1> QED BY <1>1, <1>3, <1>4, CheckoutAssumption

(* One Session is changed, and keeps its attempt.                          *)
Edits(s) ==
  /\ Len(checkouts') = Len(checkouts) /\ DOMAIN checkouts' = DOMAIN checkouts
  /\ \A t \in DOMAIN checkouts : t # s => checkouts'[t] = checkouts[t]
  /\ checkouts'[s].attempt = checkouts[s].attempt /\ checkouts'[s].born = checkouts[s].born

LEMMA HandsOver ==
  ASSUME Shape, NEW c, NEW s \in DOMAIN checkouts, HandOut(c, s)
  PROVE  /\ Edits(s) /\ checkouts'[s].handed
         /\ checkouts'[s].status = checkouts[s].status /\ checkouts'[s].life = checkouts[s].life
<1>1. checkouts[s] \in SessionsOf({checkouts[t].attempt : t \in DOMAIN checkouts})
  BY SessionFields
<1> DEFINE e == [checkouts[s] EXCEPT !.handed = TRUE]
<1>2. checkouts' = [checkouts EXCEPT ![s] = e]
  BY DEF HandOut
<1>3. /\ e.attempt = checkouts[s].attempt /\ e.born = checkouts[s].born /\ e.handed
      /\ e.status = checkouts[s].status /\ e.life = checkouts[s].life
  BY <1>1 DEF SessionsOf
<1>4. PICK S : checkouts \in Seq(S)
  BY DEF Shape
<1> HIDE DEF e
<1> QED BY <1>2, <1>3, <1>4 DEF Edits

LEMMA StripeEdits ==
  ASSUME Shape, NEW s \in DOMAIN checkouts, Complete(s) \/ Expire(s) \/ End(s)
  PROVE  /\ Edits(s) /\ checkouts'[s].handed = checkouts[s].handed
         /\ Complete(s) => checkouts'[s].status = "complete" /\ checkouts'[s].life = "live"
         /\ Expire(s) => checkouts'[s].status = "expired" /\ checkouts'[s].life = checkouts[s].life
         /\ End(s) => checkouts'[s].status = checkouts[s].status /\ checkouts'[s].life = "dead"
<1>1. checkouts[s] \in SessionsOf({checkouts[t].attempt : t \in DOMAIN checkouts})
  BY SessionFields
<1>2. PICK S : checkouts \in Seq(S)
  BY DEF Shape
<1>3. ASSUME NEW e, checkouts' = [checkouts EXCEPT ![s] = e]
      PROVE  /\ Len(checkouts') = Len(checkouts) /\ DOMAIN checkouts' = DOMAIN checkouts
             /\ \A t \in DOMAIN checkouts : t # s => checkouts'[t] = checkouts[t]
             /\ checkouts'[s] = e
  BY <1>2, <1>3
<1> DEFINE sold == [checkouts[s] EXCEPT !.status = "complete", !.life = "live"]
           over == [checkouts[s] EXCEPT !.status = "expired"]
           dead == [checkouts[s] EXCEPT !.life = "dead"]
<1>4. \A e \in {sold, over, dead} :
        e.attempt = checkouts[s].attempt /\ e.born = checkouts[s].born /\ e.handed = checkouts[s].handed
  BY <1>1 DEF SessionsOf
<1>5. /\ sold.status = "complete" /\ sold.life = "live"
      /\ over.status = "expired" /\ over.life = checkouts[s].life
      /\ dead.status = checkouts[s].status /\ dead.life = "dead"
  BY <1>1 DEF SessionsOf
<1>6. /\ Complete(s) => checkouts' = [checkouts EXCEPT ![s] = sold]
      /\ Expire(s) => checkouts' = [checkouts EXCEPT ![s] = over]
      /\ End(s) => checkouts' = [checkouts EXCEPT ![s] = dead]
  BY DEF Complete, Expire, End
<1> HIDE DEF sold, over, dead
<1>7. /\ Complete(s) => checkouts'[s] = sold
      /\ Expire(s) => checkouts'[s] = over
      /\ End(s) => checkouts'[s] = dead
  BY <1>3, <1>6
<1>8. /\ Len(checkouts') = Len(checkouts) /\ DOMAIN checkouts' = DOMAIN checkouts
      /\ \A t \in DOMAIN checkouts : t # s => checkouts'[t] = checkouts[t]
  BY <1>3, <1>6
<1>9. checkouts'[s] \in {sold, over, dead}
  BY <1>7
<1> QED BY <1>4, <1>5, <1>7, <1>8, <1>9 DEF Edits

LEMMA JoinedSeq ==
  ASSUME NEW S, NEW p \in Seq(S), NEW q \in Seq(S)
  PROVE  /\ p \o q \in Seq(S) /\ Len(p \o q) = Len(p) + Len(q)
         /\ \A i \in 1..Len(p \o q) : (p \o q)[i] = IF i <= Len(p) THEN p[i] ELSE q[i - Len(p)]
<1>1. Len(p) \in Nat /\ Len(q) \in Nat /\ Len(p \o q) = Len(p) + Len(q)
  OBVIOUS
<1>2. p \o q \in Seq(S)
  OBVIOUS
<1>3. \A i \in 1..(Len(p) + Len(q)) : (p \o q)[i] = IF i <= Len(p) THEN p[i] ELSE q[i - Len(p)]
  OBVIOUS
<1> QED BY <1>1, <1>2, <1>3

LEMMA EventsTell ==
  ASSUME EventsInv, NEW s \in DOMAIN checkouts, Shape, NEW K,
         K \subseteq {"checkout", "snapshot", "invoice", "deleted"},
         NEW kinds \in Seq(K), sent' = Events(s, kinds)
  PROVE  /\ sent' \in Seq(EventsOf(Len(checkouts))) /\ Len(sent) <= Len(sent')
         /\ Len(sent) \in Nat /\ Len(sent') \in Nat
         /\ DOMAIN sent \subseteq DOMAIN sent' /\ \A i \in DOMAIN sent : sent'[i] = sent[i]
         /\ \A i \in DOMAIN sent' \ DOMAIN sent : sent'[i].sub = s /\ sent'[i].kind \in K
         /\ \A i \in DOMAIN sent' \ DOMAIN sent : i > Len(sent)
<1> DEFINE E == EventsOf(Len(checkouts))
           new == [k \in DOMAIN kinds |-> [kind |-> kinds[k], sub |-> s]]
<1>1. s \in 1..Len(checkouts)
  BY SessionFields
<1>2. \A k \in DOMAIN kinds : kinds[k] \in K
  OBVIOUS
<1>3. new \in Seq(E) /\ Len(new) = Len(kinds)
  <2>1. DOMAIN kinds = 1..Len(kinds) /\ Len(kinds) \in Nat
    OBVIOUS
  <2>2. \A k \in 1..Len(kinds) : [kind |-> kinds[k], sub |-> s] \in E
    BY <1>1, <1>2, <2>1 DEF EventsOf
  <2> HIDE DEF E
  <2>3. new = [k \in 1..Len(kinds) |-> [kind |-> kinds[k], sub |-> s]]
    BY <2>1
  <2> QED BY <2>1, <2>2, <2>3
<1>4. \A k \in DOMAIN new : new[k].sub = s /\ new[k].kind \in K
  BY <1>2
<1>5. sent \in Seq(E) /\ sent' = sent \o new
  BY DEF EventsInv, Events
<1> HIDE DEF new, E
<1>6. /\ sent' \in Seq(E) /\ Len(sent') = Len(sent) + Len(new)
      /\ \A i \in 1..Len(sent') : sent'[i] = IF i <= Len(sent) THEN sent[i] ELSE new[i - Len(sent)]
  BY <1>3, <1>5, JoinedSeq
<1>7. \A i \in 1..Len(sent') : i > Len(sent) => i - Len(sent) \in DOMAIN new
  BY <1>3, <1>5, <1>6
<1> QED BY <1>3, <1>4, <1>5, <1>6, <1>7 DEF E

-----------------------------------------------------------------------------
(* What a step that leaves a part alone keeps                              *)

LEMMA NumbersKept ==
  ASSUME NumbersInv, attempts' \in Nat, attempts <= attempts', ticks' \in 0..MaxTicks,
         Len(checkouts') \in 0..MaxCheckouts,
         \A s \in DOMAIN checkouts' :
           \/ /\ s \in DOMAIN checkouts /\ checkouts'[s].attempt = checkouts[s].attempt
              /\ checkouts'[s].born = checkouts[s].born
           \/ checkouts'[s].attempt \in 0..attempts /\ checkouts'[s].born = ticks,
         \A c \in Callers : calls'[c].attempt \in 0..attempts',
         \A w \in adrift' : w.attempt \in 0..attempts'
  PROVE  NumbersInv'
<1>1. attempts \in Nat /\ ticks \in 0..MaxTicks /\ 0..attempts \subseteq 0..attempts'
  BY DEF NumbersInv
<1>2. ASSUME NEW s \in DOMAIN checkouts'
      PROVE  checkouts'[s].attempt \in 0..attempts' /\ checkouts'[s].born \in 0..MaxTicks
  BY <1>1, <1>2 DEF NumbersInv, AttemptOf
<1> QED BY <1>2 DEF NumbersInv, AttemptOf

LEMMA AttemptsKept ==
  ASSUME NumbersInv
  PROVE  /\ \A c \in Callers : calls[c].attempt \in 0..attempts
         /\ \A w \in adrift : w.attempt \in 0..attempts
         /\ attempts \in Nat /\ ticks \in 0..MaxTicks /\ Len(checkouts) \in 0..MaxCheckouts
         /\ attempts <= attempts /\ 0 \in 0..attempts
BY DEF NumbersInv

LEMMA EventsKept ==
  ASSUME EventsInv, Shape, UNCHANGED sent, Len(checkouts) <= Len(checkouts'), Len(checkouts') \in Nat,
         receipts' \cup answered' \cup saved'.receipts \subseteq DOMAIN sent
  PROVE  EventsInv'
<1>1. Len(checkouts) \in Nat /\ EventsOf(Len(checkouts)) \subseteq EventsOf(Len(checkouts'))
  BY SessionFields DEF EventsOf, Shape
<1>2. sent \in Seq(EventsOf(Len(checkouts')))
  BY <1>1 DEF EventsInv
<1> QED BY <1>2 DEF EventsInv

(* The doors of before are known as before while the row stays.            *)
LEMMA KnownKept ==
  ASSUME KnownInv, UNCHANGED <<row, sent, restored>>, Guarded' => Guarded,
         \A s \in DOMAIN checkouts : s \in DOMAIN checkouts' /\ AttemptOf(s)' = AttemptOf(s),
         \A s \in Doors' : s \in Doors \/ AttemptOf(s)' = None,
         \A c \in Callers : calls'[c].pc \in {"calling", "answered"} =>
           \/ calls'[c].attempt = row.attempt /\ row.attempt # None
           \/ calls[c].pc \in {"calling", "answered"} /\ calls'[c].attempt = calls[c].attempt
  PROVE  KnownInv'
<1> SUFFICES ASSUME ~restored PROVE (HoldersAttempt /\ SessionIsBound /\ DoorsKnown /\ DoorIsLatest)'
  BY DEF KnownInv
<1>1. HoldersAttempt'
  BY DEF KnownInv, HoldersAttempt
<1>2. SessionIsBound'
  BY DEF KnownInv, SessionIsBound
<1>3. \A s \in Doors : s \in DOMAIN checkouts
  BY DEF Doors
<1>4. DoorsKnown' /\ DoorIsLatest'
  <2>1. \A s \in Doors : KnownBy(s) => KnownBy(s)'
    BY <1>3 DEF KnownBy, HasLive
  <2> SUFFICES ASSUME Guarded' PROVE DoorsKnown' /\ DoorIsLatest'
    BY DEF DoorsKnown, DoorIsLatest
  <2>2. ASSUME NEW s \in Doors', AttemptOf(s)' # None
        PROVE  s \in Doors /\ AttemptOf(s) # None
    BY <1>3, <2>2
  <2>3. DoorsKnown'
    BY <2>1, <2>2 DEF KnownInv, DoorsKnown
  <2>4. DoorIsLatest'
    BY <2>2 DEF KnownInv, DoorIsLatest
  <2> QED BY <2>3, <2>4
<1> QED BY <1>1, <1>2, <1>4

(* The Sessions stay, and what of them is told.                            *)
LEMMA SessionsKept ==
  ASSUME SessionsAge, KeysOpenOne, UNCHANGED <<checkouts, sent>>,
         rollout'.state = "active" \/ rollout.state # "active"
  PROVE  SessionsAge' /\ KeysOpenOne'
<1>1. SessionsAge'
  BY DEF SessionsAge
<1>2. KeysOpenOne'
  BY DEF KeysOpenOne, AttemptOf
<1> QED BY <1>1, <1>2

LEMMA NumbersSame ==
  ASSUME NumbersInv, UNCHANGED <<attempts, ticks, checkouts>>,
         \A c \in Callers : calls'[c].attempt \in 0..attempts,
         \A w \in adrift' : w.attempt \in 0..attempts
  PROVE  NumbersInv'
BY AttemptsKept, NumbersKept

LEMMA SubsAreSessions ==
  ASSUME Shape, EventsInv PROVE \A i \in DOMAIN sent : sent[i].sub \in DOMAIN checkouts
<1>1. DOMAIN checkouts = 1..Len(checkouts)
  BY DEF Shape
<1>2. \A i \in DOMAIN sent : sent[i] \in EventsOf(Len(checkouts))
  BY DEF EventsInv
<1> QED BY <1>1, <1>2 DEF EventsOf

(* A Session is opened.                                                    *)
LEMMA OpenKeeps ==
  ASSUME Shape, FieldsInv, SessionsAge, KeysOpenOne, NEW a \in 0..attempts, NEW h \in BOOLEAN,
         OpenSession(a, h), UNCHANGED <<sent, rollout>>,
         \A s \in DOMAIN checkouts : a # None => AttemptOf(s) # a,
         rollout.state = "active" \/ a = None
  PROVE  /\ SessionsAge' /\ KeysOpenOne'
         /\ Len(checkouts) <= Len(checkouts') /\ Len(checkouts') \in 0..MaxCheckouts
         /\ \A s \in DOMAIN checkouts : s \in DOMAIN checkouts' /\ AttemptOf(s)' = AttemptOf(s)
         /\ \A s \in Doors' : s \in Doors \/ (h /\ AttemptOf(s)' = a)
         /\ \A s \in DOMAIN checkouts' :
              \/ /\ s \in DOMAIN checkouts /\ checkouts'[s].attempt = checkouts[s].attempt
                 /\ checkouts'[s].born = checkouts[s].born
              \/ checkouts'[s].attempt \in 0..attempts /\ checkouts'[s].born = ticks
<1> DEFINE n == Len(checkouts')
<1>1. /\ n = Len(checkouts) + 1 /\ n <= MaxCheckouts
      /\ DOMAIN checkouts' = DOMAIN checkouts \cup {n} /\ n \notin DOMAIN checkouts
      /\ \A s \in DOMAIN checkouts : checkouts'[s] = checkouts[s]
      /\ checkouts'[n].attempt = a /\ checkouts'[n].born = ticks
      /\ checkouts'[n].status = "open" /\ checkouts'[n].life = "none" /\ checkouts'[n].handed = h
  BY OpensOne
<1>2. Len(checkouts) \in Nat /\ DOMAIN checkouts = 1..Len(checkouts) /\ MaxCheckouts \in Nat
  BY CheckoutAssumption DEF Shape
<1>3. SessionsAge'
  <2>1. \A i \in DOMAIN sent : sent[i].sub \in DOMAIN checkouts
    BY SubsAreSessions DEF FieldsInv
  <2> HIDE DEF n
  <2> QED BY <1>1, <2>1 DEF SessionsAge
<1>4. KeysOpenOne'
  <2> HIDE DEF n
  <2> QED BY <1>1 DEF KeysOpenOne, AttemptOf
<1>5. \A s \in Doors' : s \in Doors \/ (h /\ AttemptOf(s)' = a)
  <2> HIDE DEF n
  <2> SUFFICES ASSUME NEW s \in DOMAIN checkouts', checkouts'[s].handed, Unresolved(s)', s # n
               PROVE  s \in Doors
    <3>1. checkouts'[n].handed => h
      BY <1>1
    <3>2. checkouts'[n].attempt = a
      BY <1>1
    <3> QED BY <3>1, <3>2 DEF Doors, AttemptOf
  <2>1. s \in DOMAIN checkouts /\ checkouts'[s] = checkouts[s]
    BY <1>1
  <2> QED BY <2>1 DEF Doors, Unresolved
<1>6. \A s \in DOMAIN checkouts : s \in DOMAIN checkouts' /\ AttemptOf(s)' = AttemptOf(s)
  BY <1>1 DEF AttemptOf
<1>7. Len(checkouts) <= n /\ n \in 0..MaxCheckouts
  BY <1>1, <1>2
<1>8. \A s \in DOMAIN checkouts' :
              \/ /\ s \in DOMAIN checkouts /\ checkouts'[s].attempt = checkouts[s].attempt
                 /\ checkouts'[s].born = checkouts[s].born
              \/ checkouts'[s].attempt \in 0..attempts /\ checkouts'[s].born = ticks
  <2> HIDE DEF n
  <2> QED BY <1>1
<1> QED BY <1>3, <1>4, <1>5, <1>6, <1>7, <1>8

(* A Session is handed to the owner.                                       *)
LEMMA HandKeeps ==
  ASSUME Shape, EventsInv, SessionsAge, KeysOpenOne, NEW c, NEW s \in DOMAIN checkouts, HandOut(c, s),
         UNCHANGED <<sent, rollout>>
  PROVE  /\ SessionsAge' /\ KeysOpenOne'
         /\ Len(checkouts') = Len(checkouts) /\ DOMAIN checkouts' = DOMAIN checkouts
         /\ \A t \in DOMAIN checkouts : AttemptOf(t)' = AttemptOf(t)
         /\ \A t \in DOMAIN checkouts : checkouts'[t].born = checkouts[t].born
         /\ Doors' \subseteq Doors \cup {s}
<1>1. /\ Edits(s) /\ checkouts'[s].handed
      /\ checkouts'[s].status = checkouts[s].status /\ checkouts'[s].life = checkouts[s].life
  BY HandsOver
<1>2. \A t \in DOMAIN checkouts :
        /\ checkouts'[t].status = checkouts[t].status /\ checkouts'[t].life = checkouts[t].life
        /\ checkouts'[t].attempt = checkouts[t].attempt /\ checkouts'[t].born = checkouts[t].born
        /\ checkouts[t].handed => checkouts'[t].handed
        /\ t # s => checkouts'[t].handed = checkouts[t].handed
  BY <1>1 DEF Edits
<1>3. Len(checkouts') = Len(checkouts) /\ DOMAIN checkouts' = DOMAIN checkouts
  BY <1>1 DEF Edits
<1>4. SessionsAge'
  BY <1>2, <1>3, SubsAreSessions DEF SessionsAge
<1>5. KeysOpenOne'
  BY <1>2, <1>3 DEF KeysOpenOne, AttemptOf
<1>6. Doors' \subseteq Doors \cup {s}
  <2> SUFFICES ASSUME NEW t \in DOMAIN checkouts', checkouts'[t].handed, Unresolved(t)', t # s
               PROVE  t \in Doors
    BY DEF Doors
  <2> QED BY <1>2, <1>3 DEF Doors, Unresolved
<1> QED BY <1>2, <1>3, <1>4, <1>5, <1>6 DEF AttemptOf

-----------------------------------------------------------------------------
(* The presses                                                             *)

LEMMA FenceTyped ==
  ASSUME NEW n, NEW a, NEW r, RowTyped(r, n, a)
  PROVE  /\ RowTyped(Fence(r), n, a) /\ Fence(r).fenced /\ Fence(r).status = "none"
         /\ Fence(r).attempt = r.attempt /\ Fence(r).session = r.session
<1>1. r \in RowsOf(n, a) /\ (r.attempt # None => r.fenced) /\ (r.fenced => r.status = "none")
  BY DEF RowTyped
<1> DEFINE q == [r EXCEPT !.fenced = TRUE, !.dead = r.sub, !.sub = None, !.status = "none"]
<1>2. 0 \in 0..MaxCheckouts
  BY CheckoutAssumption
<1>3. /\ q \in RowsOf(n, a) /\ q.fenced /\ q.status = "none"
      /\ q.attempt = r.attempt /\ q.session = r.session
  BY <1>1, <1>2 DEF RowsOf, None
<1>4. RowTyped(q, n, a)
  BY <1>3 DEF RowTyped
<1>5. (r.fenced /\ Fence(r) = r) \/ Fence(r) = q
  BY DEF Fence
<1> QED BY <1>1, <1>3, <1>4, <1>5

(* A row typed as of before is typed as of after.                          *)
LEMMA RowsKept ==
  ASSUME RowsInv, NumbersInv, Shape, EventsInv, attempts' \in Nat, attempts <= attempts',
         Len(sent) <= Len(sent'), Len(sent') \in Nat,
         RowTyped(row', Len(sent), attempts') \/ row' = row,
         saved'.row = saved.row \/ saved'.row = row
  PROVE  RowsInv'
<1>1. attempts \in Nat /\ Len(sent) \in Nat
  BY DEF NumbersInv, EventsInv
<1>2. RowTyped(row, Len(sent'), attempts') /\ RowTyped(saved.row, Len(sent'), attempts')
  BY <1>1, TypedLonger DEF RowsInv
<1>3. RowTyped(row', Len(sent), attempts') => RowTyped(row', Len(sent'), attempts')
  BY <1>1, TypedLonger
<1>4. attempts' <= attempts'
  OBVIOUS
<1> QED BY <1>2, <1>3 DEF RowsInv

LEMMA RowFields ==
  ASSUME RowsInv
  PROVE  /\ row \in RowsOf(Len(sent), attempts) /\ row.attempt \in 0..attempts
         /\ (row.attempt # None => row.fenced) /\ (row.fenced => row.status = "none")
         /\ row.fenced \in BOOLEAN
BY DEF RowsInv, RowTyped, RowsOf

LEMMA NobodyAtStripe ==
  ASSUME Unlocked, NEW c \in Callers, calls'[c].pc \notin {"calling", "answered"},
         \A d \in Callers \ {c} : calls'[d] = calls[d]
  PROVE  \A d \in Callers : calls'[d].pc \notin {"calling", "answered"}
BY DEF Unlocked

(* The attempt of a call after one call has moved.                         *)
LEMMA CallAttempts ==
  ASSUME Shape, NumbersInv, NEW c \in Callers, NEW b \in Nat, attempts <= b,
         calls'[c].attempt \in 0..b, \A d \in Callers \ {c} : calls'[d] = calls[d]
  PROVE  \A d \in Callers : calls'[d].attempt \in 0..b
<1>1. 0..attempts \subseteq 0..b
  BY DEF NumbersInv
<1> QED BY <1>1 DEF NumbersInv

LEMMA ReserveRow ==
  ASSUME DoorInv, RowInv, UNCHANGED cutoverVars, NEW c \in Callers, Reserve(c) PROVE RowInv'
<1>1. /\ Shape /\ FieldsInv /\ RowsInv /\ EventsInv /\ NumbersInv /\ SessionsAge /\ KeysOpenOne
      /\ UNCHANGED <<receipts, rollout, checkouts, sent, answered, adrift, ticks, saved, restored>>
      /\ Unlocked /\ rollout.state = "active"
      /\ calls' = [calls EXCEPT ![c].pc = "reserved", ![c].attempt = row'.attempt]
  BY DEF DoorInv, RowInv, FieldsInv, Reserve
<1>2. /\ calls'[c].pc = "reserved" /\ calls'[c].attempt = row'.attempt
      /\ \A d \in Callers \ {c} : calls'[d] = calls[d]
  BY <1>1 DEF Shape, CallsOf
<1>3. /\ attempts' \in Nat /\ attempts <= attempts'
      /\ row'.attempt \in 0..attempts'
      /\ RowTyped(row', Len(sent), attempts') \/ row' = row
      /\ \/ row' = row
         \/ row.attempt = None /\ ~HasLive(row) /\ row'.session = row.session /\ row'.attempt # None
  <2>1. CASE row.attempt # None
    <3>1. UNCHANGED <<row, attempts>>
      BY <2>1 DEF Reserve
    <3> QED BY <1>1, <3>1, RowFields DEF NumbersInv
  <2>2. CASE row.attempt = None
    <3>1. /\ ~HasLive(row) /\ attempts' = attempts + 1 /\ attempts \in Nat
          /\ row' = [Fence(row) EXCEPT !.attempt = attempts', !.since = ticks]
      BY <1>1, <2>2 DEF Reserve, NumbersInv
    <3> DEFINE f == Fence(row)
    <3>2. f \in RowsOf(Len(sent), attempts) /\ f.fenced /\ f.status = "none" /\ f.session = row.session
      BY <1>1, FenceTyped DEF RowsInv, RowTyped
    <3>3. ticks \in 0..MaxTicks /\ attempts + 1 \in 0..(attempts + 1) /\ attempts + 1 # None
      BY <1>1, <3>1 DEF NumbersInv, None
    <3> HIDE DEF f
    <3>4. f \in RowsOf(Len(sent), attempts + 1)
      BY <3>1, <3>2 DEF RowsOf
    <3> DEFINE q == [f EXCEPT !.attempt = attempts + 1, !.since = ticks]
    <3>5. /\ q \in RowsOf(Len(sent), attempts + 1) /\ q.attempt = attempts + 1
          /\ q.fenced /\ q.status = "none" /\ q.session = f.session
      BY <3>2, <3>3, <3>4 DEF RowsOf
    <3>6. row' = q
      BY <3>1 DEF f
    <3> HIDE DEF q
    <3>7. RowTyped(row', Len(sent), attempts')
      BY <3>1, <3>5, <3>6 DEF RowTyped
    <3>8. attempts' \in Nat /\ attempts <= attempts' /\ row'.attempt = attempts'
      BY <3>1, <3>5, <3>6
    <3>9. row'.attempt \in 0..attempts' /\ row'.attempt # None
      BY <3>1, <3>3, <3>8
    <3>10. row'.session = row.session
      BY <3>2, <3>5, <3>6
    <3> QED BY <2>2, <3>1, <3>7, <3>8, <3>9, <3>10
  <2> QED BY <2>1, <2>2
<1>4. NumbersInv'
  <2>1. \A d \in Callers : calls'[d].attempt \in 0..attempts'
    BY <1>1, <1>2, <1>3, CallAttempts
  <2>2. \A w \in adrift : w.attempt \in 0..attempts'
    BY <1>1, <1>3 DEF NumbersInv
  <2> QED BY <1>1, <1>3, <2>1, <2>2, AttemptsKept, NumbersKept
<1>5. RowsInv' /\ EventsInv'
  <2>1. Len(sent) \in Nat /\ Len(sent) <= Len(sent') /\ Len(sent') \in Nat
    BY <1>1 DEF EventsInv
  <2>2. receipts' \cup answered' \cup saved'.receipts \subseteq DOMAIN sent
    BY <1>1 DEF EventsInv
  <2>3. Len(checkouts) <= Len(checkouts') /\ Len(checkouts') \in Nat
    BY <1>1, AttemptsKept
  <2> QED BY <1>1, <1>3, <2>1, <2>2, <2>3, RowsKept, EventsKept
<1>6. SessionsAge' /\ KeysOpenOne'
  BY <1>1, SessionsKept
<1>7. Guarded' => Guarded
  BY <1>1 DEF cutoverVars, Guarded
<1>8. \A d \in Callers : calls'[d].pc \notin {"calling", "answered"}
  BY <1>1, <1>2, NobodyAtStripe
<1>9. KnownInv'
  <2>1. CASE row' = row
    BY <1>1, <1>7, <1>8, <2>1, SameSessions, KnownKept DEF RowInv, AttemptOf
  <2>2. CASE row.attempt = None /\ ~HasLive(row) /\ row'.session = row.session /\ row'.attempt # None
    <3> SUFFICES ASSUME ~restored PROVE (HoldersAttempt /\ SessionIsBound /\ DoorsKnown /\ DoorIsLatest)'
      BY <1>1 DEF KnownInv
    <3>1. HoldersAttempt'
      BY <1>8 DEF HoldersAttempt
    <3>2. SessionIsBound'
      BY <2>2 DEF SessionIsBound, RowInv, KnownInv
    <3>3. Guarded => \A s \in Doors : AttemptOf(s) = None
      BY <2>2 DEF RowInv, KnownInv, DoorsKnown, KnownBy
    <3>4. DoorsKnown' /\ DoorIsLatest'
      BY <1>1, <1>7, <3>3, SameSessions DEF DoorsKnown, DoorIsLatest, AttemptOf
    <3> QED BY <3>1, <3>2, <3>4
  <2> QED BY <1>3, <2>1, <2>2
<1> QED BY <1>4, <1>5, <1>6, <1>9 DEF RowInv, FieldsInv

(* With no door there is none to know.                                     *)
LEMMA NoDoorsKnown ==
  ASSUME Doors' = {}, HoldersAttempt', SessionIsBound' PROVE KnownInv'
BY DEF KnownInv, DoorsKnown, DoorIsLatest

LEMMA CallEnds ==
  ASSUME Shape, NEW c \in Callers, calls' = [calls EXCEPT ![c] = Idle] \/ Restart(c)
  PROVE  /\ calls'[c].attempt = None /\ calls'[c].pc \notin {"calling", "answered"}
         /\ \A d \in Callers \ {c} : calls'[d] = calls[d]
<1> DEFINE again == [Idle EXCEPT !.pc = "again", !.round = 2]
<1>1. /\ again.attempt = None /\ again.pc = "again" /\ Idle.attempt = None /\ Idle.pc = "idle"
  BY DEF Idle
<1>2. calls' = [calls EXCEPT ![c] = Idle] \/ calls' = [calls EXCEPT ![c] = again]
  BY DEF Restart
<1> HIDE DEF again
<1> QED BY <1>1, <1>2 DEF Shape

(* The fields after a press whose call is over.                            *)
LEMMA PressFields ==
  ASSUME DoorInv, RowInv, NEW c \in Callers, calls'[c].attempt \in 0..attempts,
         \A d \in Callers \ {c} : calls'[d] = calls[d],
         UNCHANGED <<receipts, sent, answered, attempts, ticks, saved>>,
         RowTyped(row', Len(sent), attempts),
         \A w \in adrift' : w.attempt \in 0..attempts,
         Len(checkouts) <= Len(checkouts'), Len(checkouts') \in 0..MaxCheckouts,
         \A s \in DOMAIN checkouts' :
           \/ /\ s \in DOMAIN checkouts /\ checkouts'[s].attempt = checkouts[s].attempt
              /\ checkouts'[s].born = checkouts[s].born
           \/ checkouts'[s].attempt \in 0..attempts /\ checkouts'[s].born = ticks
  PROVE  FieldsInv'
<1>1. Shape /\ RowsInv /\ EventsInv /\ NumbersInv
  BY DEF DoorInv, RowInv, FieldsInv
<1>2. NumbersInv'
  <2>1. \A d \in Callers : calls'[d].attempt \in 0..attempts'
    BY <1>1, CallAttempts, AttemptsKept
  <2> QED BY <1>1, <2>1, AttemptsKept, NumbersKept
<1>3. RowsInv' /\ EventsInv'
  <2>1. Len(sent) \in Nat /\ Len(sent) <= Len(sent') /\ Len(sent') \in Nat
    BY <1>1 DEF EventsInv
  <2>2. receipts' \cup answered' \cup saved'.receipts \subseteq DOMAIN sent
    BY <1>1 DEF EventsInv
  <2>3. Len(checkouts') \in Nat /\ attempts \in Nat /\ attempts' \in Nat /\ attempts <= attempts'
    BY <1>1, AttemptsKept
  <2> QED BY <1>1, <2>1, <2>2, <2>3, RowsKept, EventsKept
<1> QED BY <1>2, <1>3 DEF FieldsInv

LEMMA ClearedRow ==
  ASSUME RowInv, row' = Cleared(row)
  PROVE  RowTyped(row', Len(sent), attempts) /\ row'.attempt = None /\ row'.session = None
<1>1. /\ row \in RowsOf(Len(sent), attempts) /\ (row.fenced => row.status = "none")
      /\ Len(sent) \in Nat /\ attempts \in Nat
  BY DEF RowInv, FieldsInv, RowsInv, RowTyped, EventsInv, NumbersInv
<1>2. /\ row' \in RowsOf(Len(sent), attempts) /\ row'.attempt = None /\ row'.session = None
      /\ \A f \in {"fenced", "dead", "sub", "status", "seen"} : row'[f] = row[f]
  BY <1>1, ClearedTyped
<1>3. row'.fenced = row.fenced /\ row'.status = row.status
  BY <1>2
<1> QED BY <1>1, <1>2, <1>3 DEF RowTyped

LEMMA BoundRow ==
  ASSUME RowInv, NEW s \in 0..MaxCheckouts, row' = [row EXCEPT !.session = s]
  PROVE  /\ RowTyped(row', Len(sent), attempts) /\ row'.session = s
         /\ row'.attempt = row.attempt /\ row'.sub = row.sub /\ row'.seen = row.seen
         /\ HasLive(row') = HasLive(row)
<1>1. /\ row \in RowsOf(Len(sent), attempts) /\ (row.fenced => row.status = "none")
      /\ (row.attempt # None => row.fenced)
  BY DEF RowInv, FieldsInv, RowsInv, RowTyped
<1>2. /\ row' \in RowsOf(Len(sent), attempts) /\ row'.session = s
      /\ row'.attempt = row.attempt /\ row'.sub = row.sub /\ row'.seen = row.seen
      /\ row'.fenced = row.fenced /\ row'.status = row.status
  BY <1>1 DEF RowsOf
<1> QED BY <1>1, <1>2 DEF RowTyped, HasLive

(* A Session of the row's attempt is bound, and perhaps handed out.        *)
LEMMA BindKnown ==
  ASSUME Shape, EventsInv, SessionsAge, KnownInv, ~restored, NEW s \in DOMAIN checkouts,
         row'.session = s, row'.attempt = row.attempt, row'.sub = row.sub, row'.seen = row.seen,
         HasLive(row') = HasLive(row),
         AttemptOf(s) = row.attempt, row.attempt # None, UNCHANGED <<sent, restored>>,
         DOMAIN checkouts' = DOMAIN checkouts,
         \A t \in DOMAIN checkouts : AttemptOf(t)' = AttemptOf(t),
         Guarded' => Guarded,
         Doors' \subseteq Doors \cup {s}, s \in Doors' => s \in Doors \/ ~checkouts[s].handed,
         HoldersAttempt'
  PROVE  KnownInv'
<1> SUFFICES (HoldersAttempt /\ SessionIsBound /\ DoorsKnown /\ DoorIsLatest)'
  BY DEF KnownInv
<1>1. SessionIsBound'
  BY DEF SessionIsBound, None
<1>2. \A t \in Doors : t \in DOMAIN checkouts
  BY DEF Doors
<1>3. DoorsKnown'
  <2> SUFFICES ASSUME Guarded', NEW t \in Doors', AttemptOf(t)' # None PROVE KnownBy(t)'
    BY DEF DoorsKnown
  <2>1. CASE t = s
    BY <2>1 DEF KnownBy
  <2>2. CASE t # s
    <3>1. t \in Doors /\ AttemptOf(t) # None
      BY <1>2, <2>2
    <3>2. KnownBy(t)
      BY <3>1 DEF KnownInv, DoorsKnown
    <3> QED BY <1>2, <3>1, <3>2 DEF KnownBy
  <2> QED BY <2>1, <2>2
<1>4. DoorIsLatest'
  <2> SUFFICES ASSUME Guarded', NEW t \in Doors', AttemptOf(t)' # None,
                      NEW i \in DOMAIN sent, NEW j \in DOMAIN sent, sent[i].sub = t, sent[j].sub # t
               PROVE  j < i
    BY DEF DoorIsLatest
  <2>1. t \in Doors
    BY DEF SessionsAge
  <2> QED BY <1>2, <2>1 DEF KnownInv, DoorIsLatest
<1> QED BY <1>1, <1>3, <1>4

LEMMA HandKnown ==
  ASSUME Shape, RowInv, NEW c \in Callers, NEW s \in DOMAIN checkouts,
         UNCHANGED <<sent, restored, rollout>>, Guarded' => Guarded, HoldersAttempt',
         ~restored => AttemptOf(s) = row.attempt /\ row.attempt # None,
         HandOut(c, s) \/ (row' = [row EXCEPT !.session = s] /\ UNCHANGED checkouts)
  PROVE  SessionsAge' /\ KeysOpenOne' /\ KnownInv'
<1>1. /\ row' = [row EXCEPT !.session = s] /\ s \in 0..MaxCheckouts
      /\ EventsInv /\ SessionsAge /\ KeysOpenOne /\ KnownInv
  BY SessionFields, CheckoutAssumption DEF RowInv, FieldsInv, NumbersInv, HandOut
<1>2. /\ row'.session = s /\ row'.attempt = row.attempt /\ row'.sub = row.sub
      /\ row'.seen = row.seen /\ HasLive(row') = HasLive(row)
  BY <1>1, BoundRow
<1>3. SessionsAge' /\ KeysOpenOne'
  BY <1>1, HandKeeps, SessionsKept
<1>4. /\ DOMAIN checkouts' = DOMAIN checkouts
      /\ \A t \in DOMAIN checkouts : AttemptOf(t)' = AttemptOf(t)
      /\ Doors' \subseteq Doors \cup {s}
      /\ s \in Doors' => s \in Doors \/ ~checkouts[s].handed
  <2>1. CASE HandOut(c, s)
    <3>1. /\ DOMAIN checkouts' = DOMAIN checkouts
          /\ \A t \in DOMAIN checkouts : AttemptOf(t)' = AttemptOf(t)
          /\ Doors' \subseteq Doors \cup {s}
      BY <1>1, <2>1, HandKeeps
    <3>2. checkouts'[s].status = checkouts[s].status /\ checkouts'[s].life = checkouts[s].life
      BY <2>1, HandsOver
    <3> QED BY <3>1, <3>2 DEF Doors, Unresolved
  <2>2. CASE UNCHANGED checkouts
    BY <2>2, SameSessions DEF AttemptOf
  <2> QED BY <2>1, <2>2
<1>5. restored => KnownInv'
  BY DEF KnownInv
<1> QED BY <1>1, <1>2, <1>3, <1>4, <1>5, BindKnown

LEMMA NoneHeld ==
  ASSUME Unlocked, NEW c \in Callers, calls'[c].pc \notin {"calling", "answered"},
         \A d \in Callers \ {c} : calls'[d] = calls[d]
  PROVE  HoldersAttempt'
BY NobodyAtStripe DEF HoldersAttempt

LEMMA ResolveFoundRow ==
  ASSUME DoorInv, RowInv, UNCHANGED cutoverVars, NEW c \in Callers, NEW s \in DOMAIN checkouts,
         ResolveFound(c, s)
  PROVE  RowInv'
<1>1. /\ Shape /\ EventsInv /\ NumbersInv /\ SessionsAge /\ KeysOpenOne /\ Unlocked
      /\ rollout.state = "active" /\ row.attempt # None /\ AttemptOf(s) = row.attempt
      /\ \A t \in DOMAIN checkouts : Unresolved(t) => t = s
      /\ s \in 0..MaxCheckouts /\ None \in 0..attempts
      /\ UNCHANGED <<receipts, rollout, sent, answered, adrift, attempts, ticks, saved, restored>>
  BY ScanFoundAll, SessionFields, CheckoutAssumption
     DEF DoorInv, RowInv, FieldsInv, ResolveFound, Resolves, Matches, NumbersInv, None
<1>2. \/ Over(s) /\ Restart(c) /\ UNCHANGED checkouts
      \/ HandOut(c, s)
      \/ /\ row' = [row EXCEPT !.session = s] /\ UNCHANGED checkouts
         /\ calls' = [calls EXCEPT ![c] = Idle]
  BY DEF ResolveFound
<1>3. /\ calls'[c].attempt \in 0..attempts /\ calls'[c].pc \notin {"calling", "answered"}
      /\ \A d \in Callers \ {c} : calls'[d] = calls[d]
  BY <1>1, <1>2, CallEnds DEF HandOut
<1>4. HoldersAttempt'
  BY <1>1, <1>3, NoneHeld
<1>5. Guarded' => Guarded
  BY <1>1 DEF cutoverVars, Guarded
<1>6. \A w \in adrift' : w.attempt \in 0..attempts
  BY <1>1, AttemptsKept
<1>7. CASE Over(s) /\ Restart(c) /\ UNCHANGED checkouts
  <2>1. RowTyped(row', Len(sent), attempts) /\ row'.attempt = None /\ row'.session = None
    BY <1>7, ClearedRow DEF Restart
  <2>2. FieldsInv'
    BY <1>1, <1>3, <1>6, <1>7, <2>1, PressFields, AttemptsKept
  <2>3. SessionsAge' /\ KeysOpenOne'
    BY <1>1, <1>7, SessionsKept
  <2>4. Doors' = {}
    BY <1>1, <1>7, SameSessions DEF Doors, Unresolved, Over, SessionsAge
  <2>5. SessionIsBound'
    BY <2>1 DEF SessionIsBound
  <2> QED BY <1>4, <2>2, <2>3, <2>4, <2>5, NoDoorsKnown DEF RowInv
<1>8. CASE HandOut(c, s) \/ (row' = [row EXCEPT !.session = s] /\ UNCHANGED checkouts)
  <2>1. row' = [row EXCEPT !.session = s]
    BY <1>8 DEF HandOut
  <2>2. RowTyped(row', Len(sent), attempts)
    BY <1>1, <2>1, BoundRow
  <2>3. SessionsAge' /\ KeysOpenOne' /\ KnownInv'
    BY <1>1, <1>4, <1>5, <1>8, HandKnown
  <2>4. /\ Len(checkouts') = Len(checkouts) /\ DOMAIN checkouts' = DOMAIN checkouts
        /\ \A t \in DOMAIN checkouts : checkouts'[t].attempt = checkouts[t].attempt
        /\ \A t \in DOMAIN checkouts : checkouts'[t].born = checkouts[t].born
    BY <1>1, <1>8, HandKeeps DEF AttemptOf
  <2>5. Len(checkouts) <= Len(checkouts') /\ Len(checkouts') \in 0..MaxCheckouts
    BY <1>1, <2>4 DEF NumbersInv
  <2>6. FieldsInv'
    BY <1>1, <1>3, <1>6, <2>2, <2>4, <2>5, PressFields
  <2> QED BY <2>3, <2>6 DEF RowInv
<1> QED BY <1>2, <1>7, <1>8

LEMMA ResolveMissingRow ==
  ASSUME DoorInv, RowInv, UNCHANGED cutoverVars, NEW c \in Callers, ResolveMissing(c) PROVE RowInv'
<1>1. /\ Shape /\ EventsInv /\ NumbersInv /\ SessionsAge /\ KeysOpenOne /\ Unlocked
      /\ rollout.state = "active" /\ row.attempt # None /\ calls[c].attempt = row.attempt
      /\ calls[c].attempt \in 0..attempts
      /\ \A t \in DOMAIN checkouts : ~Unresolved(t)
      /\ None \in 0..attempts
      /\ UNCHANGED <<receipts, rollout, checkouts, sent, answered, adrift, attempts, ticks, saved, restored>>
  BY ScanFoundAll DEF DoorInv, RowInv, FieldsInv, ResolveMissing, Resolves, NumbersInv, None
<1>2. Doors' = {}
  BY <1>1, SameSessions DEF Doors
<1>3. SessionsAge' /\ KeysOpenOne'
  BY <1>1, SessionsKept
<1>4. \A w \in adrift' : w.attempt \in 0..attempts
  BY <1>1, AttemptsKept
<1>5. CASE Restart(c)
  <2>1. RowTyped(row', Len(sent), attempts) /\ row'.attempt = None /\ row'.session = None
    BY <1>5, ClearedRow DEF Restart
  <2>2. /\ calls'[c].attempt \in 0..attempts /\ calls'[c].pc \notin {"calling", "answered"}
        /\ \A d \in Callers \ {c} : calls'[d] = calls[d]
    BY <1>1, <1>5, CallEnds
  <2>3. HoldersAttempt'
    BY <1>1, <2>2, NoneHeld
  <2>4. FieldsInv'
    BY <1>1, <1>4, <2>1, <2>2, PressFields, AttemptsKept
  <2>5. SessionIsBound'
    BY <2>1 DEF SessionIsBound
  <2> QED BY <1>2, <1>3, <2>3, <2>4, <2>5, NoDoorsKnown DEF RowInv
<1>6. CASE calls' = [calls EXCEPT ![c].pc = "calling", ![c].since = ticks] /\ UNCHANGED row
  <2>1. /\ calls'[c].pc = "calling" /\ calls'[c].attempt = calls[c].attempt
        /\ \A d \in Callers \ {c} : calls'[d] = calls[d]
    BY <1>1, <1>6 DEF Shape, CallsOf
  <2>2. RowTyped(row', Len(sent), attempts)
    BY <1>6 DEF RowInv, FieldsInv, RowsInv
  <2>3. FieldsInv'
    BY <1>1, <1>4, <2>1, <2>2, PressFields, AttemptsKept
  <2>4. HoldersAttempt'
    BY <1>1, <1>6, <2>1 DEF HoldersAttempt, Unlocked
  <2>5. ~restored => SessionIsBound'
    BY <1>1, <1>6 DEF RowInv, KnownInv, SessionIsBound, AttemptOf
  <2>6. restored' => KnownInv'
    BY DEF KnownInv
  <2> QED BY <1>1, <1>2, <1>3, <2>3, <2>4, <2>5, <2>6, NoDoorsKnown DEF RowInv
<1> QED BY <1>5, <1>6 DEF ResolveMissing

(* Stripe opens a Session for a key, which nobody is given yet.            *)
LEMMA OpenedKeeps ==
  ASSUME Shape, FieldsInv, SessionsAge, KeysOpenOne, NEW a \in 0..attempts, Opened(a),
         UNCHANGED <<sent, rollout>>, rollout.state = "active"
  PROVE  /\ SessionsAge' /\ KeysOpenOne' /\ Doors' \subseteq Doors
         /\ Len(checkouts) <= Len(checkouts') /\ Len(checkouts') \in 0..MaxCheckouts
         /\ \A s \in DOMAIN checkouts : s \in DOMAIN checkouts' /\ AttemptOf(s)' = AttemptOf(s)
         /\ \A s \in DOMAIN checkouts' :
              \/ /\ s \in DOMAIN checkouts /\ checkouts'[s].attempt = checkouts[s].attempt
                 /\ checkouts'[s].born = checkouts[s].born
              \/ checkouts'[s].attempt \in 0..attempts /\ checkouts'[s].born = ticks
<1>1. CASE UNCHANGED checkouts
  BY <1>1, SessionsKept, SameSessions, AttemptsKept DEF FieldsInv, AttemptOf
<1>2. CASE OpenSession(a, FALSE) /\ \A s \in DOMAIN checkouts : AttemptOf(s) # a
  <2>1. FALSE \in BOOLEAN
    OBVIOUS
  <2> QED BY <1>2, <2>1, OpenKeeps
<1> QED BY <1>1, <1>2 DEF Opened

LEMMA ArriveRow ==
  ASSUME DoorInv, RowInv, UNCHANGED cutoverVars, NEW c \in Callers, Arrive(c) PROVE RowInv'
<1>1. /\ Shape /\ FieldsInv /\ EventsInv /\ NumbersInv /\ SessionsAge /\ KeysOpenOne /\ KnownInv
      /\ calls[c].pc = "calling" /\ calls[c].attempt \in 0..attempts
      /\ Opened(calls[c].attempt)
      /\ UNCHANGED <<row, receipts, rollout, sent, answered, adrift, attempts, ticks, saved, restored>>
  BY DEF DoorInv, RowInv, FieldsInv, Arrive, NumbersInv
<1>2. rollout.state = "active"
  BY <1>1, PressedUnderActive
<1>3. /\ calls'[c].pc = "answered" /\ calls'[c].attempt = calls[c].attempt
      /\ \A d \in Callers \ {c} : calls'[d] = calls[d]
  BY <1>1 DEF Arrive, Shape, CallsOf
<1>4. /\ SessionsAge' /\ KeysOpenOne' /\ Doors' \subseteq Doors
      /\ Len(checkouts) <= Len(checkouts') /\ Len(checkouts') \in 0..MaxCheckouts
      /\ \A s \in DOMAIN checkouts : s \in DOMAIN checkouts' /\ AttemptOf(s)' = AttemptOf(s)
      /\ \A s \in DOMAIN checkouts' :
              \/ /\ s \in DOMAIN checkouts /\ checkouts'[s].attempt = checkouts[s].attempt
                 /\ checkouts'[s].born = checkouts[s].born
              \/ checkouts'[s].attempt \in 0..attempts /\ checkouts'[s].born = ticks
  BY <1>1, <1>2, OpenedKeeps
<1>5. FieldsInv'
  <2>1. RowTyped(row', Len(sent), attempts)
    BY <1>1 DEF FieldsInv, RowsInv
  <2>2. \A w \in adrift' : w.attempt \in 0..attempts
    BY <1>1, AttemptsKept
  <2>3. calls'[c].attempt \in 0..attempts
    BY <1>1, <1>3
  <2> QED BY <1>1, <1>3, <1>4, <2>1, <2>2, <2>3, PressFields
<1>6. KnownInv'
  <2>1. Guarded' => Guarded
    BY <1>1 DEF cutoverVars, Guarded
  <2>2. \A d \in Callers : calls'[d].pc \in {"calling", "answered"} =>
          calls[d].pc \in {"calling", "answered"} /\ calls'[d].attempt = calls[d].attempt
    BY <1>1, <1>3
  <2> QED BY <1>1, <1>4, <2>1, <2>2, KnownKept
<1> QED BY <1>4, <1>5, <1>6 DEF RowInv

LEMMA ArriveAdriftRow ==
  ASSUME DoorInv, RowInv, UNCHANGED cutoverVars, NEW w \in adrift, ArriveAdrift(w) PROVE RowInv'
<1>1. /\ Shape /\ FieldsInv /\ RowsInv /\ EventsInv /\ NumbersInv /\ SessionsAge /\ KeysOpenOne /\ KnownInv
      /\ w.attempt \in 0..attempts /\ Opened(w.attempt) /\ rollout.state = "active"
      /\ adrift' \subseteq adrift
      /\ UNCHANGED <<row, receipts, rollout, sent, answered, calls, attempts, ticks, saved, restored>>
  BY DEF DoorInv, RowInv, FieldsInv, ArriveAdrift, NumbersInv, NobodyEarly
<1>4. /\ SessionsAge' /\ KeysOpenOne' /\ Doors' \subseteq Doors
      /\ Len(checkouts) <= Len(checkouts') /\ Len(checkouts') \in 0..MaxCheckouts
      /\ \A s \in DOMAIN checkouts : s \in DOMAIN checkouts' /\ AttemptOf(s)' = AttemptOf(s)
      /\ \A s \in DOMAIN checkouts' :
              \/ /\ s \in DOMAIN checkouts /\ checkouts'[s].attempt = checkouts[s].attempt
                 /\ checkouts'[s].born = checkouts[s].born
              \/ checkouts'[s].attempt \in 0..attempts /\ checkouts'[s].born = ticks
  BY <1>1, OpenedKeeps
<1>5. FieldsInv'
  <2>1. NumbersInv'
    BY <1>1, <1>4, AttemptsKept, NumbersKept
  <2>2. Len(checkouts') \in Nat /\ receipts' \cup answered' \cup saved'.receipts \subseteq DOMAIN sent
    BY <1>1, <1>4 DEF EventsInv
  <2>3. EventsInv'
    BY <1>1, <1>4, <2>2, EventsKept
  <2>4. RowsInv'
    BY <1>1 DEF RowsInv
  <2> QED BY <2>1, <2>3, <2>4 DEF FieldsInv
<1>6. KnownInv'
  <2>1. Guarded' => Guarded
    BY <1>1 DEF cutoverVars, Guarded
  <2> QED BY <1>1, <1>4, <2>1, KnownKept
<1> QED BY <1>4, <1>5, <1>6 DEF RowInv

LEMMA AnswerRow ==
  ASSUME DoorInv, RowInv, UNCHANGED cutoverVars, NEW c \in Callers, Answer(c) PROVE RowInv'
<1>1. PICK s \in DOMAIN checkouts : AttemptOf(s) = calls[c].attempt /\ HandOut(c, s)
  BY DEF Answer
<1>0. s \in 0..MaxCheckouts
  BY SessionFields, CheckoutAssumption DEF DoorInv, RowInv, FieldsInv, NumbersInv
<1>2. /\ Shape /\ EventsInv /\ NumbersInv /\ SessionsAge /\ KeysOpenOne /\ KnownInv
      /\ calls[c].pc = "answered" /\ s \in 0..MaxCheckouts /\ None \in 0..attempts
      /\ row' = [row EXCEPT !.session = s] /\ calls' = [calls EXCEPT ![c] = Idle]
      /\ UNCHANGED <<receipts, rollout, sent, answered, adrift, attempts, ticks, saved, restored>>
  <2>1. Shape /\ RowInv /\ NumbersInv
    BY DEF DoorInv, RowInv, FieldsInv
  <2>2. None \in 0..attempts
    BY <2>1 DEF NumbersInv, None
  <2>3. row' = [row EXCEPT !.session = s] /\ calls' = [calls EXCEPT ![c] = Idle]
    BY <1>1 DEF HandOut
  <2>4. calls[c].pc = "answered"
        /\ UNCHANGED <<receipts, rollout, sent, answered, adrift, attempts, ticks, saved, restored>>
    BY DEF Answer
  <2> QED BY <1>0, <2>1, <2>2, <2>3, <2>4 DEF RowInv, FieldsInv
<1>3. /\ calls'[c].attempt \in 0..attempts /\ calls'[c].pc \notin {"calling", "answered"}
      /\ \A d \in Callers \ {c} : calls'[d] = calls[d]
  BY <1>2, CallEnds
<1>4. HoldersAttempt'
  <2>1. \A d \in Callers : calls[d].pc \in {"calling", "answered"} => d = c
    BY <1>2 DEF DoorInv, HolderFoundNone, Holders
  <2> QED BY <1>3, <2>1 DEF HoldersAttempt
<1>5. Guarded' => Guarded
  BY <1>2 DEF cutoverVars, Guarded
<1>6. ~restored => AttemptOf(s) = row.attempt /\ row.attempt # None
  BY <1>1, <1>2 DEF KnownInv, HoldersAttempt
<1>7. SessionsAge' /\ KeysOpenOne' /\ KnownInv'
  BY <1>1, <1>2, <1>4, <1>5, <1>6, HandKnown
<1>8. /\ Len(checkouts') = Len(checkouts) /\ DOMAIN checkouts' = DOMAIN checkouts
      /\ \A t \in DOMAIN checkouts : checkouts'[t].attempt = checkouts[t].attempt
      /\ \A t \in DOMAIN checkouts : checkouts'[t].born = checkouts[t].born
  BY <1>1, <1>2, HandKeeps DEF AttemptOf
<1>9. FieldsInv'
  <2>1. RowTyped(row', Len(sent), attempts)
    BY <1>2, BoundRow
  <2>2. \A w \in adrift' : w.attempt \in 0..attempts
    BY <1>2, AttemptsKept
  <2>3. Len(checkouts) <= Len(checkouts') /\ Len(checkouts') \in 0..MaxCheckouts
    BY <1>2, <1>8 DEF NumbersInv
  <2> QED BY <1>2, <1>3, <1>8, <2>1, <2>2, <2>3, PressFields
<1> QED BY <1>7, <1>9 DEF RowInv

LEMMA LeaveRow ==
  ASSUME DoorInv, RowInv, UNCHANGED cutoverVars, NEW c \in Callers, Leave(c) PROVE RowInv'
<1>1. /\ Shape /\ FieldsInv /\ RowsInv /\ EventsInv /\ NumbersInv /\ SessionsAge /\ KeysOpenOne /\ KnownInv
      /\ calls' = [calls EXCEPT ![c] = Idle] /\ None \in 0..attempts
      /\ calls[c].attempt \in 0..attempts
      /\ UNCHANGED <<row, receipts, rollout, checkouts, sent, answered, attempts, ticks, saved, restored>>
  BY DEF DoorInv, RowInv, FieldsInv, Leave, NumbersInv, None
<1>2. /\ calls'[c].attempt \in 0..attempts /\ calls'[c].pc \notin {"calling", "answered"}
      /\ \A d \in Callers \ {c} : calls'[d] = calls[d]
  BY <1>1, CallEnds
<1>3. \A w \in adrift' : w.attempt \in 0..attempts
  <2>1. \A w \in adrift : w.attempt \in 0..attempts
    BY <1>1, AttemptsKept
  <2>2. [attempt |-> calls[c].attempt, since |-> calls[c].since].attempt \in 0..attempts
    BY <1>1
  <2> QED BY <2>1, <2>2 DEF Leave
<1>4. FieldsInv'
  <2>1. RowTyped(row', Len(sent), attempts)
    BY <1>1 DEF RowsInv
  <2> QED BY <1>1, <1>2, <1>3, <2>1, PressFields, AttemptsKept
<1>5. SessionsAge' /\ KeysOpenOne'
  BY <1>1, SessionsKept
<1>6. KnownInv'
  <2>1. Guarded' => Guarded
    BY <1>1 DEF cutoverVars, Guarded
  <2>2. \A d \in Callers : calls'[d].pc \in {"calling", "answered"} =>
          calls[d].pc \in {"calling", "answered"} /\ calls'[d].attempt = calls[d].attempt
    BY <1>1, <1>2
  <2> QED BY <1>1, <2>1, <2>2, SameSessions, KnownKept DEF AttemptOf
<1> QED BY <1>4, <1>5, <1>6 DEF RowInv

(* What Stripe has told, after a Session was sold or has ended.            *)
LEMMA StripeTells ==
  ASSUME Shape, EventsInv, NEW s \in DOMAIN checkouts, Complete(s) \/ Expire(s) \/ End(s)
  PROVE  /\ sent' \in Seq(EventsOf(Len(checkouts))) /\ Len(sent) <= Len(sent')
         /\ Len(sent) \in Nat /\ Len(sent') \in Nat
         /\ DOMAIN sent \subseteq DOMAIN sent' /\ \A i \in DOMAIN sent : sent'[i] = sent[i]
         /\ \A i \in DOMAIN sent' \ DOMAIN sent :
              /\ sent'[i].sub = s /\ (sent'[i].kind = "deleted" => End(s)) /\ (Complete(s) \/ End(s))
              /\ i > Len(sent)
<1>1. CASE Expire(s)
  BY <1>1 DEF Expire, EventsInv
<1>2. CASE Complete(s)
  <2>1. sent' = Events(s, Announced)
    BY <1>2 DEF Complete
  <2>2. /\ sent' \in Seq(EventsOf(Len(checkouts))) /\ Len(sent) <= Len(sent')
        /\ Len(sent) \in Nat /\ Len(sent') \in Nat
        /\ DOMAIN sent \subseteq DOMAIN sent' /\ \A i \in DOMAIN sent : sent'[i] = sent[i]
        /\ \A i \in DOMAIN sent' \ DOMAIN sent :
             sent'[i].sub = s /\ sent'[i].kind \in {"checkout", "snapshot", "invoice"}
        /\ \A i \in DOMAIN sent' \ DOMAIN sent : i > Len(sent)
    BY <2>1, EventsTell, CheckoutAssumption
  <2> QED BY <1>2, <2>2
<1>3. CASE End(s)
  <2>1. sent' = Events(s, <<"deleted">>) /\ <<"deleted">> \in Seq({"deleted"})
    BY <1>3 DEF End
  <2>2. /\ sent' \in Seq(EventsOf(Len(checkouts))) /\ Len(sent) <= Len(sent')
        /\ Len(sent) \in Nat /\ Len(sent') \in Nat
        /\ DOMAIN sent \subseteq DOMAIN sent' /\ \A i \in DOMAIN sent : sent'[i] = sent[i]
        /\ \A i \in DOMAIN sent' \ DOMAIN sent : sent'[i].sub = s /\ sent'[i].kind \in {"deleted"}
        /\ \A i \in DOMAIN sent' \ DOMAIN sent : i > Len(sent)
    BY <2>1, EventsTell
  <2> QED BY <1>3, <2>2
<1> QED BY <1>1, <1>2, <1>3

LEMMA StripeAges ==
  ASSUME Shape, EventsInv, SessionsAge, NEW s \in DOMAIN checkouts,
         Complete(s) \/ Expire(s) \/ End(s)
  PROVE  SessionsAge'
<1>1. /\ DOMAIN checkouts' = DOMAIN checkouts
      /\ \A t \in DOMAIN checkouts : t # s => checkouts'[t] = checkouts[t]
      /\ checkouts'[s].handed = checkouts[s].handed
      /\ Complete(s) => checkouts'[s].status = "complete" /\ checkouts'[s].life = "live"
      /\ Expire(s) => checkouts'[s].status = "expired" /\ checkouts'[s].life = checkouts[s].life
      /\ End(s) => checkouts'[s].status = checkouts[s].status /\ checkouts'[s].life = "dead"
  BY StripeEdits DEF Edits
<1>2. /\ Complete(s) => checkouts[s].handed /\ checkouts[s].life = "none"
      /\ Expire(s) => checkouts[s].life = "none"
      /\ End(s) => checkouts[s].handed /\ checkouts[s].status = "complete"
  BY DEF Complete, Expire, End, SessionsAge
<1>3. /\ checkouts'[s].status # "complete" => checkouts'[s].life = "none"
      /\ checkouts'[s].life # "none" => checkouts'[s].handed
  BY <1>1, <1>2
<1>4. \A t \in DOMAIN checkouts' :
        /\ checkouts'[t].status # "complete" => checkouts'[t].life = "none"
        /\ checkouts'[t].life # "none" => checkouts'[t].handed
  BY <1>1, <1>3 DEF SessionsAge
<1>5. /\ DOMAIN sent \subseteq DOMAIN sent' /\ \A i \in DOMAIN sent : sent'[i] = sent[i]
      /\ \A i \in DOMAIN sent' \ DOMAIN sent :
           sent'[i].sub = s /\ (sent'[i].kind = "deleted" => End(s)) /\ (Complete(s) \/ End(s))
  BY StripeTells
<1>6. \A i \in DOMAIN sent : sent[i].sub \in DOMAIN checkouts
  BY SubsAreSessions
<1>7. ASSUME NEW i \in DOMAIN sent
      PROVE  checkouts'[sent[i].sub].handed
             /\ (sent[i].kind = "deleted" => checkouts'[sent[i].sub].life = "dead")
  <2>1. CASE sent[i].sub # s
    BY <1>1, <1>6, <2>1 DEF SessionsAge
  <2>2. CASE sent[i].sub = s
    BY <1>1, <1>2, <2>2 DEF SessionsAge
  <2> QED BY <2>1, <2>2
<1>8. ASSUME NEW i \in DOMAIN sent'
      PROVE  checkouts'[sent'[i].sub].handed
             /\ (sent'[i].kind = "deleted" => checkouts'[sent'[i].sub].life = "dead")
  BY <1>1, <1>2, <1>5, <1>7
<1> QED BY <1>4, <1>8 DEF SessionsAge

LEMMA StripeRow == ASSUME DoorInv, RowInv, UNCHANGED cutoverVars, AtStripe PROVE RowInv'
<1>1. PICK s \in DOMAIN checkouts : Complete(s) \/ Expire(s) \/ End(s)
  BY DEF AtStripe
<1>2. /\ Shape /\ FieldsInv /\ RowsInv /\ EventsInv /\ NumbersInv /\ SessionsAge /\ KeysOpenOne /\ KnownInv
      /\ UNCHANGED <<row, receipts, rollout, answered, calls, adrift, attempts, ticks, saved, restored>>
  BY DEF DoorInv, RowInv, FieldsInv, AtStripe
<1>3. /\ Len(checkouts') = Len(checkouts) /\ DOMAIN checkouts' = DOMAIN checkouts
      /\ \A t \in DOMAIN checkouts : AttemptOf(t)' = AttemptOf(t)
      /\ \A t \in DOMAIN checkouts : checkouts'[t].born = checkouts[t].born
  BY <1>1, <1>2, StripeEdits DEF Edits, AttemptOf
<1>4. /\ sent' \in Seq(EventsOf(Len(checkouts))) /\ Len(sent) <= Len(sent')
      /\ Len(sent) \in Nat /\ Len(sent') \in Nat
      /\ DOMAIN sent \subseteq DOMAIN sent' /\ \A i \in DOMAIN sent : sent'[i] = sent[i]
      /\ \A i \in DOMAIN sent' \ DOMAIN sent :
           sent'[i].sub = s /\ (Complete(s) \/ End(s)) /\ i > Len(sent)
  BY <1>1, <1>2, StripeTells
<1>5. FieldsInv'
  <2>1. NumbersInv'
    <3>1. Len(checkouts') \in 0..MaxCheckouts
      BY <1>2, <1>3, AttemptsKept
    <3>2. \A t \in DOMAIN checkouts' : t \in DOMAIN checkouts
            /\ checkouts'[t].attempt = checkouts[t].attempt /\ checkouts'[t].born = checkouts[t].born
      BY <1>3 DEF AttemptOf
    <3> QED BY <1>2, <3>1, <3>2, AttemptsKept, NumbersKept
  <2>2. EventsInv'
    BY <1>2, <1>3, <1>4 DEF EventsInv
  <2>3. RowsInv'
    BY <1>2, <1>4, AttemptsKept, RowsKept
  <2> QED BY <2>1, <2>2, <2>3 DEF FieldsInv
<1>6. SessionsAge'
  BY <1>1, <1>2, StripeAges
<1>7. KeysOpenOne'
  BY <1>2, <1>3 DEF KeysOpenOne
<1>8. KnownInv'
  <2> SUFFICES ASSUME ~restored PROVE (HoldersAttempt /\ SessionIsBound /\ DoorsKnown /\ DoorIsLatest)'
    BY <1>2 DEF KnownInv
  <2>1. HoldersAttempt'
    BY <1>2 DEF KnownInv, HoldersAttempt
  <2>2. SessionIsBound'
    BY <1>2, <1>3 DEF KnownInv, SessionIsBound
  <2>3. Doors' \subseteq Doors /\ (Guarded' => Guarded) /\ \A t \in Doors : t \in DOMAIN checkouts
    BY <1>2, StripeShuts DEF Guarded, cutoverVars, Doors
  <2>4. DoorsKnown'
    <3> SUFFICES ASSUME Guarded', NEW t \in Doors', AttemptOf(t)' # None PROVE KnownBy(t)'
      BY DEF DoorsKnown
    <3>1. t \in Doors /\ AttemptOf(t) # None /\ t \in DOMAIN checkouts
      BY <1>3, <2>3
    <3>2. KnownBy(t)
      BY <1>2, <2>3, <3>1 DEF KnownInv, DoorsKnown
    <3> QED BY <1>2, <1>3, <1>4, <3>1, <3>2 DEF KnownBy
  <2>5. DoorIsLatest'
    <3> SUFFICES ASSUME Guarded', NEW t \in Doors', AttemptOf(t)' # None,
                        NEW i \in DOMAIN sent', NEW j \in DOMAIN sent',
                        sent'[i].sub = t, sent'[j].sub # t
                 PROVE  j < i
      BY DEF DoorIsLatest
    <3>1. t \in Doors /\ AttemptOf(t) # None /\ t \in DOMAIN checkouts
      BY <1>3, <2>3
    <3>2. j \in DOMAIN sent
      <4>1. Complete(s) \/ End(s) => s \in Doors
        BY <1>2 DEF Complete, End, Doors, Unresolved, SessionsAge
      <4>2. s \in Doors => s = t
        BY <2>3, <3>1 DEF DoorInv, HolderFoundNone
      <4> QED BY <1>4, <4>1, <4>2
    <3>3. CASE i \in DOMAIN sent
      BY <1>2, <1>4, <2>3, <3>1, <3>2, <3>3 DEF KnownInv, DoorIsLatest
    <3>4. CASE i \notin DOMAIN sent
      <4>1. i > Len(sent) /\ j \in 1..Len(sent) /\ i \in 1..Len(sent')
        BY <1>2, <1>4, <3>2, <3>4 DEF EventsInv
      <4> QED BY <1>4, <4>1
    <3> QED BY <3>3, <3>4
  <2> QED BY <2>1, <2>2, <2>4, <2>5
<1> QED BY <1>5, <1>6, <1>7, <1>8 DEF RowInv

-----------------------------------------------------------------------------
(* The database                                                            *)

LEMMA BackupRow == ASSUME DoorInv, RowInv, UNCHANGED cutoverVars, Backup PROVE RowInv'
<1>1. /\ Shape /\ FieldsInv /\ RowsInv /\ EventsInv /\ NumbersInv /\ SessionsAge /\ KeysOpenOne /\ KnownInv
      /\ saved' = [row |-> row, receipts |-> receipts, taken |-> TRUE]
      /\ UNCHANGED <<row, receipts, rollout, checkouts, sent, answered, calls, adrift, attempts, ticks, restored>>
  BY DEF DoorInv, RowInv, FieldsInv, Backup
<1>2. saved'.row = row /\ saved'.receipts = receipts
  BY <1>1
<1>3. FieldsInv'
  <2>1. NumbersInv'
    BY <1>1, NumbersSame, AttemptsKept
  <2>2. EventsInv' /\ RowsInv'
    BY <1>1, <1>2 DEF EventsInv, RowsInv
  <2> QED BY <2>1, <2>2 DEF FieldsInv
<1>4. SessionsAge' /\ KeysOpenOne'
  BY <1>1, SessionsKept
<1>5. Guarded' => Guarded
  BY <1>1 DEF cutoverVars, Guarded
<1>6. KnownInv'
  BY <1>1, <1>5, SameSessions, KnownKept DEF AttemptOf
<1> QED BY <1>3, <1>4, <1>6 DEF RowInv

LEMMA RestoreRow == ASSUME DoorInv, RowInv, UNCHANGED cutoverVars, RestoreBackup PROVE RowInv'
<1>1. /\ Shape /\ FieldsInv /\ RowsInv /\ EventsInv /\ NumbersInv /\ SessionsAge /\ KeysOpenOne
      /\ rollout.state = "active" /\ calls' = [c \in Callers |-> Idle]
      /\ row' = saved.row /\ receipts' = saved.receipts /\ restored'
      /\ UNCHANGED <<rollout, checkouts, sent, answered, attempts, ticks, saved>>
  BY DEF DoorInv, RowInv, FieldsInv, RestoreBackup, NobodyEarly
<1>2. NumbersInv'
  <2>1. \A c \in Callers : calls'[c].attempt \in 0..attempts
    BY <1>1, AttemptsKept DEF Idle, None
  <2>2. \A w \in adrift' : w.attempt \in 0..attempts
    <3>1. \A c \in Callers : [attempt |-> calls[c].attempt, since |-> calls[c].since].attempt \in 0..attempts
      BY <1>1, AttemptsKept
    <3> QED BY <1>1, <3>1, AttemptsKept DEF RestoreBackup
  <2> QED BY <1>1, <2>1, <2>2, NumbersSame
<1>3. EventsInv' /\ RowsInv'
  BY <1>1 DEF EventsInv, RowsInv
<1>4. SessionsAge' /\ KeysOpenOne'
  BY <1>1, SessionsKept
<1>5. KnownInv'
  BY <1>1 DEF KnownInv
<1> QED BY <1>2, <1>3, <1>4, <1>5 DEF RowInv, FieldsInv

LEMMA ReconcileRow ==
  ASSUME DoorInv, RowInv, UNCHANGED cutoverVars, NEW s \in DOMAIN checkouts, Reconcile(s) PROVE RowInv'
<1>1. /\ Shape /\ FieldsInv /\ RowsInv /\ EventsInv /\ NumbersInv /\ SessionsAge /\ KeysOpenOne /\ restored
      /\ UNCHANGED <<rollout, checkouts, sent, answered, calls, adrift, attempts, ticks, saved, restored>>
  BY DEF DoorInv, RowInv, FieldsInv, Reconcile
<1>2. RowTyped(row', Len(sent), attempts) /\ receipts' \subseteq DOMAIN sent
  <2>1. CASE row' = Rebound(s) /\ UNCHANGED receipts
    BY <1>1, <2>1, ReboundTyped DEF EventsInv
  <2>2. CASE /\ Replayed(s) # Thrown /\ row' = Replayed(s)
             /\ receipts' = receipts \cup {i \in DOMAIN sent : sent[i].sub = s}
    BY <1>1, <2>2, ReplayedTyped DEF EventsInv
  <2> QED BY <2>1, <2>2 DEF Reconcile
<1>3. FieldsInv'
  <2>1. NumbersInv'
    BY <1>1, NumbersSame, AttemptsKept
  <2>2. EventsInv' /\ RowsInv'
    BY <1>1, <1>2 DEF EventsInv, RowsInv
  <2> QED BY <2>1, <2>2 DEF FieldsInv
<1>4. SessionsAge' /\ KeysOpenOne'
  BY <1>1, SessionsKept
<1>5. KnownInv'
  BY <1>1 DEF KnownInv
<1> QED BY <1>3, <1>4, <1>5 DEF RowInv

-----------------------------------------------------------------------------
(* The webhook                                                             *)

(* What an event i of Session s makes of the row: it is bound to s, it     *)
(* mirrors s, or an end is written on it.                                  *)
Binds(i, s) ==
  /\ row.fenced => ~FenceRefuses(row, s)
  /\ ~row.fenced => ~(row.seen > i)
  /\ row'.sub = s /\ row'.seen = row.seen
  /\ row'.fenced = row.fenced /\ row'.status = row.status /\ row'.attempt = row.attempt
  /\ row'.session = row.session \/ (row.attempt # None /\ row'.session = s)

Reflects(i, s) ==
  /\ row.fenced => ~FenceRefuses(row, s)
  /\ ~(row.seen > i)
  /\ row'.sub = s /\ row'.seen = i /\ ~row'.fenced /\ row'.status = "live"
  /\ row'.attempt = None /\ row'.session = None

Ends(i) ==
  /\ sent[i].kind = "deleted"
  /\ \/ row'.attempt = row.attempt /\ row'.session = row.session
     \/ row'.attempt = None /\ row'.session = None

LEMMA HandledFields ==
  ASSUME RowsInv, NumbersInv, EventsInv, Shape, NEW i \in DOMAIN sent,
         row' = Handled(row, i), row' # Thrown
  PROVE  row' = row \/ Binds(i, sent[i].sub) \/ Reflects(i, sent[i].sub) \/ Ends(i)
<1> DEFINE s == sent[i].sub
<1>1. row \in RowsOf(Len(sent), attempts) /\ Len(sent) \in Nat /\ attempts \in Nat
  BY DEF RowsInv, RowTyped, EventsInv, NumbersInv
<1>2. CASE row' = OnCheckout(row, i, s)
  <2> DEFINE q == [row EXCEPT !.sub = s, !.session = IF row.attempt # None THEN s ELSE @]
  <2>1. /\ q.sub = s /\ q.seen = row.seen /\ q.fenced = row.fenced /\ q.status = row.status
        /\ q.attempt = row.attempt
        /\ q.session = row.session \/ (row.attempt # None /\ q.session = s)
    BY <1>1 DEF RowsOf
  <2>2. \/ row' = row
        \/ row' = q /\ ~(row.seen > i) /\ (row.fenced => ~FenceRefuses(row, s))
    BY <1>2 DEF OnCheckout
  <2> HIDE DEF q
  <2> QED BY <2>1, <2>2 DEF Binds
<1>3. CASE row' = OnSnapshot(row, i, s)
  <2> DEFINE c == Cleared(row)
             q == [c EXCEPT !.sub = s, !.status = "live", !.seen = i, !.fenced = FALSE, !.dead = None]
  <2>1. c \in RowsOf(Len(sent), attempts) /\ c.attempt = None /\ c.session = None
    BY <1>1, ClearedTyped
  <2>2. \/ row' = row
        \/ row' = q /\ ~(row.seen > i) /\ (row.fenced => ~FenceRefuses(row, s))
    BY <1>3 DEF OnSnapshot
  <2> HIDE DEF c
  <2>3. /\ q.sub = s /\ q.seen = i /\ ~q.fenced /\ q.status = "live"
        /\ q.attempt = None /\ q.session = None
    BY <2>1 DEF RowsOf
  <2> HIDE DEF q
  <2> QED BY <2>2, <2>3 DEF Reflects
<1>4. CASE sent[i].kind = "deleted" /\ row' = OnDeleted(row, i, s)
  <2> DEFINE p == [row EXCEPT !.sub = s, !.status = "dead", !.seen = i]
             c == Cleared(row)
             q == [c EXCEPT !.sub = None, !.seen = i, !.dead = s]
  <2>1. c \in RowsOf(Len(sent), attempts) /\ c.attempt = None /\ c.session = None
    BY <1>1, ClearedTyped
  <2>2. p.attempt = row.attempt /\ p.session = row.session
    BY <1>1 DEF RowsOf
  <2>3. row' = row \/ row' = p \/ row' = q
    BY <1>4 DEF OnDeleted
  <2> HIDE DEF c, p
  <2>4. q.attempt = None /\ q.session = None
    BY <2>1 DEF RowsOf
  <2> HIDE DEF q
  <2> QED BY <1>4, <2>2, <2>3, <2>4 DEF Ends
<1>5. CASE row' = OnInvoice(row, s)
  <2> DEFINE q == [row EXCEPT !.sub = s]
  <2>1. /\ q.sub = s /\ q.seen = row.seen /\ q.fenced = row.fenced /\ q.status = row.status
        /\ q.attempt = row.attempt /\ q.session = row.session
    BY <1>1 DEF RowsOf
  <2>2. row' = row \/ (row' = q /\ row.fenced /\ ~FenceRefuses(row, s))
    BY <1>5 DEF OnInvoice
  <2> HIDE DEF q
  <2> QED BY <2>1, <2>2 DEF Binds
<1> QED BY <1>2, <1>3, <1>4, <1>5 DEF Handled

LEMMA HandledKnows ==
  ASSUME DoorInv, RowInv, ~restored, NEW i \in DOMAIN sent, row' = Handled(row, i), row' # Thrown,
         UNCHANGED <<checkouts, sent, restored>>, Guarded' => Guarded
  PROVE  (SessionIsBound /\ DoorsKnown /\ DoorIsLatest)'
<1> DEFINE s == sent[i].sub
<1>1. /\ Shape /\ RowsInv /\ EventsInv /\ NumbersInv /\ SessionsAge /\ KeysOpenOne
      /\ SessionIsBound /\ DoorsKnown /\ DoorIsLatest
  BY DEF DoorInv, RowInv, FieldsInv, KnownInv
<1>2. /\ s \in DOMAIN checkouts /\ s # None
      /\ (row.attempt # None => row.fenced) /\ (row.fenced => row.status = "none")
  BY <1>1, SubsAreSessions, SessionFields DEF RowsInv, RowTyped, None
<1>3. row' = row \/ Binds(i, s) \/ Reflects(i, s) \/ Ends(i)
  BY <1>1, HandledFields
<1>4. SessionIsBound'
  <2>1. CASE row' = row \/ Ends(i)
    BY <1>1, <2>1 DEF SessionIsBound, Ends, AttemptOf
  <2>2. CASE Reflects(i, s)
    BY <2>2 DEF SessionIsBound, Reflects
  <2>3. CASE Binds(i, s)
    <3>1. row.attempt # None => AttemptOf(s) = row.attempt
      BY <1>2, <2>3 DEF Binds, FenceRefuses
    <3> QED BY <1>1, <1>2, <2>3, <3>1 DEF SessionIsBound, Binds, AttemptOf
  <2> QED BY <1>3, <2>1, <2>2, <2>3
<1>5. Doors' = Doors /\ \A t \in DOMAIN checkouts : AttemptOf(t)' = AttemptOf(t)
  BY SameSessions DEF AttemptOf
<1>6. DoorIsLatest'
  BY <1>1, <1>5 DEF DoorIsLatest, Doors
<1>7. DoorsKnown'
  <2> SUFFICES ASSUME Guarded, NEW t \in Doors, t \in DOMAIN checkouts, AttemptOf(t) # None
               PROVE  KnownBy(t)'
    BY <1>5 DEF DoorsKnown, Doors
  <2>1. KnownBy(t)
    BY <1>1 DEF DoorsKnown
  <2>2. CASE row' = row
    BY <1>5, <2>1, <2>2 DEF KnownBy
  <2>3. CASE Ends(i) /\ s = t
    BY <1>1, <2>3 DEF Ends, SessionsAge, Doors, Unresolved
  <2>4. CASE Binds(i, s) /\ s = t
    BY <1>5, <2>1, <2>4 DEF Binds, KnownBy, HasLive
  <2>5. CASE Reflects(i, s) /\ s = t
    BY <1>2, <2>5 DEF Reflects, KnownBy, HasLive
  <2>6. ASSUME s # t PROVE row' = row
    <3>1. CASE AttemptOf(t) = row.attempt
      <4>1. row.fenced /\ FenceRefuses(row, s)
        BY <1>1, <1>2, <2>6, <3>1 DEF FenceRefuses, KeysOpenOne
      <4> QED BY <4>1 DEF Handled, OnCheckout, OnSnapshot, OnDeleted, OnInvoice
    <3>2. CASE HasLive(row) /\ row.sub = t /\ row.seen \in DOMAIN sent /\ sent[row.seen].sub = t
      <4>1. i < row.seen /\ i \in 1..Len(sent) /\ row.seen \in 1..Len(sent)
        BY <1>1, <2>6, <3>2 DEF DoorIsLatest, EventsInv
      <4>2. row.seen > i /\ ~row.fenced
        BY <1>1, <3>2, <4>1 DEF HasLive
      <4> QED BY <4>2 DEF Handled, OnCheckout, OnSnapshot, OnDeleted, OnInvoice
    <3> QED BY <2>1, <3>1, <3>2 DEF KnownBy
  <2> QED BY <1>3, <2>2, <2>3, <2>4, <2>5, <2>6
<1> QED BY <1>4, <1>6, <1>7

LEMMA DeliverRow ==
  ASSUME DoorInv, RowInv, UNCHANGED cutoverVars, NEW i \in DOMAIN sent, Deliver(i) PROVE RowInv'
<1>1. /\ Shape /\ FieldsInv /\ RowsInv /\ EventsInv /\ NumbersInv /\ SessionsAge /\ KeysOpenOne /\ KnownInv
      /\ Unlocked
      /\ UNCHANGED <<rollout, checkouts, sent, calls, adrift, attempts, ticks, saved, restored>>
  BY DEF DoorInv, RowInv, FieldsInv, Deliver
<1>2. row' = row \/ (row' = Handled(row, i) /\ row' # Thrown)
  BY DEF Deliver
<1>3. FieldsInv'
  <2>1. NumbersInv'
    BY <1>1, NumbersSame, AttemptsKept
  <2>2. EventsInv'
    BY <1>1 DEF EventsInv, Deliver
  <2>3. RowTyped(row', Len(sent), attempts)
    BY <1>1, <1>2, HandledTyped DEF RowsInv
  <2>4. RowsInv'
    BY <1>1, <2>3 DEF RowsInv
  <2> QED BY <2>1, <2>2, <2>4 DEF FieldsInv
<1>4. SessionsAge' /\ KeysOpenOne'
  BY <1>1, SessionsKept
<1>5. (Guarded' => Guarded) /\ HoldersAttempt'
  BY <1>1 DEF cutoverVars, Guarded, HoldersAttempt, Unlocked
<1>6. KnownInv'
  <2>1. CASE row' = row
    BY <1>1, <1>5, <2>1, SameSessions, KnownKept DEF AttemptOf
  <2>2. CASE row' = Handled(row, i) /\ row' # Thrown
    BY <1>1, <1>5, <2>2, HandledKnows DEF KnownInv
  <2> QED BY <1>2, <2>1, <2>2
<1> QED BY <1>3, <1>4, <1>6 DEF RowInv

LEMMA PressRow == ASSUME DoorInv, RowInv, PressNext, UNCHANGED cutoverVars PROVE RowInv'
<1>1. ASSUME NEW c \in Callers,
             \/ Reserve(c) \/ ResolveMissing(c) \/ Arrive(c) \/ Answer(c) \/ Leave(c)
             \/ \E s \in DOMAIN checkouts : ResolveFound(c, s)
      PROVE RowInv'
  BY <1>1, ReserveRow, ResolveMissingRow, ArriveRow, AnswerRow, LeaveRow, ResolveFoundRow
<1> QED
  BY <1>1, ArriveAdriftRow, StripeRow, BackupRow, RestoreRow, DeliverRow, ReconcileRow DEF PressNext

-----------------------------------------------------------------------------
(* The cutover                                                             *)

LEMMA QuietRow == ASSUME DoorInv, RowInv, UNCHANGED checkoutVars, vouched' = vouched PROVE RowInv'
<1>1. /\ Shape /\ FieldsInv /\ RowsInv /\ EventsInv /\ NumbersInv /\ SessionsAge /\ KeysOpenOne /\ KnownInv
      /\ UNCHANGED <<row, receipts, rollout, checkouts, sent, answered, calls, adrift,
                     attempts, ticks, saved, restored>>
  BY DEF DoorInv, RowInv, FieldsInv, checkoutVars
<1>2. FieldsInv'
  <2>1. NumbersInv'
    BY <1>1, NumbersSame, AttemptsKept
  <2>2. EventsInv' /\ RowsInv'
    BY <1>1 DEF EventsInv, RowsInv
  <2> QED BY <2>1, <2>2 DEF FieldsInv
<1>3. SessionsAge' /\ KeysOpenOne'
  BY <1>1, SessionsKept
<1>4. Guarded' => Guarded
  BY <1>1 DEF Guarded
<1>5. KnownInv'
  BY <1>1, <1>4, SameSessions, KnownKept DEF AttemptOf
<1> QED BY <1>2, <1>3, <1>5 DEF RowInv

LEMMA TickRow == ASSUME DoorInv, RowInv, CutoverTick PROVE RowInv'
<1>1. /\ Shape /\ FieldsInv /\ RowsInv /\ EventsInv /\ NumbersInv /\ SessionsAge /\ KeysOpenOne /\ KnownInv
      /\ ticks' = ticks + 1 /\ ticks < MaxTicks
      /\ UNCHANGED <<row, receipts, rollout, checkouts, sent, answered, calls, adrift,
                     attempts, saved, restored, vouched>>
  BY DEF DoorInv, RowInv, FieldsInv, CutoverTick, CheckoutTick, cutoverVars
<1>2. FieldsInv'
  <2>1. ticks' \in 0..MaxTicks
    BY <1>1, AttemptsKept, CheckoutAssumption
  <2>2. NumbersInv'
    BY <1>1, <2>1, AttemptsKept, NumbersKept DEF NumbersInv
  <2>3. EventsInv' /\ RowsInv'
    BY <1>1 DEF EventsInv, RowsInv
  <2> QED BY <2>2, <2>3 DEF FieldsInv
<1>3. SessionsAge' /\ KeysOpenOne'
  BY <1>1, SessionsKept
<1>4. Guarded' => Guarded
  BY <1>1 DEF Guarded
<1>5. KnownInv'
  BY <1>1, <1>4, SameSessions, KnownKept DEF AttemptOf
<1> QED BY <1>2, <1>3, <1>5 DEF RowInv

LEMMA OldArriveRow == ASSUME DoorInv, RowInv, NEW o \in OldCalls, OldArrive(o) PROVE RowInv'
<1>1. /\ Shape /\ FieldsInv /\ RowsInv /\ EventsInv /\ NumbersInv /\ SessionsAge /\ KeysOpenOne /\ KnownInv
      /\ OpenSession(None, alive) /\ alive \in BOOLEAN /\ None \in 0..attempts
      /\ UNCHANGED <<row, receipts, rollout, sent, answered, calls, adrift, attempts, ticks,
                     saved, restored, vouched>>
  BY DEF DoorInv, RowInv, FieldsInv, OldArrive, Shape, NumbersInv, None
<1>2. /\ SessionsAge' /\ KeysOpenOne'
      /\ Len(checkouts) <= Len(checkouts') /\ Len(checkouts') \in 0..MaxCheckouts
      /\ \A s \in DOMAIN checkouts : s \in DOMAIN checkouts' /\ AttemptOf(s)' = AttemptOf(s)
      /\ \A s \in Doors' : s \in Doors \/ AttemptOf(s)' = None
      /\ \A s \in DOMAIN checkouts' :
              \/ /\ s \in DOMAIN checkouts /\ checkouts'[s].attempt = checkouts[s].attempt
                 /\ checkouts'[s].born = checkouts[s].born
              \/ checkouts'[s].attempt \in 0..attempts /\ checkouts'[s].born = ticks
  BY <1>1, OpenKeeps
<1>3. FieldsInv'
  <2>1. NumbersInv'
    BY <1>1, <1>2, AttemptsKept, NumbersKept
  <2>2. Len(checkouts') \in Nat /\ receipts' \cup answered' \cup saved'.receipts \subseteq DOMAIN sent
    BY <1>1, <1>2 DEF EventsInv
  <2>3. EventsInv'
    BY <1>1, <1>2, <2>2, EventsKept
  <2>4. RowsInv'
    BY <1>1 DEF RowsInv
  <2> QED BY <2>1, <2>3, <2>4 DEF FieldsInv
<1>4. Guarded' => Guarded
  BY <1>1 DEF Guarded
<1>5. KnownInv'
  BY <1>1, <1>2, <1>4, KnownKept
<1> QED BY <1>2, <1>3, <1>5 DEF RowInv

(* The fence goes up.                                                      *)
LEMMA FencedRow ==
  ASSUME DoorInv, RowInv, FenceEligible, rollout.state # "active", rollout'.state # "expanded",
         UNCHANGED <<receipts, checkouts, sent, answered, calls, adrift, attempts, ticks, saved, restored>>
  PROVE  RowInv'
<1>1. /\ Shape /\ FieldsInv /\ RowsInv /\ EventsInv /\ NumbersInv /\ SessionsAge /\ KeysOpenOne /\ KnownInv
  BY DEF DoorInv, RowInv, FieldsInv
<1>2. /\ RowTyped(row', Len(sent), attempts)
      /\ row'.attempt = row.attempt /\ row'.session = row.session
  BY <1>1, FenceTyped DEF RowsInv, FenceEligible
<1>3. FieldsInv'
  <2>1. NumbersInv'
    BY <1>1, NumbersSame, AttemptsKept
  <2>2. EventsInv' /\ RowsInv'
    BY <1>1, <1>2 DEF EventsInv, RowsInv
  <2> QED BY <2>1, <2>2 DEF FieldsInv
<1>4. SessionsAge' /\ KeysOpenOne'
  BY <1>1, SessionsKept
<1>5. KnownInv'
  <2> SUFFICES ASSUME ~restored PROVE (HoldersAttempt /\ SessionIsBound /\ DoorsKnown /\ DoorIsLatest)'
    BY DEF KnownInv
  <2>1. HoldersAttempt'
    BY DEF DoorInv, NobodyEarly, HoldersAttempt
  <2>2. SessionIsBound'
    BY <1>1, <1>2 DEF KnownInv, SessionIsBound, AttemptOf
  <2>3. \A s \in Doors' : AttemptOf(s)' = None
    BY <1>1 DEF KeysOpenOne, Doors, AttemptOf
  <2>4. DoorsKnown' /\ DoorIsLatest'
    BY <2>3 DEF DoorsKnown, DoorIsLatest
  <2> QED BY <2>1, <2>2, <2>4
<1> QED BY <1>3, <1>4, <1>5 DEF RowInv

LEMMA DrainRow == ASSUME DoorInv, RowInv, BeginDrain \/ RestartDrain PROVE RowInv'
<1>1. PICK n : Drain(n) /\ rollout.state # "active"
  BY DEF BeginDrain, RestartDrain
<1>2. rollout'.state = "draining"
  BY <1>1 DEF Drain
<1> QED BY <1>1, <1>2, FencedRow DEF Drain

LEMMA ActivateRow == ASSUME DoorInv, RowInv, Activate PROVE RowInv'
<1>1. rollout'.state = "active" /\ rollout.state = "draining"
  BY DEF Activate, DoorInv, Shape
<1> QED BY <1>1, FencedRow DEF Activate

-----------------------------------------------------------------------------
LEMMA InitRow == ASSUME CutoverInit \/ ActiveInit PROVE RowInv
<1>1. /\ row = Unfenced /\ receipts = {} /\ saved = NoBackup
      /\ checkouts = <<>> /\ sent = <<>> /\ answered = {}
      /\ calls = [c \in Callers |-> Idle] /\ adrift = {}
      /\ attempts = 0 /\ ticks = 0 /\ restored = FALSE
  BY DEF CutoverInit, ActiveInit, CheckoutInit
<1>2. MaxCheckouts \in Nat /\ MaxTicks \in Nat /\ Len(<<>>) = 0
  BY CheckoutAssumption
<1>3. RowTyped(Unfenced, 0, 0) /\ NoBackup.row = Unfenced /\ NoBackup.receipts = {}
  BY <1>2 DEF RowTyped, RowsOf, Unfenced, NoBackup, None
<1>4. FieldsInv
  <2>1. RowsInv
    BY <1>1, <1>2, <1>3 DEF RowsInv
  <2>2. EventsInv
    BY <1>1, <1>3 DEF EventsInv
  <2>3. NumbersInv
    BY <1>1, <1>2 DEF NumbersInv, Idle, None
  <2> QED BY <2>1, <2>2, <2>3 DEF FieldsInv
<1>5. SessionsAge /\ KeysOpenOne
  BY <1>1 DEF SessionsAge, KeysOpenOne
<1>6. KnownInv
  BY <1>1 DEF KnownInv, HoldersAttempt, SessionIsBound, DoorsKnown, DoorIsLatest, Doors, Idle, Unfenced
<1> QED BY <1>4, <1>5, <1>6 DEF RowInv

LEMMA NextRow == DoorInv /\ RowInv /\ [CutoverNext]_allVars => RowInv'
<1> SUFFICES ASSUME DoorInv, RowInv, [CutoverNext]_allVars PROVE RowInv'
  OBVIOUS
<1>1. ASSUME NEW o \in OldCalls, OldRead(o) \/ OldSend(o) \/ OldArrive(o) PROVE RowInv'
  BY <1>1, QuietRow, OldArriveRow DEF OldRead, OldSend
<1>2. CASE StopFleet \/ Audit
  BY <1>2, QuietRow DEF StopFleet, Audit
<1>3. CASE UNCHANGED allVars
  BY <1>3, QuietRow DEF allVars, cutoverVars
<1> QED
  BY <1>1, <1>2, <1>3, DrainRow, ActivateRow, TickRow, PressRow DEF CutoverNext

(* The row and the attempt know every Checkout of an attempt that can      *)
(* still bill, unless a restore made them forget, and the fields are of    *)
(* their types, those that an operator's replay of the handlers wrote      *)
(* among them (createTierCheckoutUrl, the Stripe webhook and               *)
(* reconcileTierCheckoutV1Session).                                        *)
THEOREM CheckoutIsKnown == CutoverSpec => []RowKnowsItsDoor
<1>1. DoorInv /\ RowInv => RowKnowsItsDoor
  <2> SUFFICES ASSUME DoorInv, RowInv PROVE CheckoutTypeOK /\ DoorIsKnown
    BY DEF RowKnowsItsDoor
  <2>1. CheckoutTypeOK
    <3>1. RowTyped(row, Len(sent), attempts) /\ receipts \cup answered \subseteq DOMAIN sent
      BY DEF RowInv, FieldsInv, RowsInv, EventsInv
    <3>2. rollout.state \in {"expanded", "draining", "active"}
      BY DEF DoorInv, Shape
    <3>3. DOMAIN calls = Callers /\ \A c \in Callers : calls[c].pc \in Pcs
      BY DEF DoorInv, Shape, CallsOf
    <3> QED BY <3>1, <3>2, <3>3 DEF CheckoutTypeOK, RowTyped, RowsOf, Pcs
  <2>2. DoorIsKnown
    BY DEF RowInv, KnownInv, DoorsKnown, KnownBy, DoorIsKnown
  <2> QED BY <2>1, <2>2
<1>2. CutoverSpec => []RowInv
  <2>1. CutoverInit \/ ActiveInit => RowInv
    BY InitRow
  <2> QED BY <2>1, NextRow, DoorInvariant, PTL DEF CutoverSpec, allVars
<1> QED BY <1>1, <1>2, DoorInvariant, PTL
=============================================================================
