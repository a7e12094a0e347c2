------------------------ MODULE MirrorAndBrainProofs ------------------------
(***************************************************************************)
(* What the runs of MCWorkspaceStories check, proved: of the subscription  *)
(* mirror and of the documents of a profile.                               *)
(***************************************************************************)
EXTENDS SubscriptionMirror, BrainDocuments, SequenceTheorems, FiniteSetTheorems, TLAPS

-----------------------------------------------------------------------------
(***************************************************************************)
(* The mirror for any subscriptions, events and delays: the row keeps its  *)
(* shape, one subscription lives at a time and an ended one stays ended,   *)
(* a grace window holds, old reports leave the owner's pause alone, and    *)
(* the row says what Stripe says once everything is told.                  *)
(***************************************************************************)

Ended(s)   == prov[s].status \in Irreversible
Alive(s)   == prov[s].status \notin {"none"} \cup Irreversible

(* The two records of a pause are one, unless the row was born with a      *)
(* pausedAt of its own, in which case it is fenced.                        *)
PausesAreOne ==
  \/ mirror.paused <=> pause.open # Null
  \/ mirror.fenced /\ mirror.paused /\ pause.open = Null /\ pause.closed = Null

(* A fenced row is empty but for the subscription of its attempt; a row    *)
(* without a fence has no attempt; and a dead row has no deadline.         *)
RowShape ==
  /\ mirror.fenced =>
       /\ mirror.status = "incomplete" /\ mirror.grace = Null
       /\ mirror.sub = Placeholder \/ mirror.sub = mirror.attempt
       /\ mirror.fenceSub # Null => mirror.fenceSub # mirror.attempt /\ Ended(mirror.fenceSub)
  /\ ~mirror.fenced =>
       /\ mirror.sub \in Subs /\ mirror.attempt = Null /\ mirror.fenceSub = Null
       /\ mirror.status \in Irreversible => Ended(mirror.sub) /\ mirror.grace = Null

(* Subscriptions are bought one after another, each when those before it   *)
(* have ended, and the row is at the latest: on it, or fenced for it.      *)
OneAfterAnother ==
  /\ \A r, s \in Subs : r < s /\ prov[s].status # "none" => Ended(r)
  /\ \A s \in Subs : Alive(s) =>
       IF mirror.fenced THEN mirror.attempt = s ELSE mirror.sub = s
  /\ \A s \in Subs :
       /\ mirror.attempt # Null /\ s > mirror.attempt => prov[s].status = "none"
       /\ mirror.attempt # Null /\ s < mirror.attempt => prov[s].status # "none"
       /\ ~mirror.fenced /\ s > mirror.sub => prov[s].status = "none"

(* Events are of the subscriptions that were bought, and tell no end that  *)
(* was none.                                                               *)
EventsAreTrue ==
  /\ \A i \in DOMAIN sent :
       /\ sent[i].at <= Stamp
       /\ prov[sent[i].sub].status # "none"
       /\ sent[i].status \in Irreversible => Ended(sent[i].sub)
       /\ sent[i].kind = "deleted" => sent[i].status = "canceled" /\ ProviderConfirms(sent[i])
  /\ \A s \in Subs : prov[s].status # "none" => \E i \in DOMAIN sent : sent[i].sub = s

(* An end is the last that is told of a subscription, but for late payment,*)
(* and the next begins in a later second.                                  *)
EventsInOrder ==
  \A i, j \in DOMAIN sent :
    /\ i < j => sent[i].at <= sent[j].at
    /\ sent[i].kind = "deleted" /\ sent[i].sub = sent[j].sub /\ sent[j].kind # "paid" => j <= i
    /\ sent[i].kind # "paid" /\ sent[i].sub < sent[j].sub => sent[i].at < sent[j].at

(* What the row was last told is of its subscription, or of one before the *)
(* attempt it is fenced for.                                               *)
SeenIsTold ==
  \/ mirror.seen = Null /\ mirror.fenced
  \/ \E j \in DOMAIN sent :
       /\ sent[j].kind \notin {"paid", "failed"} /\ sent[j].at = mirror.seen
       /\ ~mirror.fenced => sent[j].sub = mirror.sub
       /\ mirror.attempt # Null => sent[j].sub < mirror.attempt

(* A subscription whose end was handled is not the one being waited for.   *)
EndedIsNotAwaited ==
  \A i \in receipts : sent[i].kind = "deleted" => mirror.attempt # sent[i].sub

MirrorIInv ==
  /\ TypeOK /\ DunningHasDeadline
  /\ PausesAreOne
  /\ RowShape
  /\ OneAfterAnother
  /\ EventsAreTrue
  /\ EventsInOrder
  /\ SeenIsTold
  /\ EndedIsNotAwaited /\ DeathIsFinal

(* Since the owner's press, the pause it opened is open, or the one it     *)
(* ended is closed, or the row has been told of what came near it.         *)
OwnerIsRemembered ==
  \A j \in DOMAIN sent : sent[j].by = "owner" =>
    \/ pause.open >= sent[j].at
    \/ mirror.seen >= sent[j].at - Skew
    \/ pause.open = Null /\ pause.closed >= sent[j].at

-----------------------------------------------------------------------------
(* What sending events does                                                *)

EventKinds == {"checkout", "snapshot", "deleted", "paid", "failed"}

(* The only ways Stripe sends anything about s: it is bought at the door,  *)
(* it has ended and only late payments follow, or it is between the two.   *)
Sends(by, s, status, isPaused, owed, kinds) ==
  /\ prov[s].status = "none" => mirror.attempt = s /\ InLaterSecond
  /\ Ended(s) =>
       /\ status = prov[s].status /\ isPaused = prov[s].paused
       /\ \A k \in DOMAIN kinds : kinds[k] = "paid"
  /\ \A k \in DOMAIN kinds : kinds[k] = "deleted" => status = "canceled" /\ Len(kinds) = 1
  /\ kinds # <<>>
  /\ EmitBy(by, s, status, isPaused, owed, kinds)

(* What is alive is reported as it is then: a payment or a failed one in a *)
(* second of their own, with the status they lead to; what shares a second *)
(* changes nothing or gives up.  Nothing becomes incomplete.               *)
ReportsAlive(s, status, kinds) ==
  /\ \E k \in DOMAIN kinds :
       kinds[k] = "snapshot" /\ \A m \in DOMAIN kinds : kinds[m] = "snapshot" => m = k
  /\ \/ /\ InLaterSecond
        /\ \A k \in DOMAIN kinds :
             /\ kinds[k] = "paid" => status = "active"
             /\ kinds[k] = "failed" => status \in {"past_due", "incomplete"}
     \/ /\ status = prov[s].status \/ (status = "unpaid" /\ prov[s].status = "past_due")
        /\ \A k \in DOMAIN kinds : kinds[k] = "snapshot"
  /\ status = "incomplete" => prov[s].status \in {"none", "incomplete"}

(* Only the decline of what is incomplete comes without a report.          *)
DeclinesAgain(s, status, isPaused, kinds) ==
  /\ status = "incomplete" /\ prov[s].status = "incomplete" /\ isPaused = prov[s].paused
  /\ \A k \in DOMAIN kinds : kinds[k] = "failed"

(* An end comes alone.                                                     *)
Reports(s, status, isPaused, kinds) ==
  /\ status \notin Irreversible =>
       ReportsAlive(s, status, kinds) \/ DeclinesAgain(s, status, isPaused, kinds)
  /\ status \in Irreversible /\ ~Ended(s) =>
       Len(kinds) = 1 /\ \A k \in DOMAIN kinds : kinds[k] \in {"deleted", "snapshot"}

LEMMA SendsAppends ==
  ASSUME TypeOK, NEW by \in {"stripe", "owner", "repeat"}, NEW s \in Subs,
         NEW status \in Statuses, NEW isPaused \in BOOLEAN, NEW owed \in BOOLEAN,
         NEW kinds \in Seq(EventKinds), EmitBy(by, s, status, isPaused, owed, kinds)
  PROVE  /\ prov' \in [Subs -> ProvSpace] /\ sent' \in Seq(EventSpace)
         /\ prov'[s] = [status |-> status, paused |-> isPaused, owed |-> owed]
         /\ \A r \in Subs : r # s => prov'[r] = prov[r]
         /\ Len(sent') = Len(sent) + Len(kinds)
         /\ \A i \in 1..Len(sent) : sent'[i] = sent[i]
         /\ \A i \in (Len(sent) + 1)..Len(sent') :
              /\ i - Len(sent) \in 1..Len(kinds)
              /\ sent'[i] = Event(kinds[i - Len(sent)], by, s, status, isPaused)
<1> DEFINE New == [k \in DOMAIN kinds |-> Event(kinds[k], by, s, status, isPaused)]
<1>1. Stamp \in Stamps
  BY MirrorAssumption DEF TypeOK, Instants, Stamps, Stamp
<1>2. \A k \in DOMAIN kinds : Event(kinds[k], by, s, status, isPaused) \in EventSpace
  BY <1>1, ElementOfSeq DEF Event, EventSpace, EventKinds
<1>3. New \in Seq(EventSpace) /\ Len(New) = Len(kinds)
  BY <1>2, IsASeq, LenProperties
<1>4. sent \in Seq(EventSpace)
  BY DEF TypeOK
<1>5. sent' = sent \o New
  BY DEF EmitBy
<1>6. /\ sent' \in Seq(EventSpace) /\ Len(sent') = Len(sent) + Len(kinds)
      /\ \A i \in 1..Len(sent') : sent'[i] = IF i <= Len(sent) THEN sent[i] ELSE New[i - Len(sent)]
  <2> HIDE DEF New
  <2>1. /\ sent \o New \in Seq(EventSpace)
        /\ Len(sent \o New) = Len(sent) + Len(New)
        /\ \A i \in 1..(Len(sent) + Len(New)) :
             (sent \o New)[i] = IF i <= Len(sent) THEN sent[i] ELSE New[i - Len(sent)]
    BY <1>3, <1>4, ConcatProperties, Zenon
  <2> QED BY <1>3, <1>5, <2>1, Zenon
<1>7. Len(sent) \in Nat /\ Len(kinds) \in Nat /\ DOMAIN kinds = 1..Len(kinds)
  BY <1>4, LenProperties
<1>8. \A i \in 1..Len(sent) : sent'[i] = sent[i]
  <2> HIDE DEF New
  <2> QED BY <1>3, <1>6, <1>7
<1>10. \A i \in (Len(sent) + 1)..Len(sent') :
           /\ i - Len(sent) \in 1..Len(kinds)
           /\ sent'[i] = Event(kinds[i - Len(sent)], by, s, status, isPaused)
  <2>1. \A k \in 1..Len(kinds) : New[k] = Event(kinds[k], by, s, status, isPaused)
    BY <1>7
  <2> HIDE DEF New
  <2> TAKE i \in (Len(sent) + 1)..Len(sent')
  <2> QED BY <1>6, <1>7, <2>1
<1>9. /\ prov' \in [Subs -> ProvSpace]
      /\ prov'[s] = [status |-> status, paused |-> isPaused, owed |-> owed]
      /\ \A r \in Subs : r # s => prov'[r] = prov[r]
  BY DEF EmitBy, TypeOK, ProvSpace
<1> QED BY <1>6, <1>8, <1>9, <1>10

(* Whatever Stripe does by itself is a sending.                            *)
LEMMA ProviderSends ==
  ASSUME TypeOK, Provider
  PROVE  \E s \in Subs, status \in Statuses, isPaused \in BOOLEAN, owed \in BOOLEAN,
            kinds \in Seq(EventKinds) :
              Sends("stripe", s, status, isPaused, owed, kinds) /\ Reports(s, status, isPaused, kinds)
<1>1. PICK s \in Subs : Buy(s) \/ Collect(s) \/ Dun(s) \/ Adjust(s)
  BY DEF Provider
<1>2. prov[s] \in ProvSpace
  BY DEF TypeOK
<1> DEFINE Sale == <<"checkout", "snapshot", "paid">>
           Payment == <<"paid", "snapshot">>
           Failure == <<"failed", "snapshot">>
           Report == <<"snapshot">>
           Late == <<"paid">>
           End == <<"deleted">>
           Again == <<"failed">>
<1>3. \A t \in {Sale, Payment, Failure, Report, Late, Again} :
        t \in Seq(EventKinds) /\ t # <<>> /\ \A k \in DOMAIN t : t[k] # "deleted"
  <2>1. Sale \in Seq(EventKinds) /\ Sale # <<>> /\ \A k \in DOMAIN Sale : Sale[k] # "deleted"
    BY DEF EventKinds
  <2>2. Payment \in Seq(EventKinds) /\ Payment # <<>> /\ \A k \in DOMAIN Payment : Payment[k] # "deleted"
    BY DEF EventKinds
  <2>3. Failure \in Seq(EventKinds) /\ Failure # <<>> /\ \A k \in DOMAIN Failure : Failure[k] # "deleted"
    BY DEF EventKinds
  <2>4. Report \in Seq(EventKinds) /\ Report # <<>> /\ \A k \in DOMAIN Report : Report[k] # "deleted"
    BY DEF EventKinds
  <2>5. Late \in Seq(EventKinds) /\ Late # <<>> /\ \A k \in DOMAIN Late : Late[k] # "deleted"
    BY DEF EventKinds
  <2>6. Again \in Seq(EventKinds) /\ Again # <<>> /\ \A k \in DOMAIN Again : Again[k] # "deleted"
    BY DEF EventKinds
  <2> HIDE DEF Sale, Payment, Failure, Report, Late, Again
  <2> QED BY <2>1, <2>2, <2>3, <2>4, <2>5, <2>6
<1>4. \A k \in DOMAIN Late : Late[k] = "paid"
  OBVIOUS
<1>5. End \in Seq(EventKinds) /\ End # <<>> /\ Len(End) = 1
  BY DEF EventKinds
<1> DEFINE Sent(status, isPaused, owed, kinds) ==
             /\ status \in Statuses /\ isPaused \in BOOLEAN /\ owed \in BOOLEAN
             /\ kinds \in Seq(EventKinds) /\ Sends("stripe", s, status, isPaused, owed, kinds)
<1>11. \A t \in {Sale, Payment, Failure, Report} :
        \E k \in DOMAIN t :
          t[k] = "snapshot" /\ \A m \in DOMAIN t : t[m] = "snapshot" => m = k
  <2>1. 2 \in DOMAIN Sale /\ Sale[2] = "snapshot" /\ \A m \in DOMAIN Sale : Sale[m] = "snapshot" => m = 2
    OBVIOUS
  <2>2. 2 \in DOMAIN Payment /\ Payment[2] = "snapshot"
        /\ \A m \in DOMAIN Payment : Payment[m] = "snapshot" => m = 2
    OBVIOUS
  <2>3. 2 \in DOMAIN Failure /\ Failure[2] = "snapshot"
        /\ \A m \in DOMAIN Failure : Failure[m] = "snapshot" => m = 2
    OBVIOUS
  <2>4. 1 \in DOMAIN Report /\ Report[1] = "snapshot"
        /\ \A m \in DOMAIN Report : Report[m] = "snapshot" => m = 1
    OBVIOUS
  <2> HIDE DEF Sale, Payment, Failure, Report
  <2> QED BY <2>1, <2>2, <2>3, <2>4
<1>12. /\ \A k \in DOMAIN Sale : Sale[k] # "failed"
       /\ \A k \in DOMAIN Payment : Payment[k] # "failed"
       /\ \A k \in DOMAIN Failure : Failure[k] # "paid"
       /\ \A k \in DOMAIN Report : Report[k] = "snapshot"
       /\ \A k \in DOMAIN End : End[k] = "deleted"
       /\ \A k \in DOMAIN Again : Again[k] = "failed"
       /\ Len(Report) = 1
  <2>1. \A k \in DOMAIN Sale : Sale[k] # "failed"
    OBVIOUS
  <2>2. \A k \in DOMAIN Payment : Payment[k] # "failed"
    OBVIOUS
  <2>3. \A k \in DOMAIN Failure : Failure[k] # "paid"
    OBVIOUS
  <2>4. \A k \in DOMAIN Report : Report[k] = "snapshot"
    OBVIOUS
  <2>5. \A k \in DOMAIN End : End[k] = "deleted"
    OBVIOUS
  <2>6. Len(Report) = 1
    OBVIOUS
  <2>7. \A k \in DOMAIN Again : Again[k] = "failed"
    OBVIOUS
  <2> QED BY <2>1, <2>2, <2>3, <2>4, <2>5, <2>6, <2>7, Zenon
<1>6. CASE Buy(s)
  <2>1. CASE Emit(s, "active", FALSE, FALSE, Sale)
    <3>1. Sent("active", FALSE, FALSE, Sale)
      <4> HIDE DEF Sale, Payment, Failure, Report, Late, End, Again
      <4> QED BY <1>3, <1>6, <2>1 DEF Buy, Sends, Emit, Ended, Irreversible, Statuses
    <3>2. Reports(s, "active", FALSE, Sale)
      <4> HIDE DEF Sale, Payment, Failure, Report, Late, End, Again
      <4> QED BY <1>5, <1>11, <1>12, <1>6, <2>1 DEF Buy, Reports, ReportsAlive, Ended, Irreversible
    <3> QED BY <3>1, <3>2
  <2>2. CASE Emit(s, "incomplete", FALSE, TRUE, Report)
    <3>1. Sent("incomplete", FALSE, TRUE, Report)
      <4> HIDE DEF Sale, Payment, Failure, Report, Late, End, Again
      <4> QED BY <1>3, <1>6, <2>2 DEF Buy, Sends, Emit, Ended, Irreversible, Statuses
    <3>2. Reports(s, "incomplete", FALSE, Report)
      <4> HIDE DEF Sale, Payment, Failure, Report, Late, End, Again
      <4> QED BY <1>5, <1>11, <1>12, <1>6, <2>2 DEF Buy, Reports, ReportsAlive, Ended, Irreversible
    <3> QED BY <3>1, <3>2
  <2>3. CASE Emit(s, "incomplete", FALSE, TRUE, Failure)
    <3>1. Sent("incomplete", FALSE, TRUE, Failure)
      <4> HIDE DEF Sale, Payment, Failure, Report, Late, End, Again
      <4> QED BY <1>3, <1>6, <2>3 DEF Buy, Sends, Emit, Ended, Irreversible, Statuses
    <3>2. Reports(s, "incomplete", FALSE, Failure)
      <4> HIDE DEF Sale, Payment, Failure, Report, Late, End, Again
      <4> QED BY <1>5, <1>11, <1>12, <1>6, <2>3 DEF Buy, Reports, ReportsAlive, Ended, Irreversible
    <3> QED BY <3>1, <3>2
  <2> QED BY <1>6, <2>1, <2>2, <2>3 DEF Buy
<1>7. CASE Collect(s)
  <2>1. CASE /\ InLaterSecond /\ prov[s].status = "active"
             /\ Emit(s, "active", FALSE, prov[s].owed, Payment)
    <3>1. Sent("active", FALSE, prov[s].owed, Payment)
      <4> HIDE DEF Sale, Payment, Failure, Report, Late, End, Again
      <4> QED BY <1>2, <1>3, <2>1 DEF Sends, Emit, Ended, Irreversible, Statuses, ProvSpace
    <3>2. Reports(s, "active", FALSE, Payment)
      <4> HIDE DEF Sale, Payment, Failure, Report, Late, End, Again
      <4> QED BY <1>5, <1>11, <1>12, <2>1 DEF Reports, ReportsAlive, Ended, Irreversible
    <3> QED BY <3>1, <3>2
  <2>2. CASE /\ InLaterSecond /\ prov[s].status \in {"past_due", "unpaid", "incomplete"}
             /\ Emit(s, "active", prov[s].paused, FALSE, Payment)
    <3>1. Sent("active", prov[s].paused, FALSE, Payment)
      <4> HIDE DEF Sale, Payment, Failure, Report, Late, End, Again
      <4> QED BY <1>2, <1>3, <2>2 DEF Sends, Emit, Ended, Irreversible, Statuses, ProvSpace
    <3>2. Reports(s, "active", prov[s].paused, Payment)
      <4> HIDE DEF Sale, Payment, Failure, Report, Late, End, Again
      <4> QED BY <1>5, <1>11, <1>12, <2>2 DEF Reports, ReportsAlive, Ended, Irreversible
    <3> QED BY <3>1, <3>2
  <2>3. CASE /\ InLaterSecond /\ prov[s].status = "past_due"
             /\ Emit(s, "active", prov[s].paused, FALSE, Report)
    <3>1. Sent("active", prov[s].paused, FALSE, Report)
      <4> HIDE DEF Sale, Payment, Failure, Report, Late, End, Again
      <4> QED BY <1>2, <1>3, <2>3 DEF Sends, Emit, Ended, Irreversible, Statuses, ProvSpace
    <3>2. Reports(s, "active", prov[s].paused, Report)
      <4> HIDE DEF Sale, Payment, Failure, Report, Late, End, Again
      <4> QED BY <1>5, <1>11, <1>12, <2>3 DEF Reports, ReportsAlive, Ended, Irreversible
    <3> QED BY <3>1, <3>2
  <2>4. CASE /\ prov[s].status = "canceled"
             /\ Emit(s, "canceled", prov[s].paused, FALSE, Late)
    <3>1. Sent("canceled", prov[s].paused, FALSE, Late)
      <4> HIDE DEF Sale, Payment, Failure, Report, Late, End, Again
      <4> QED BY <1>2, <1>3, <1>4, <2>4
              DEF Sends, Emit, Ended, Irreversible, Terminal, Statuses, ProvSpace
    <3>2. Reports(s, "canceled", prov[s].paused, Late)
      <4> HIDE DEF Sale, Payment, Failure, Report, Late, End, Again
      <4> QED BY <1>5, <1>11, <1>12, <2>4 DEF Reports, ReportsAlive, Ended, Irreversible
    <3> QED BY <3>1, <3>2
  <2> QED BY <1>7, <2>1, <2>2, <2>3, <2>4 DEF Collect
<1>8. CASE Dun(s)
  <2>1. CASE /\ InLaterSecond /\ prov[s].status \in {"active", "past_due"}
             /\ Emit(s, "past_due", FALSE, TRUE, Failure)
    <3>1. Sent("past_due", FALSE, TRUE, Failure)
      <4> HIDE DEF Sale, Payment, Failure, Report, Late, End, Again
      <4> QED BY <1>2, <1>3, <2>1 DEF Sends, Emit, Ended, Irreversible, Statuses, ProvSpace
    <3>2. Reports(s, "past_due", FALSE, Failure)
      <4> HIDE DEF Sale, Payment, Failure, Report, Late, End, Again
      <4> QED BY <1>5, <1>11, <1>12, <2>1 DEF Reports, ReportsAlive, Ended, Irreversible
    <3> QED BY <3>1, <3>2
  <2>2. CASE /\ prov[s].status = "past_due"
             /\ Emit(s, "unpaid", prov[s].paused, prov[s].owed, Report)
    <3>1. Sent("unpaid", prov[s].paused, prov[s].owed, Report)
      <4> HIDE DEF Sale, Payment, Failure, Report, Late, End, Again
      <4> QED BY <1>2, <1>3, <2>2
              DEF Sends, Emit, Ended, Irreversible, Terminal, Statuses, ProvSpace
    <3>2. Reports(s, "unpaid", prov[s].paused, Report)
      <4> HIDE DEF Sale, Payment, Failure, Report, Late, End, Again
      <4> QED BY <1>5, <1>11, <1>12, <2>2 DEF Reports, ReportsAlive, Ended, Irreversible
    <3> QED BY <3>1, <3>2
  <2>3. CASE /\ prov[s].status \notin {"none"} \cup Irreversible
             /\ Emit(s, "canceled", prov[s].paused, prov[s].owed, End)
    <3>1. Sent("canceled", prov[s].paused, prov[s].owed, End)
      <4> HIDE DEF Sale, Payment, Failure, Report, Late, End, Again
      <4> QED BY <1>2, <1>5, <2>3
              DEF Sends, Emit, Ended, Irreversible, Terminal, Statuses, ProvSpace
    <3>2. Reports(s, "canceled", prov[s].paused, End)
      <4> HIDE DEF Sale, Payment, Failure, Report, Late, End, Again
      <4> QED BY <1>5, <1>11, <1>12, <2>3 DEF Reports, ReportsAlive, Ended, Irreversible
    <3> QED BY <3>1, <3>2
  <2>4. CASE /\ prov[s].status = "incomplete"
             /\ Emit(s, "incomplete_expired", prov[s].paused, FALSE, Report)
    <3>1. Sent("incomplete_expired", prov[s].paused, FALSE, Report)
      <4> HIDE DEF Sale, Payment, Failure, Report, Late, End, Again
      <4> QED BY <1>2, <1>3, <2>4
              DEF Sends, Emit, Ended, Irreversible, Terminal, Statuses, ProvSpace
    <3>2. Reports(s, "incomplete_expired", prov[s].paused, Report)
      <4> HIDE DEF Sale, Payment, Failure, Report, Late, End, Again
      <4> QED BY <1>5, <1>11, <1>12, <2>4 DEF Reports, ReportsAlive, Ended, Irreversible
    <3> QED BY <3>1, <3>2
  <2>5. CASE /\ prov[s].status = "incomplete"
             /\ Emit(s, "incomplete", prov[s].paused, TRUE, Again)
    <3>1. Sent("incomplete", prov[s].paused, TRUE, Again)
      <4> HIDE DEF Sale, Payment, Failure, Report, Late, End, Again
      <4> QED BY <1>2, <1>3, <2>5 DEF Sends, Emit, Ended, Irreversible, Statuses, ProvSpace
    <3>2. Reports(s, "incomplete", prov[s].paused, Again)
      <4> HIDE DEF Sale, Payment, Failure, Report, Late, End, Again
      <4> QED BY <1>12, <2>5 DEF Reports, DeclinesAgain, Irreversible
    <3> QED BY <3>1, <3>2
  <2> QED BY <1>8, <2>1, <2>2, <2>3, <2>4, <2>5 DEF Dun
<1>9. CASE Adjust(s)
  <2>1. PICK isPaused \in BOOLEAN :
          /\ prov[s].status \in {"active", "past_due", "unpaid"}
          /\ Emit(s, prov[s].status, isPaused, prov[s].owed, Report)
    BY <1>2, <1>9 DEF Adjust, ProvSpace
  <2>2. Sent(prov[s].status, isPaused, prov[s].owed, Report)
    <3> HIDE DEF Sale, Payment, Failure, Report, Late, End, Again
    <3> QED BY <1>2, <1>3, <2>1
            DEF Sends, Emit, Ended, Irreversible, Terminal, Statuses, ProvSpace
  <2>3. Reports(s, prov[s].status, isPaused, Report)
    <3> HIDE DEF Sale, Payment, Failure, Report, Late, End, Again
    <3> QED BY <1>11, <1>12, <2>1 DEF Reports, ReportsAlive, Irreversible
  <2> QED BY <2>2, <2>3
<1> QED BY <1>1, <1>6, <1>7, <1>8, <1>9

-----------------------------------------------------------------------------
(* The pause                                                               *)

LEMMA PauseTyped ==
  ASSUME TypeOK, NEW known \in Stamps \cup {Null}
  PROVE  PauseStarted(known) \in PauseSpace /\ PauseEnded(known) \in PauseSpace
BY MirrorAssumption
   DEF TypeOK, Instants, Stamps, PauseSpace, PauseStarted, PauseEnded, Null

(* Whoever writes, the two records of a pause are one afterwards.          *)
LEMMA PausesBecomeOne ==
  ASSUME TypeOK, PausesAreOne, NEW known \in Stamps \cup {Null}
  PROVE  /\ FlagStarted(PauseStarted(known)) <=> PauseStarted(known).open # Null
         /\ FlagEnded(PauseEnded(known)) <=> PauseEnded(known).open # Null
<1>1. /\ pause = [open |-> pause.open, closed |-> pause.closed]
      /\ mirror.paused \in BOOLEAN /\ clock \in Nat /\ Skew \in Nat
      /\ known \in Nat \cup {Null} /\ Null = -1
  BY MirrorAssumption DEF TypeOK, Instants, Stamps, PauseSpace, RowSpace, Null
<1>2. FlagEnded(PauseEnded(known)) <=> PauseEnded(known).open # Null
  BY <1>1 DEF PausesAreOne, FlagEnded, PauseEnded
<1>3. CASE pause.open # Null
  BY <1>1, <1>2, <1>3 DEF PausesAreOne, FlagStarted, PauseStarted
<1>4. CASE pause.open = Null /\ PauseStarted(known) = pause
  <2>1. ~mirror.paused
    <3>1. known # Null /\ pause.closed - known > Skew
      BY <1>1, <1>4 DEF PauseStarted
    <3>2. pause.closed # Null
      BY <1>1, <3>1
    <3> QED BY <1>4, <3>2 DEF PausesAreOne
  <2> QED BY <1>2, <1>4, <2>1 DEF FlagStarted
<1>5. CASE pause.open = Null /\ PauseStarted(known) # pause
  <2>1. PauseStarted(known) = [pause EXCEPT !.open = IF known = Null THEN clock ELSE known]
    BY <1>5 DEF PauseStarted
  <2> QED BY <1>1, <1>2, <1>5, <2>1 DEF FlagStarted
<1> QED BY <1>3, <1>4, <1>5

-----------------------------------------------------------------------------
(* What the order of events says of the row                                *)

LEMMA EventTyped ==
  ASSUME TypeOK, NEW i \in DOMAIN sent
  PROVE  /\ sent[i] \in EventSpace /\ sent[i].sub \in Subs /\ sent[i].at \in Stamps
         /\ sent[i].status \in Statuses /\ sent[i].paused \in BOOLEAN
         /\ i \in 1..Len(sent) /\ i \in Nat
<1>1. sent \in Seq(EventSpace)
  BY DEF TypeOK
<1>2. sent[i] \in EventSpace /\ i \in 1..Len(sent) /\ Len(sent) \in Nat
  BY <1>1, LenProperties, ElementOfSeq
<1> QED BY <1>2 DEF EventSpace

(* Without a fence, an event of another subscription is stale.             *)
LEMMA AnotherIsStale ==
  ASSUME MirrorIInv, ~mirror.fenced, NEW i \in DOMAIN sent,
         sent[i].kind # "paid", sent[i].sub # mirror.sub
  PROVE  Stale(sent[i])
<1>1. PICK j \in DOMAIN sent :
        sent[j].kind # "paid" /\ sent[j].at = mirror.seen /\ sent[j].sub = mirror.sub
  BY DEF MirrorIInv, SeenIsTold
<1>2. sent[i].sub < mirror.sub
  <2>1. sent[i].sub \in Subs /\ mirror.sub \in Subs
    BY EventTyped DEF MirrorIInv, RowShape
  <2>2. ~(sent[i].sub > mirror.sub)
    BY <2>1 DEF MirrorIInv, OneAfterAnother, EventsAreTrue
  <2> QED BY <2>1, <2>2 DEF Subs
<1>3. sent[i].at < sent[j].at
  BY <1>1, <1>2 DEF MirrorIInv, EventsInOrder
<1>4. sent[i].at \in Int /\ sent[j].at \in Int
  BY EventTyped DEF MirrorIInv, Stamps
<1> QED BY <1>1, <1>3, <1>4 DEF Stale

(* What a fence waits for is news to the row.                              *)
LEMMA AwaitedIsNews ==
  ASSUME MirrorIInv, NEW i \in DOMAIN sent, mirror.attempt = sent[i].sub
  PROVE  mirror.seen < sent[i].at
<1>1. sent[i].sub \in Subs /\ sent[i].at \in Nat /\ sent[i].sub # Null
  BY EventTyped, MirrorAssumption DEF MirrorIInv, Stamps, Subs, Null
<1>2. CASE mirror.seen = Null
  BY <1>1, <1>2 DEF Null
<1>3. CASE mirror.seen # Null
  <2>1. PICK j \in DOMAIN sent :
          sent[j].kind # "paid" /\ sent[j].at = mirror.seen /\ sent[j].sub < mirror.attempt
    BY <1>1, <1>3 DEF MirrorIInv, SeenIsTold
  <2> QED BY <2>1 DEF MirrorIInv, EventsInOrder
<1> QED BY <1>2, <1>3

(* So is the end of the subscription it shows.                             *)
LEMMA EndIsNews ==
  ASSUME MirrorIInv, ~mirror.fenced, NEW i \in DOMAIN sent,
         sent[i].kind = "deleted", mirror.sub = sent[i].sub
  PROVE  ~Stale(sent[i])
<1>1. PICK j \in DOMAIN sent :
        sent[j].kind # "paid" /\ sent[j].at = mirror.seen /\ sent[j].sub = mirror.sub
  BY DEF MirrorIInv, SeenIsTold
<1>2. i \in Nat /\ j \in Nat /\ sent[i].at \in Int /\ sent[j].at \in Int
  BY EventTyped DEF MirrorIInv, Stamps
<1>3. j <= i
  BY <1>1 DEF MirrorIInv, EventsInOrder
<1>4. sent[j].at <= sent[i].at
  BY <1>2, <1>3 DEF MirrorIInv, EventsInOrder
<1> QED BY <1>1, <1>2, <1>4 DEF Stale

-----------------------------------------------------------------------------
(* The steps                                                               *)

LEMMA TickKeeps ==
  ASSUME MirrorIInv, Tick
  PROVE  MirrorIInv'
<1>1. TypeOK'
  BY MirrorAssumption DEF MirrorIInv, TypeOK, Tick, Instants
<1>2. EventsAreTrue'
  BY SMTT(30), EventTyped, MirrorAssumption
     DEF MirrorIInv, TypeOK, Instants, Stamps, Tick, EventsAreTrue, Stamp, ProviderConfirms, Ended
<1> QED
  BY <1>1, <1>2
     DEF MirrorIInv, Tick, DunningHasDeadline, PausesAreOne, RowShape, OneAfterAnother, Ended,
         Alive, EventsInOrder, SeenIsTold, EndedIsNotAwaited, DeathIsFinal, HasLive

(* Stripe's books, whoever made it send: nothing that ended comes back.    *)
LEMMA SendsKeepsOrder ==
  ASSUME MirrorIInv, NEW by \in {"stripe", "owner", "repeat"}, NEW s \in Subs,
         NEW status \in Statuses, NEW isPaused \in BOOLEAN, NEW owed \in BOOLEAN,
         NEW kinds \in Seq(EventKinds), Sends(by, s, status, isPaused, owed, kinds),
         UNCHANGED clock
  PROVE  /\ EventsAreTrue' /\ EventsInOrder'
         /\ \A r \in Subs : r # s => prov'[r] = prov[r]
         /\ prov'[s].status = status
         /\ \A r \in Subs : Ended(r) => prov'[r].status = prov[r].status
         /\ \A i \in DOMAIN sent : i \in DOMAIN sent' /\ sent'[i] = sent[i]
<1>1. /\ prov' \in [Subs -> ProvSpace] /\ sent' \in Seq(EventSpace)
      /\ prov'[s] = [status |-> status, paused |-> isPaused, owed |-> owed]
      /\ \A r \in Subs : r # s => prov'[r] = prov[r]
      /\ Len(sent') = Len(sent) + Len(kinds)
      /\ \A i \in 1..Len(sent) : sent'[i] = sent[i]
      /\ \A i \in (Len(sent) + 1)..Len(sent') :
           /\ i - Len(sent) \in 1..Len(kinds)
           /\ sent'[i] = Event(kinds[i - Len(sent)], by, s, status, isPaused)
  BY SMTT(30), SendsAppends DEF MirrorIInv, Sends
<1>2. /\ DOMAIN sent = 1..Len(sent) /\ DOMAIN sent' = 1..Len(sent')
      /\ Len(sent) \in Nat /\ Len(kinds) \in Nat /\ Len(sent') \in Nat
      /\ DOMAIN kinds = 1..Len(kinds)
  BY <1>1, LenProperties DEF MirrorIInv, TypeOK
<1>3. \A i \in DOMAIN sent : i \in DOMAIN sent' /\ sent'[i] = sent[i]
  BY <1>1, <1>2
<1>4. \A i \in DOMAIN sent' \ DOMAIN sent :
        /\ i > Len(sent) /\ i - Len(sent) \in DOMAIN kinds
        /\ sent'[i] = Event(kinds[i - Len(sent)], by, s, status, isPaused)
  BY <1>1, <1>2
<1>5. Stamp \in Nat /\ Stamp' = Stamp
  BY MirrorAssumption DEF MirrorIInv, TypeOK, Instants, Stamp
<1>6. \A r \in Subs : Ended(r) => prov'[r].status = prov[r].status /\ prov'[r].paused = prov[r].paused
  BY <1>1 DEF Sends
<1>7. EventsAreTrue'
  <2>1. ASSUME NEW i \in DOMAIN sent'
        PROVE  /\ sent'[i].at <= Stamp
               /\ prov'[sent'[i].sub].status # "none"
               /\ sent'[i].status \in Irreversible => prov'[sent'[i].sub].status \in Irreversible
               /\ sent'[i].kind = "deleted" =>
                    /\ sent'[i].status = "canceled"
                    /\ prov'[sent'[i].sub].status = sent'[i].status
                    /\ prov'[sent'[i].sub].paused = sent'[i].paused
    <3>1. CASE i \in DOMAIN sent
      <4>1. sent[i].sub \in Subs
        BY <3>1, EventTyped DEF MirrorIInv
      <4>2. sent'[i] = sent[i]
        BY <1>3, <3>1
      <4>3. prov'[sent[i].sub].status # "none"
        <5>1. CASE sent[i].sub = s
          BY <5>1, <1>1 DEF Statuses, Terminal, Irreversible
        <5>2. CASE sent[i].sub # s
          BY <5>2, <1>1, <3>1, <4>1 DEF MirrorIInv, EventsAreTrue
        <5> QED BY <5>1, <5>2
      <4>4. sent[i].status \in Irreversible => Ended(sent[i].sub)
        BY <3>1 DEF MirrorIInv, EventsAreTrue
      <4>5. sent[i].kind = "deleted" =>
              sent[i].status = "canceled" /\ Ended(sent[i].sub) /\ ProviderConfirms(sent[i])
        BY <3>1, <4>4 DEF MirrorIInv, EventsAreTrue, Irreversible
      <4>6. sent[i].at <= Stamp
        BY <3>1 DEF MirrorIInv, EventsAreTrue
      <4>7. Ended(sent[i].sub) =>
              /\ prov'[sent[i].sub].status = prov[sent[i].sub].status
              /\ prov'[sent[i].sub].paused = prov[sent[i].sub].paused
        BY <1>6, <4>1
      <4>8. sent[i].status \in Irreversible => prov'[sent[i].sub].status \in Irreversible
        BY <4>4, <4>7 DEF Ended
      <4>9. sent[i].kind = "deleted" =>
              /\ prov'[sent[i].sub].status = sent[i].status
              /\ prov'[sent[i].sub].paused = sent[i].paused
        BY <4>5, <4>7 DEF ProviderConfirms
      <4> QED BY <4>2, <4>3, <4>5, <4>6, <4>8, <4>9
    <3>2. CASE i \notin DOMAIN sent
      <4>1. /\ sent'[i].at = Stamp /\ sent'[i].sub = s /\ sent'[i].status = status
            /\ sent'[i].paused = isPaused /\ sent'[i].kind = kinds[i - Len(sent)]
        BY <1>4, <3>2 DEF Event
      <4>2. sent'[i].kind = "deleted" => status = "canceled"
        BY <1>4, <3>2, <4>1 DEF Sends
      <4>3. prov'[s].status = status /\ prov'[s].paused = isPaused /\ status # "none"
        BY <1>1 DEF Statuses, Terminal, Irreversible
      <4> QED BY <1>5, <4>1, <4>2, <4>3
    <3> QED BY <3>1, <3>2
  <2>2. ASSUME NEW r \in Subs, prov'[r].status # "none"
        PROVE  \E i \in DOMAIN sent' : sent'[i].sub = r
    <3>1. CASE r = s
      <4>1. Len(sent) + 1 \in DOMAIN sent' \ DOMAIN sent
        BY <1>1, <1>2 DEF Sends
      <4> QED BY <1>4, <3>1, <4>1 DEF Event
    <3>2. CASE r # s
      <4>1. PICK i \in DOMAIN sent : sent[i].sub = r
        BY <1>1, <2>2, <3>2 DEF MirrorIInv, EventsAreTrue
      <4> QED BY <1>3, <4>1
    <3> QED BY <3>1, <3>2
  <2> QED BY <1>5, <2>1, <2>2 DEF EventsAreTrue, ProviderConfirms, Ended
<1>8. EventsInOrder'
  <2> SUFFICES ASSUME NEW i \in DOMAIN sent', NEW j \in DOMAIN sent'
               PROVE  /\ i < j => sent'[i].at <= sent'[j].at
                      /\ sent'[i].kind = "deleted" /\ sent'[i].sub = sent'[j].sub
                           /\ sent'[j].kind # "paid" => j <= i
                      /\ sent'[i].kind # "paid" /\ sent'[i].sub < sent'[j].sub =>
                           sent'[i].at < sent'[j].at
    BY DEF EventsInOrder
  <2>1. CASE i \in DOMAIN sent /\ j \in DOMAIN sent
    BY <1>3, <2>1 DEF MirrorIInv, EventsInOrder
  <2>2. CASE i \in DOMAIN sent /\ j \notin DOMAIN sent
    <3>1. /\ sent'[i] = sent[i] /\ sent[i].sub \in Subs /\ sent[i].at <= Stamp
          /\ sent[i].at \in Int /\ i \in Nat /\ j \in Nat /\ i < j
          /\ prov[sent[i].sub].status # "none"
      BY <1>2, <1>3, <1>4, <2>2, EventTyped DEF MirrorIInv, EventsAreTrue, Stamps
    <3>2. sent'[j].at = Stamp /\ sent'[j].sub = s /\ sent'[j].kind = kinds[j - Len(sent)]
      BY <1>4, <2>2 DEF Event
    <3>3. ASSUME sent[i].kind = "deleted", sent[i].sub = s, sent'[j].kind # "paid"
          PROVE  FALSE
      <4>1. Ended(s)
        BY <2>2, <3>3 DEF MirrorIInv, EventsAreTrue, Irreversible
      <4> QED BY <1>4, <2>2, <3>2, <3>3, <4>1 DEF Sends
    <3>4. ASSUME sent[i].kind # "paid", sent[i].sub < s
          PROVE  sent[i].at < Stamp
      <4>1. CASE prov[s].status = "none"
        BY <2>2, <4>1 DEF Sends, InLaterSecond
      <4>2. CASE prov[s].status # "none"
        <5>1. PICK k \in DOMAIN sent : sent[k].sub = s
          BY <4>2 DEF MirrorIInv, EventsAreTrue
        <5>2. sent[i].at < sent[k].at
          BY <2>2, <3>4, <5>1 DEF MirrorIInv, EventsInOrder
        <5>3. sent[k].at <= Stamp /\ sent[k].at \in Int
          BY EventTyped, <5>1 DEF MirrorIInv, EventsAreTrue, Stamps
        <5> QED BY <1>5, <3>1, <5>2, <5>3
      <4> QED BY <4>1, <4>2
    <3> QED BY <1>5, <3>1, <3>2, <3>3, <3>4
  <2>3. CASE i \notin DOMAIN sent /\ j \in DOMAIN sent
    <3>1. /\ sent'[j] = sent[j] /\ sent[j].sub \in Subs /\ i \in Nat /\ j \in Nat /\ j < i
          /\ prov[sent[j].sub].status # "none"
      BY <1>2, <1>3, <1>4, <2>3, EventTyped DEF MirrorIInv, EventsAreTrue
    <3>2. sent'[i].sub = s /\ sent'[i].kind = kinds[i - Len(sent)]
      BY <1>4, <2>3 DEF Event
    <3>3. ASSUME sent'[i].kind # "paid", s < sent[j].sub
          PROVE  FALSE
      <4>1. Ended(s)
        BY <3>1, <3>3 DEF MirrorIInv, OneAfterAnother
      <4> QED BY <1>4, <2>3, <3>2, <3>3, <4>1 DEF Sends
    <3> QED BY <3>1, <3>2, <3>3
  <2>4. CASE i \notin DOMAIN sent /\ j \notin DOMAIN sent
    <3>1. /\ sent'[i].at = Stamp /\ sent'[i].sub = s /\ sent'[i].kind = kinds[i - Len(sent)]
          /\ sent'[j].at = Stamp /\ sent'[j].sub = s
      BY <1>4, <2>4 DEF Event
    <3>2. sent'[i].kind = "deleted" => j <= i
      <4>1. /\ i \in Nat /\ j \in Nat /\ i - Len(sent) \in 1..Len(kinds)
            /\ j - Len(sent) \in 1..Len(kinds)
        BY <1>2, <1>4, <2>4
      <4>2. SUFFICES ASSUME sent'[i].kind = "deleted" PROVE j <= i
        OBVIOUS
      <4>3. Len(kinds) = 1
        BY <1>4, <2>4, <3>1, <4>2 DEF Sends
      <4>4. i - Len(sent) = 1 /\ j - Len(sent) = 1
        BY <4>1, <4>3
      <4> QED BY <1>2, <4>1, <4>4
    <3> QED BY <1>5, <3>1, <3>2 DEF Subs
  <2> QED BY <2>1, <2>2, <2>3, <2>4
<1> QED BY <1>1, <1>3, <1>6, <1>7, <1>8

(* The row, when nothing of it but its pausedAt is written.                *)
LEMMA SendsKeepsRow ==
  ASSUME MirrorIInv, NEW by \in {"stripe", "owner", "repeat"}, NEW s \in Subs,
         NEW status \in Statuses, NEW isPaused \in BOOLEAN, NEW owed \in BOOLEAN,
         NEW kinds \in Seq(EventKinds), Sends(by, s, status, isPaused, owed, kinds),
         UNCHANGED <<clock, receipts, minted>>, pause' \in PauseSpace,
         NEW flag \in BOOLEAN, mirror' = [mirror EXCEPT !.paused = flag], PausesAreOne'
  PROVE  MirrorIInv'
<1>1. /\ EventsAreTrue' /\ EventsInOrder'
      /\ \A r \in Subs : r # s => prov'[r] = prov[r]
      /\ prov'[s].status = status
      /\ \A r \in Subs : Ended(r) => prov'[r].status = prov[r].status
      /\ \A i \in DOMAIN sent : i \in DOMAIN sent' /\ sent'[i] = sent[i]
  BY SendsKeepsOrder
<1>2. /\ mirror' \in RowSpace /\ mirror'.sub = mirror.sub /\ mirror'.status = mirror.status
      /\ mirror'.seen = mirror.seen /\ mirror'.grace = mirror.grace
      /\ mirror'.fenced = mirror.fenced /\ mirror'.fenceSub = mirror.fenceSub
      /\ mirror'.attempt = mirror.attempt
  BY DEF MirrorIInv, TypeOK, RowSpace
<1>3. TypeOK'
  <2>1. prov' \in [Subs -> ProvSpace] /\ sent' \in Seq(EventSpace)
    BY ZenonT(30), SendsAppends DEF MirrorIInv, Sends
  <2> QED BY <1>1, <1>2, <2>1 DEF MirrorIInv, TypeOK
<1>4. DunningHasDeadline'
  BY <1>2 DEF MirrorIInv, DunningHasDeadline
<1>5. RowShape'
  BY <1>1, <1>2 DEF MirrorIInv, TypeOK, RowSpace, RowShape, Ended
<1>6. status # "none"
  BY DEF Statuses, Terminal, Irreversible
<1>7. OneAfterAnother'
  <2>1. ASSUME NEW r \in Subs, NEW t \in Subs, r < t, prov'[t].status # "none"
        PROVE  prov'[r].status \in Irreversible
    <3>1. CASE prov[t].status # "none"
      BY <1>1, <2>1, <3>1 DEF MirrorIInv, OneAfterAnother, Ended
    <3>2. CASE prov[t].status = "none"
      <4>1. t = s /\ mirror.attempt = t
        BY <1>1, <2>1, <3>2 DEF Sends
      <4>2. prov[r].status # "none"
        BY <2>1, <4>1, MirrorAssumption DEF MirrorIInv, OneAfterAnother, Subs, Null
      <4>3. ~Alive(r)
        <5>1. mirror.fenced
          BY <4>1, MirrorAssumption DEF MirrorIInv, RowShape, Subs, Null
        <5> QED BY <2>1, <4>1, <5>1 DEF MirrorIInv, OneAfterAnother, Subs
      <4> QED BY <1>1, <4>2, <4>3 DEF Alive, Ended
    <3> QED BY <3>1, <3>2
  <2>2. ASSUME NEW t \in Subs, prov'[t].status \notin {"none"} \cup Irreversible
        PROVE  IF mirror.fenced THEN mirror.attempt = t ELSE mirror.sub = t
    <3>1. CASE prov[t].status = "none"
      <4>1. t = s /\ mirror.attempt = t
        BY <1>1, <2>2, <3>1 DEF Sends
      <4> QED BY <4>1, MirrorAssumption DEF MirrorIInv, RowShape, Subs, Null
    <3>2. CASE prov[t].status # "none"
      <4>1. Alive(t)
        BY <1>1, <2>2, <3>2 DEF Alive, Ended
      <4> QED BY <4>1 DEF MirrorIInv, OneAfterAnother
    <3> QED BY <3>1, <3>2
  <2>3. ASSUME NEW t \in Subs
        PROVE  /\ mirror.attempt # Null /\ t > mirror.attempt => prov'[t].status = "none"
               /\ mirror.attempt # Null /\ t < mirror.attempt => prov'[t].status # "none"
               /\ ~mirror.fenced /\ t > mirror.sub => prov'[t].status = "none"
    <3>1. CASE t # s
      BY <1>1, <3>1 DEF MirrorIInv, OneAfterAnother
    <3>2. CASE t = s
      <4>1. prov[s].status = "none" => mirror.attempt = s /\ mirror.fenced
        BY MirrorAssumption DEF Sends, MirrorIInv, RowShape, Subs, Null
      <4> QED BY <1>1, <1>6, <3>2, <4>1 DEF MirrorIInv, OneAfterAnother, Subs
    <3> QED BY <3>1, <3>2
  <2> QED BY <1>2, <2>1, <2>2, <2>3 DEF OneAfterAnother, Ended, Alive
<1>8. SeenIsTold'
  <2>1. CASE mirror.seen = Null /\ mirror.fenced
    BY <1>2, <2>1 DEF SeenIsTold
  <2>2. CASE ~(mirror.seen = Null /\ mirror.fenced)
    <3>1. PICK j \in DOMAIN sent :
            /\ sent[j].kind \notin {"paid", "failed"} /\ sent[j].at = mirror.seen
            /\ ~mirror.fenced => sent[j].sub = mirror.sub
            /\ mirror.attempt # Null => sent[j].sub < mirror.attempt
      BY <2>2 DEF MirrorIInv, SeenIsTold
    <3>2. j \in DOMAIN sent' /\ sent'[j] = sent[j]
      BY <1>1
    <3> QED BY <1>2, <3>1, <3>2 DEF SeenIsTold
  <2> QED BY <2>1, <2>2
<1>9. EndedIsNotAwaited' /\ DeathIsFinal'
  <2>1. \A i \in receipts : i \in DOMAIN sent /\ sent'[i] = sent[i]
    BY <1>1 DEF MirrorIInv, TypeOK
  <2> QED BY <1>2, <2>1 DEF MirrorIInv, EndedIsNotAwaited, DeathIsFinal, HasLive
<1> QED BY <1>1, <1>3, <1>4, <1>5, <1>7, <1>8, <1>9 DEF MirrorIInv

LEMMA ProviderKeeps ==
  ASSUME MirrorIInv, Provider
  PROVE  MirrorIInv'
<1>1. PICK s \in Subs, status \in Statuses, isPaused \in BOOLEAN, owed \in BOOLEAN,
           kinds \in Seq(EventKinds) : Sends("stripe", s, status, isPaused, owed, kinds)
  BY ProviderSends DEF MirrorIInv
<1>2. UNCHANGED <<clock, receipts, minted, mirror, pause>>
  BY DEF Provider
<1>3. mirror.paused \in BOOLEAN /\ mirror' = [mirror EXCEPT !.paused = mirror.paused]
      /\ pause' \in PauseSpace
  BY <1>2 DEF MirrorIInv, TypeOK, RowSpace
<1>4. PausesAreOne'
  BY <1>2 DEF MirrorIInv, PausesAreOne
<1>5. UNCHANGED <<clock, receipts, minted>>
  BY <1>2
<1> QED BY <1>1, <1>3, <1>4, <1>5, SendsKeepsRow

LEMMA OwnerKeeps ==
  ASSUME MirrorIInv, Owner
  PROVE  MirrorIInv'
<1>1. CASE \E s \in Subs : OwnerPause(s) \/ OwnerResume(s)
  <2>1. PICK s \in Subs : OwnerPause(s) \/ OwnerResume(s)
    BY <1>1
  <2>2. PICK by \in {"owner", "repeat"}, isPaused \in BOOLEAN :
          EmitBy(by, s, prov[s].status, isPaused, prov[s].owed, <<"snapshot">>)
    BY <2>1 DEF OwnerPause, OwnerResume
  <2>3. /\ <<"snapshot">> \in Seq(EventKinds) /\ <<"snapshot">> # <<>>
        /\ \A k \in DOMAIN <<"snapshot">> : <<"snapshot">>[k] # "deleted"
    BY DEF EventKinds
  <2>4. prov[s].status \in {"active", "past_due", "unpaid"} /\ prov[s].owed \in BOOLEAN
    BY <2>1 DEF OwnerPause, OwnerResume, MirrorIInv, TypeOK, ProvSpace
  <2>5. prov[s].status \in Statuses /\ prov[s].status # "none" /\ ~Ended(s)
    BY <2>4 DEF Statuses, Terminal, Irreversible, Ended
  <2>6. Sends(by, s, prov[s].status, isPaused, prov[s].owed, <<"snapshot">>)
    BY <2>2, <2>3, <2>5 DEF Sends
  <2>7. PauseStarted(Null) \in PauseSpace /\ PauseEnded(Null) \in PauseSpace
    BY PauseTyped DEF MirrorIInv
  <2>8. PICK flag \in BOOLEAN :
          /\ mirror' = [mirror EXCEPT !.paused = flag] /\ pause' \in PauseSpace
          /\ flag <=> pause'.open # Null
    <3>1. CASE OwnerPause(s)
      <4>1. FlagStarted(PauseStarted(Null)) \in BOOLEAN
        BY DEF FlagStarted, MirrorIInv, TypeOK, RowSpace
      <4>2. FlagStarted(PauseStarted(Null)) <=> PauseStarted(Null).open # Null
        BY PausesBecomeOne DEF MirrorIInv
      <4> QED BY <2>7, <3>1, <4>1, <4>2 DEF OwnerPause
    <3>2. CASE OwnerResume(s)
      <4>1. FlagEnded(PauseEnded(Null)) \in BOOLEAN
        BY DEF FlagEnded, MirrorIInv, TypeOK, RowSpace
      <4>2. FlagEnded(PauseEnded(Null)) <=> PauseEnded(Null).open # Null
        BY PausesBecomeOne DEF MirrorIInv
      <4> QED BY <2>7, <3>2, <4>1, <4>2 DEF OwnerResume
    <3> QED BY <2>1, <3>1, <3>2
  <2>9. PausesAreOne'
    BY <2>8 DEF PausesAreOne, MirrorIInv, TypeOK, RowSpace
  <2>10. UNCHANGED <<clock, receipts, minted>>
    BY <2>1 DEF OwnerPause, OwnerResume
  <2> QED BY <2>4, <2>5, <2>6, <2>3, <2>8, <2>9, <2>10, SendsKeepsRow
<1>2. CASE \E s \in Subs : Reserve(s)
  <2>1. PICK s \in Subs : Reserve(s)
    BY <1>2
  <2>2. /\ mirror \in RowSpace /\ mirror.attempt = Null /\ ~HasLive(mirror)
        /\ prov[s].status = "none" /\ UNCHANGED <<clock, prov, sent, receipts, pause, minted>>
        /\ \A r \in Subs : prov[r].status = "none" => s <= r
    BY <2>1 DEF Reserve, MayReserve, MirrorIInv, TypeOK
  <2>3. s \in Nat /\ s # Null /\ s # Placeholder
    BY MirrorAssumption DEF Subs, Null, Placeholder
  <2>4. mirror.fenced \/ (mirror.status \in Irreversible /\ Ended(mirror.sub) /\ mirror.sub \in Subs
                           /\ mirror.grace = Null)
    BY <2>2 DEF HasLive, MirrorIInv, RowShape
  <2>5. /\ mirror' \in RowSpace /\ mirror'.attempt = s /\ mirror'.fenced
        /\ mirror'.status = "incomplete" /\ mirror'.grace = Null /\ mirror'.seen = mirror.seen
        /\ mirror'.sub = Placeholder
        /\ mirror'.paused = mirror.paused
        /\ mirror'.fenceSub = IF mirror.fenced THEN mirror.fenceSub ELSE mirror.sub
    <3>1. CASE mirror.fenced
      <4>1. /\ mirror.status = "incomplete" /\ mirror.grace = Null
            /\ mirror.sub = Placeholder \/ mirror.sub = mirror.attempt
        BY <3>1 DEF MirrorIInv, RowShape
      <4>2. mirror.sub = Placeholder
        BY <2>2, <4>1, MirrorAssumption DEF RowSpace, Subs, Null, Placeholder
      <4> QED BY <2>1, <2>2, <3>1, <4>1, <4>2 DEF Reserve, RowSpace
    <3>2. CASE ~mirror.fenced
      BY <2>1, <2>2, <2>4, <3>2 DEF Reserve, RowSpace, Statuses
    <3> QED BY <3>1, <3>2
  <2>6. TypeOK'
    BY <2>2, <2>5 DEF MirrorIInv, TypeOK
  <2>7. DunningHasDeadline' /\ PausesAreOne'
    BY <2>2, <2>5 DEF MirrorIInv, DunningHasDeadline, PausesAreOne
  <2>8. \A r \in Subs : ~Alive(r)
    BY <2>2, <2>4, MirrorAssumption
       DEF MirrorIInv, OneAfterAnother, Alive, Ended, Subs, Null
  <2>9. RowShape'
    <3>1. mirror'.fenceSub # Null => Ended(mirror'.fenceSub)
      BY <2>4, <2>5 DEF MirrorIInv, RowShape
    <3>2. mirror'.fenceSub # Null => mirror'.fenceSub # s
      BY <2>2, <3>1 DEF Ended, Irreversible
    <3> QED BY <2>2, <2>5, <3>1, <3>2 DEF RowShape, Ended
  <2>10. \A r \in Subs : r > s => prov[r].status = "none"
    BY <2>2 DEF MirrorIInv, OneAfterAnother, Ended, Irreversible
  <2>11. OneAfterAnother'
    <3>1. \A r \in Subs : r < s => prov[r].status # "none"
      BY <2>2, <2>3 DEF Subs
    <3>2. \A r, t \in Subs : r < t /\ prov[t].status # "none" => Ended(r)
      BY DEF MirrorIInv, OneAfterAnother
    <3> QED BY <2>2, <2>5, <2>8, <2>10, <3>1, <3>2 DEF OneAfterAnother, Alive, Ended
  <2>12. EventsAreTrue' /\ EventsInOrder'
    BY <2>2 DEF MirrorIInv, EventsAreTrue, EventsInOrder, Stamp, ProviderConfirms, Ended
  <2>13. SeenIsTold'
    <3>1. ASSUME NEW j \in DOMAIN sent
          PROVE  sent[j].sub < s
      <4>1. prov[sent[j].sub].status # "none" /\ sent[j].sub \in Subs
        BY EventTyped DEF MirrorIInv, EventsAreTrue
      <4>2. ~(sent[j].sub > s) /\ sent[j].sub # s
        BY <2>2, <2>10, <4>1
      <4> QED BY <4>1, <4>2 DEF Subs
    <3> QED BY <2>2, <2>4, <2>5, <3>1 DEF MirrorIInv, SeenIsTold
  <2>14. EndedIsNotAwaited' /\ DeathIsFinal'
    <3>1. ASSUME NEW i \in receipts
          PROVE  sent[i].sub # s
      BY <2>2 DEF MirrorIInv, TypeOK, EventsAreTrue
    <3> QED BY <2>2, <2>5, <3>1 DEF EndedIsNotAwaited, DeathIsFinal, HasLive
  <2> QED BY <2>6, <2>7, <2>9, <2>11, <2>12, <2>13, <2>14 DEF MirrorIInv
<1> QED BY <1>1, <1>2 DEF Owner

(* A handler reads Stripe's books and writes none of them.                 *)
LEMMA HandlerKeepsBooks ==
  ASSUME MirrorIInv, NEW i \in DOMAIN sent, Settle(i), UNCHANGED <<clock, prov, sent>>,
         minted' \subseteq receipts', mirror' \in RowSpace, pause' \in PauseSpace
  PROVE  TypeOK' /\ EventsAreTrue' /\ EventsInOrder'
<1>1. TypeOK'
  BY DEF MirrorIInv, TypeOK, Settle
<1> QED BY <1>1
        DEF MirrorIInv, EventsAreTrue, EventsInOrder, Stamp, ProviderConfirms, Ended

(* A handler that opens no door: no end is handled, no fence opens, and at *)
(* most the row is bound to the subscription its fence waits for.          *)
SameDoor(i) ==
  /\ sent[i].kind # "deleted"
  /\ Settle(i) /\ clock' = clock /\ prov' = prov /\ sent' = sent /\ pause' = pause
  /\ minted' \subseteq receipts' /\ mirror' \in RowSpace
  /\ mirror'.seen = mirror.seen /\ mirror'.paused = mirror.paused
  /\ mirror'.fenced = mirror.fenced /\ mirror'.fenceSub = mirror.fenceSub
  /\ mirror'.attempt = mirror.attempt
  /\ mirror'.sub = mirror.sub \/ (mirror.fenced /\ mirror'.sub = mirror.attempt)
  /\ mirror'.status # mirror.status \/ mirror'.grace # mirror.grace =>
       ~mirror.fenced /\ {mirror.status, mirror'.status} \cap Irreversible = {}
  /\ mirror'.status = "past_due" => mirror'.grace # Null

LEMMA SameDoorKeeps ==
  ASSUME MirrorIInv, NEW i \in DOMAIN sent, SameDoor(i)
  PROVE  MirrorIInv'
<1> USE DEF SameDoor
<1>1. TypeOK' /\ EventsAreTrue' /\ EventsInOrder'
  BY HandlerKeepsBooks DEF MirrorIInv, TypeOK
<1>2. PausesAreOne' /\ DunningHasDeadline'
  BY DEF MirrorIInv, PausesAreOne, DunningHasDeadline
<1>3. RowShape'
  BY DEF MirrorIInv, RowShape, Ended
<1>4. OneAfterAnother'
  BY DEF MirrorIInv, OneAfterAnother, Alive, Ended
<1>5. SeenIsTold'
  BY DEF MirrorIInv, SeenIsTold
<1>6. EndedIsNotAwaited' /\ DeathIsFinal'
  <2>1. \A d \in receipts' : sent[d].kind = "deleted" => d \in receipts
    BY DEF Settle
  <2> QED BY <2>1 DEF MirrorIInv, EndedIsNotAwaited, DeathIsFinal, HasLive
<1> QED BY <1>1, <1>2, <1>3, <1>4, <1>5, <1>6 DEF MirrorIInv

(* An event is answered and nothing written.                               *)
LEMMA IgnoreKeeps ==
  ASSUME MirrorIInv, NEW i \in DOMAIN sent, Ignore(i),
         sent[i].kind = "deleted" => DeletionIgnored(sent[i])
  PROVE  MirrorIInv'
<1>1. /\ Settle(i) /\ UNCHANGED <<clock, prov, sent, mirror, pause, minted>>
      /\ minted' \subseteq receipts' /\ mirror' \in RowSpace /\ pause' \in PauseSpace
  BY DEF Ignore, Settle, MirrorIInv, TypeOK
<1>2. TypeOK' /\ EventsAreTrue' /\ EventsInOrder'
  BY <1>1, HandlerKeepsBooks
<1>3. /\ DunningHasDeadline' /\ PausesAreOne' /\ RowShape' /\ OneAfterAnother' /\ SeenIsTold'
  BY <1>1 DEF MirrorIInv, DunningHasDeadline, PausesAreOne, RowShape, OneAfterAnother, SeenIsTold,
              Alive, Ended
<1>4. sent[i].kind = "deleted" => mirror.attempt # sent[i].sub
  <2> SUFFICES ASSUME sent[i].kind = "deleted", mirror.attempt = sent[i].sub
               PROVE  FALSE
    OBVIOUS
  <2>1. mirror.seen < sent[i].at /\ sent[i].sub \in Subs /\ sent[i].at \in Int
    BY AwaitedIsNews, EventTyped DEF MirrorIInv, Stamps
  <2>2. mirror.seen \in Int
    BY MirrorAssumption DEF MirrorIInv, TypeOK, RowSpace, Stamps, Null
  <2>3. mirror.fenced /\ sent[i].sub # mirror.fenceSub
    BY <2>1, MirrorAssumption DEF MirrorIInv, RowShape, Subs, Null
  <2> QED BY <2>1, <2>2, <2>3 DEF DeletionIgnored, Stale, Advances
<1>5. sent[i].kind = "deleted" => ~(HasLive(mirror) /\ mirror.sub = sent[i].sub)
  BY EndIsNews DEF DeletionIgnored, MirrorIInv, EventsAreTrue, HasLive
<1>6. EndedIsNotAwaited' /\ DeathIsFinal'
  BY <1>1, <1>4, <1>5 DEF MirrorIInv, EndedIsNotAwaited, DeathIsFinal, Settle
<1> QED BY <1>2, <1>3, <1>6 DEF MirrorIInv

LEMMA CheckoutOpensNoDoor ==
  ASSUME MirrorIInv, NEW i \in DOMAIN sent, HandleCheckout(i)
  PROVE  Ignore(i) \/ (SameDoor(i) /\ mirror'.status = mirror.status)
<1> DEFINE e == sent[i]
<1>1. e.kind = "checkout" /\ e.sub \in Subs /\ mirror \in RowSpace
  BY EventTyped DEF HandleCheckout, MirrorIInv, TypeOK
<1>3. CASE ~CheckoutIgnored(e) /\ FenceAdmits(e) /\ Settle(i)
           /\ mirror' = [mirror EXCEPT !.sub = e.sub] /\ UNCHANGED <<clock, prov, sent, pause, minted>>
  <2>1. mirror.fenced => mirror.attempt = e.sub
    BY <1>3 DEF CheckoutIgnored, FenceAdmits, Advances
  <2>2. ~mirror.fenced => mirror.sub = e.sub
    BY <1>1, <1>3, AnotherIsStale DEF CheckoutIgnored
  <2>3. /\ mirror' \in RowSpace /\ mirror'.seen = mirror.seen /\ mirror'.paused = mirror.paused
        /\ mirror'.fenced = mirror.fenced /\ mirror'.fenceSub = mirror.fenceSub
        /\ mirror'.attempt = mirror.attempt /\ mirror'.sub = e.sub
        /\ mirror'.status = mirror.status /\ mirror'.grace = mirror.grace
    BY <1>1, <1>3 DEF RowSpace
  <2>4. minted' \subseteq receipts'
    BY <1>3 DEF MirrorIInv, TypeOK, Settle
  <2>5. SameDoor(i)
    BY <1>1, <1>3, <2>1, <2>2, <2>3, <2>4 DEF MirrorIInv, DunningHasDeadline, SameDoor
  <2> QED BY <2>3, <2>5
<1> QED BY <1>3 DEF HandleCheckout

LEMMA CheckoutKeeps ==
  ASSUME MirrorIInv, NEW i \in DOMAIN sent, HandleCheckout(i)
  PROVE  MirrorIInv'
<1>1. sent[i].kind = "checkout"
  BY DEF HandleCheckout
<1> QED BY <1>1, CheckoutOpensNoDoor, IgnoreKeeps, SameDoorKeeps

LEMMA FailedOpensNoDoor ==
  ASSUME MirrorIInv, NEW i \in DOMAIN sent, HandleFailed(i)
  PROVE  \/ Ignore(i)
         \/ SameDoor(i) /\ ~FailureIgnored(sent[i]) /\ mirror'.status = "past_due"
<1>1. sent[i].kind = "failed" /\ mirror \in RowSpace /\ clock \in Nat
  BY MirrorAssumption DEF HandleFailed, MirrorIInv, TypeOK, Instants
<1>3. CASE ~FailureIgnored(sent[i]) /\ ~mirror.fenced /\ Settle(i)
           /\ mirror' = [mirror EXCEPT !.status = "past_due", !.grace = DunningDeadline(mirror)]
           /\ UNCHANGED <<clock, prov, sent, pause, minted>>
  <2>1. DunningDeadline(mirror) \in Nat
    BY <1>1, MirrorAssumption DEF DunningDeadline, InheritsGrace, RowSpace, Null
  <2>2. mirror.status \notin Irreversible /\ "past_due" \notin Irreversible /\ "past_due" \in Statuses
    BY <1>3 DEF FailureIgnored, Terminal, Irreversible, Statuses
  <2>3. /\ mirror' \in RowSpace /\ mirror'.seen = mirror.seen /\ mirror'.paused = mirror.paused
        /\ mirror'.fenced = mirror.fenced /\ mirror'.fenceSub = mirror.fenceSub
        /\ mirror'.attempt = mirror.attempt /\ mirror'.sub = mirror.sub
        /\ mirror'.status = "past_due" /\ mirror'.grace = DunningDeadline(mirror)
    BY <1>1, <1>3, <2>1, <2>2 DEF RowSpace
  <2>4. minted' \subseteq receipts'
    BY <1>3 DEF MirrorIInv, TypeOK, Settle
  <2>5. SameDoor(i)
    BY <1>1, <1>3, <2>1, <2>2, <2>3, <2>4 DEF SameDoor, Null
  <2> QED BY <1>3, <2>3, <2>5
<1> QED BY <1>3 DEF HandleFailed

LEMMA FailedKeeps ==
  ASSUME MirrorIInv, NEW i \in DOMAIN sent, HandleFailed(i)
  PROVE  MirrorIInv'
<1>1. sent[i].kind = "failed"
  BY DEF HandleFailed
<1> QED BY <1>1, FailedOpensNoDoor, IgnoreKeeps, SameDoorKeeps

LEMMA PaidOpensNoDoor ==
  ASSUME MirrorIInv, NEW i \in DOMAIN sent, HandlePaid(i)
  PROVE  SameDoor(i)
<1> DEFINE e == sent[i]
<1>1. /\ e.kind = "paid" /\ e.sub \in Subs /\ mirror \in RowSpace /\ Settle(i) /\ BoundTo(e)
      /\ UNCHANGED <<clock, prov, sent, pause>> /\ minted' \subseteq receipts'
  BY EventTyped DEF HandlePaid, MirrorIInv, TypeOK, Settle
<1>2. CASE Advances(e)
  <2>1. mirror.fenced /\ mirror.attempt = e.sub /\ mirror' = [mirror EXCEPT !.sub = e.sub]
    BY <1>1, <1>2 DEF Advances, BoundTo, Retained, HandlePaid
  <2>2. /\ mirror' \in RowSpace /\ mirror'.seen = mirror.seen /\ mirror'.paused = mirror.paused
        /\ mirror'.fenced = mirror.fenced /\ mirror'.fenceSub = mirror.fenceSub
        /\ mirror'.attempt = mirror.attempt /\ mirror'.sub = e.sub
        /\ mirror'.status = mirror.status /\ mirror'.grace = mirror.grace
    BY <1>1, <2>1 DEF RowSpace
  <2> QED BY <1>1, <2>1, <2>2 DEF MirrorIInv, DunningHasDeadline, SameDoor
<1>3. CASE ~Advances(e)
  <2>1. mirror' = mirror \/ (mirror' = PaidEndsGrace(e) /\ PaidEndsGrace(e) # mirror)
    BY <1>1, <1>3 DEF HandlePaid
  <2>2. CASE mirror' = mirror
    BY <1>1, <2>2 DEF MirrorIInv, DunningHasDeadline, SameDoor
  <2>3. CASE mirror' = PaidEndsGrace(e) /\ PaidEndsGrace(e) # mirror
    <3>1. /\ mirror.grace # Null
          /\ mirror' = [mirror EXCEPT !.grace = Null,
               !.status = IF mirror.status \in Terminal THEN @ ELSE "active"]
      BY <2>3 DEF PaidEndsGrace
    <3>2. ~mirror.fenced /\ mirror.status \notin Irreversible
      BY <3>1 DEF MirrorIInv, RowShape
    <3>3. /\ mirror' \in RowSpace /\ mirror'.seen = mirror.seen /\ mirror'.paused = mirror.paused
          /\ mirror'.fenced = mirror.fenced /\ mirror'.fenceSub = mirror.fenceSub
          /\ mirror'.attempt = mirror.attempt /\ mirror'.sub = mirror.sub /\ mirror'.grace = Null
          /\ mirror'.status \in {mirror.status, "active"} /\ mirror'.status # "past_due"
      BY <1>1, <3>1 DEF RowSpace, Statuses, Terminal, Irreversible
    <3> QED BY <1>1, <3>2, <3>3 DEF SameDoor, Irreversible
  <2> QED BY <2>1, <2>2, <2>3
<1> QED BY <1>2, <1>3

LEMMA PaidKeeps ==
  ASSUME MirrorIInv, NEW i \in DOMAIN sent, HandlePaid(i)
  PROVE  MirrorIInv'
BY PaidOpensNoDoor, SameDoorKeeps

(* A snapshot that is taken over opens the fence it was waited for by, or  *)
(* is of the subscription the row is on.                                   *)
SnapshotTakes(e) ==
  /\ IF mirror.fenced THEN Advances(e) /\ mirror.attempt = e.sub ELSE mirror.sub = e.sub
  /\ UNCHANGED <<clock, prov, sent, minted>>
  /\ mirror' \in RowSpace /\ pause' \in PauseSpace
  /\ mirror'.sub = e.sub /\ mirror'.status = e.status /\ mirror'.seen = e.at
  /\ mirror'.paused <=> pause'.open # Null
  /\ ~mirror'.fenced /\ mirror'.fenceSub = Null /\ mirror'.attempt = Null
  /\ mirror'.grace = CASE e.status \in Irreversible -> Null
                       [] e.status = "past_due"     -> DunningDeadline(mirror)
                       [] OTHER                     -> mirror.grace
  /\ pause' = IF e.paused /\ e.status \notin Irreversible
              THEN PauseStarted(e.at) ELSE PauseEnded(e.at)

LEMMA SnapshotTaken ==
  ASSUME MirrorIInv, NEW i \in DOMAIN sent, HandleSnapshot(i), ~SnapshotIgnored(sent[i])
  PROVE  SnapshotTakes(sent[i]) /\ Settle(i)
<1> DEFINE e == sent[i]
<1>1. /\ e.kind = "snapshot" /\ e.sub \in Subs /\ e.at \in Stamps /\ e.status \in Statuses
      /\ mirror \in RowSpace /\ clock \in Nat
  BY EventTyped, MirrorAssumption DEF HandleSnapshot, MirrorIInv, TypeOK, Instants
<1>2. /\ ~SnapshotIgnored(e) /\ ~SnapshotRefused(e) /\ Settle(i)
      /\ UNCHANGED <<clock, prov, sent, minted>>
  BY DEF HandleSnapshot
<1>3. PICK flag \in BOOLEAN :
        /\ mirror' = SnapshotRow(e, flag) /\ pause' \in PauseSpace
        /\ flag <=> pause'.open # Null
  <2>1. PauseStarted(e.at) \in PauseSpace /\ PauseEnded(e.at) \in PauseSpace
    BY <1>1, PauseTyped DEF MirrorIInv
  <2>2. /\ FlagStarted(PauseStarted(e.at)) <=> PauseStarted(e.at).open # Null
        /\ FlagEnded(PauseEnded(e.at)) <=> PauseEnded(e.at).open # Null
    BY <1>1, PausesBecomeOne DEF MirrorIInv
  <2>3. FlagStarted(PauseStarted(e.at)) \in BOOLEAN /\ FlagEnded(PauseEnded(e.at)) \in BOOLEAN
    BY <1>1 DEF FlagStarted, FlagEnded, RowSpace
  <2> QED BY <2>1, <2>2, <2>3 DEF HandleSnapshot
<1>4. IF mirror.fenced THEN Advances(e) /\ mirror.attempt = e.sub ELSE mirror.sub = e.sub
  <2>1. mirror.fenced => Advances(e) /\ mirror.attempt = e.sub
    BY <1>2 DEF SnapshotIgnored, SnapshotRefused, FenceAdmits, Advances
  <2>2. ~mirror.fenced => mirror.sub = e.sub
    BY <1>1, <1>2, AnotherIsStale DEF SnapshotIgnored
  <2> QED BY <2>1, <2>2
<1>5. DunningDeadline(mirror) \in Nat
  BY <1>1, MirrorAssumption DEF DunningDeadline, InheritsGrace, RowSpace, Null
<1>6. /\ mirror'.sub = e.sub /\ mirror'.status = e.status /\ mirror'.seen = e.at
      /\ mirror'.paused = flag /\ ~mirror'.fenced
      /\ mirror'.fenceSub = Null /\ mirror'.attempt = Null
      /\ mirror'.grace = CASE e.status \in Irreversible -> Null
                           [] e.status = "past_due"     -> DunningDeadline(mirror)
                           [] OTHER                     -> mirror.grace
  BY <1>3, <1>4 DEF SnapshotRow, AttemptAfter, Advances, MirrorIInv, RowShape
<1>7. e.status \in Irreversible => e.status # "past_due"
  BY DEF Irreversible
<1>8. mirror'.grace \in Nat \cup {Null}
  BY <1>1, <1>5, <1>6 DEF RowSpace
<1>9. mirror' \in RowSpace
  <2>1. mirror' = [sub |-> mirror'.sub, status |-> mirror'.status, seen |-> mirror'.seen,
                   grace |-> mirror'.grace, paused |-> mirror'.paused, fenced |-> mirror'.fenced,
                   fenceSub |-> mirror'.fenceSub, attempt |-> mirror'.attempt]
    BY <1>3 DEF SnapshotRow
  <2>2. mirror'.fenced \in BOOLEAN
    BY <1>1, <1>3 DEF SnapshotRow, RowSpace
  <2> QED BY <1>1, <1>3, <1>6, <1>8, <2>1, <2>2 DEF RowSpace
<1>10. pause' = IF e.paused /\ e.status \notin Irreversible
              THEN PauseStarted(e.at) ELSE PauseEnded(e.at)
  BY DEF HandleSnapshot
<1> QED BY <1>2, <1>3, <1>4, <1>6, <1>9, <1>10 DEF SnapshotTakes

LEMMA SnapshotKeeps ==
  ASSUME MirrorIInv, NEW i \in DOMAIN sent, HandleSnapshot(i)
  PROVE  MirrorIInv'
<1> DEFINE e == sent[i]
<1>1. /\ e.kind = "snapshot" /\ e.sub \in Subs /\ e.at \in Stamps /\ e.status \in Statuses
      /\ mirror \in RowSpace /\ clock \in Nat
  BY EventTyped, MirrorAssumption DEF HandleSnapshot, MirrorIInv, TypeOK, Instants
<1>2. CASE SnapshotIgnored(e)
  BY <1>1, <1>2, IgnoreKeeps DEF HandleSnapshot
<1>3. CASE ~SnapshotIgnored(e)
  <2>1. ~SnapshotIgnored(e) /\ SnapshotTakes(e) /\ Settle(i) /\ UNCHANGED <<clock, prov, sent, minted>>
    BY <1>3, SnapshotTaken DEF SnapshotTakes
  <2>2. pause' \in PauseSpace /\ (mirror'.paused <=> pause'.open # Null)
    BY <2>1 DEF SnapshotTakes
  <2>3. IF mirror.fenced THEN Advances(e) /\ mirror.attempt = e.sub ELSE mirror.sub = e.sub
    BY <2>1 DEF SnapshotTakes
  <2>4. DunningDeadline(mirror) \in Nat
    BY <1>1, MirrorAssumption DEF DunningDeadline, InheritsGrace, RowSpace, Null
  <2>5. /\ mirror'.sub = e.sub /\ mirror'.status = e.status /\ mirror'.seen = e.at
        /\ ~mirror'.fenced /\ mirror'.fenceSub = Null /\ mirror'.attempt = Null
        /\ mirror'.grace = CASE e.status \in Irreversible -> Null
                             [] e.status = "past_due"     -> DunningDeadline(mirror)
                             [] OTHER                     -> mirror.grace
    BY <2>1 DEF SnapshotTakes
  <2>6. e.status \in Irreversible => e.status # "past_due"
    BY DEF Irreversible
  <2>8. mirror' \in RowSpace
    BY <2>1 DEF SnapshotTakes
  <2>9. TypeOK' /\ EventsAreTrue' /\ EventsInOrder'
    <3>1. minted' \subseteq receipts'
      BY <2>1 DEF MirrorIInv, TypeOK, Settle
    <3> QED BY <2>1, <2>2, <2>8, <3>1, HandlerKeepsBooks
  <2>10. DunningHasDeadline'
    BY <2>4, <2>5, <2>6 DEF DunningHasDeadline, Null
  <2>11. PausesAreOne'
    BY <2>2, <2>5 DEF PausesAreOne
  <2>12. RowShape'
    <3>1. e.status \in Irreversible => Ended(e.sub)
      BY DEF MirrorIInv, EventsAreTrue
    <3>2. e.status \in Irreversible => mirror'.grace = Null
      BY <2>5, <2>6
    <3> QED BY <1>1, <2>1, <2>5, <3>1, <3>2 DEF RowShape, Ended
  <2>13. OneAfterAnother'
    BY <1>1, <2>1, <2>3, <2>5, MirrorAssumption
       DEF MirrorIInv, OneAfterAnother, Alive, Ended, Subs, Null
  <2>14. SeenIsTold'
    <3>1. e.kind \notin {"paid", "failed"}
      BY <1>1
    <3> QED BY <2>1, <2>5, <3>1 DEF SeenIsTold
  <2>15. EndedIsNotAwaited'
    BY <2>1, <2>5, EventTyped, MirrorAssumption
       DEF EndedIsNotAwaited, MirrorIInv, TypeOK, Settle, Subs, Null
  <2>16. DeathIsFinal'
    <3> SUFFICES ASSUME NEW d \in receipts, sent[d].kind = "deleted", sent[d].sub = e.sub
                 PROVE  ~HasLive(mirror')
      BY <1>1, <2>1, <2>5 DEF DeathIsFinal, Settle
    <3>1. ~mirror.fenced /\ mirror.sub = e.sub
      BY <2>3 DEF MirrorIInv, EndedIsNotAwaited
    <3>2. mirror.status \in Irreversible
      BY <1>1, <3>1 DEF MirrorIInv, DeathIsFinal, HasLive
    <3>3. e.status \in Irreversible
      BY <2>1, <3>1, <3>2 DEF SnapshotIgnored
    <3> QED BY <2>5, <3>3 DEF HasLive
  <2> QED BY <2>9, <2>10, <2>11, <2>12, <2>13, <2>14, <2>15, <2>16 DEF MirrorIInv
<1> QED BY <1>2, <1>3

(* An end that is taken over is of the subscription the row is on, or of   *)
(* the one it waits for, and then it waits for no one.                     *)
DeletionTakes(e) ==
  /\ IF mirror.fenced THEN mirror.attempt = e.sub ELSE mirror.sub = e.sub
  /\ UNCHANGED <<clock, prov, sent, minted>> /\ pause' = PauseEnded(Null)
  /\ mirror' \in RowSpace /\ pause' \in PauseSpace /\ pause'.open = Null
  /\ Ended(e.sub)
  /\ mirror' = [sub      |-> IF mirror.fenced THEN Placeholder ELSE e.sub,
                status   |-> IF mirror.fenced THEN "incomplete" ELSE "canceled",
                seen     |-> e.at, grace |-> Null, paused |-> FALSE,
                fenced   |-> mirror.fenced,
                fenceSub |-> IF mirror.fenced THEN e.sub ELSE Null,
                attempt  |-> Null]

LEMMA DeletionTaken ==
  ASSUME MirrorIInv, NEW i \in DOMAIN sent, HandleDeleted(i), ~DeletionIgnored(sent[i])
  PROVE  DeletionTakes(sent[i]) /\ Settle(i)
<1> DEFINE e == sent[i]
<1>1. /\ e.kind = "deleted" /\ e.sub \in Subs /\ e.at \in Stamps
      /\ mirror \in RowSpace /\ e.sub # Null /\ e.sub # Placeholder
  BY EventTyped, MirrorAssumption
     DEF HandleDeleted, MirrorIInv, TypeOK, Subs, Null, Placeholder
<1>2. /\ ~DeletionIgnored(e) /\ FenceAdmits(e) /\ Settle(i) /\ pause' = PauseEnded(Null)
      /\ UNCHANGED <<clock, prov, sent, minted>>
  BY DEF HandleDeleted
<1>3. pause' \in PauseSpace /\ pause'.open = Null
  <2>1. pause' \in PauseSpace
    BY <1>2, PauseTyped DEF MirrorIInv
  <2>2. pause'.open = Null
    BY <1>2, MirrorAssumption DEF PauseEnded, MirrorIInv, TypeOK, PauseSpace
  <2> QED BY <2>1, <2>2
<1>4. Ended(e.sub)
  BY <1>1 DEF MirrorIInv, EventsAreTrue, Irreversible
<1>5. IF mirror.fenced THEN Advances(e) /\ mirror.attempt = e.sub ELSE mirror.sub = e.sub
  <2>1. mirror.fenced => Advances(e)
    <3>1. ASSUME mirror.fenced, ~Advances(e)
          PROVE  FALSE
      <4>1. mirror.sub = e.sub /\ mirror.fenceSub = e.sub
        BY <1>2, <3>1 DEF DeletionIgnored, Advances
      <4> QED BY <1>1, <3>1, <4>1 DEF MirrorIInv, RowShape
    <3> QED BY <3>1
  <2>2. mirror.fenced => mirror.attempt = e.sub
    BY <1>2, <2>1 DEF FenceAdmits
  <2>3. ~mirror.fenced => mirror.sub = e.sub
    BY <1>2 DEF DeletionIgnored, Advances
  <2> QED BY <2>1, <2>2, <2>3
<1>6. Advances(e) <=> mirror.fenced
  BY <1>5 DEF Advances
<1>7. mirror' = [sub      |-> IF mirror.fenced THEN Placeholder ELSE e.sub,
                 status   |-> IF mirror.fenced THEN "incomplete" ELSE "canceled",
                 seen     |-> e.at, grace |-> Null, paused |-> FALSE,
                 fenced   |-> mirror.fenced,
                 fenceSub |-> IF mirror.fenced THEN e.sub ELSE Null,
                 attempt  |-> Null]
  <2>1. ~mirror.fenced => mirror.fenceSub = Null /\ mirror.attempt = Null
    BY DEF MirrorIInv, RowShape
  <2> QED BY <1>6, <2>1 DEF HandleDeleted, AttemptAfter
<1>8. mirror' \in RowSpace
  BY <1>1, <1>7 DEF RowSpace, Statuses, Terminal, Irreversible
<1> QED BY <1>2, <1>3, <1>4, <1>5, <1>7, <1>8 DEF DeletionTakes

LEMMA DeletedKeeps ==
  ASSUME MirrorIInv, NEW i \in DOMAIN sent, HandleDeleted(i)
  PROVE  MirrorIInv'
<1> DEFINE e == sent[i]
<1>1. /\ e.kind = "deleted" /\ e.sub \in Subs /\ e.at \in Stamps
      /\ mirror \in RowSpace /\ e.sub # Null /\ e.sub # Placeholder
  BY EventTyped, MirrorAssumption
     DEF HandleDeleted, MirrorIInv, TypeOK, Subs, Null, Placeholder
<1>2. CASE DeletionIgnored(e)
  BY <1>2, IgnoreKeeps DEF HandleDeleted
<1>3. CASE ~DeletionIgnored(e)
  <2>1. DeletionTakes(e) /\ Settle(i) /\ UNCHANGED <<clock, prov, sent, minted>>
    BY <1>3, DeletionTaken DEF DeletionTakes
  <2>2. pause' \in PauseSpace /\ pause'.open = Null
    BY <2>1 DEF DeletionTakes
  <2>3. Ended(e.sub)
    BY <2>1 DEF DeletionTakes
  <2>4. IF mirror.fenced THEN mirror.attempt = e.sub ELSE mirror.sub = e.sub
    BY <2>1 DEF DeletionTakes
  <2>6. mirror' = [sub      |-> IF mirror.fenced THEN Placeholder ELSE e.sub,
                   status   |-> IF mirror.fenced THEN "incomplete" ELSE "canceled",
                   seen     |-> e.at, grace |-> Null, paused |-> FALSE,
                   fenced   |-> mirror.fenced,
                   fenceSub |-> IF mirror.fenced THEN e.sub ELSE Null,
                   attempt  |-> Null]
    BY <2>1 DEF DeletionTakes
  <2>7. mirror' \in RowSpace
    BY <2>1 DEF DeletionTakes
  <2>8. TypeOK' /\ EventsAreTrue' /\ EventsInOrder'
    <3>1. minted' \subseteq receipts'
      BY <2>1 DEF MirrorIInv, TypeOK, Settle
    <3> QED BY <2>1, <2>2, <2>7, <3>1, HandlerKeepsBooks
  <2>9. DunningHasDeadline' /\ PausesAreOne'
    BY <2>2, <2>6 DEF DunningHasDeadline, PausesAreOne
  <2>10. RowShape'
    BY <1>1, <2>1, <2>3, <2>6 DEF RowShape, Ended
  <2>11. OneAfterAnother'
    BY <1>1, <2>1, <2>3, <2>4, <2>6 DEF MirrorIInv, OneAfterAnother, Alive, Ended
  <2>12. SeenIsTold'
    BY <1>1, <2>1, <2>6 DEF SeenIsTold
  <2>13. EndedIsNotAwaited'
    BY <2>1, <2>6, EventTyped, MirrorAssumption
       DEF EndedIsNotAwaited, MirrorIInv, TypeOK, Settle, Subs, Null
  <2>14. DeathIsFinal'
    BY <2>6 DEF DeathIsFinal, HasLive, Irreversible
  <2> QED BY <2>8, <2>9, <2>10, <2>11, <2>12, <2>13, <2>14 DEF MirrorIInv
<1> QED BY <1>2, <1>3

LEMMA StepKeeps == MirrorIInv /\ [Next]_vars => MirrorIInv'
<1> SUFFICES ASSUME MirrorIInv, [Next]_vars
             PROVE  MirrorIInv'
  OBVIOUS
<1>1. CASE Tick
  BY <1>1, TickKeeps
<1>2. CASE Provider
  BY <1>2, ProviderKeeps
<1>3. CASE Webhook
  BY <1>3, CheckoutKeeps, SnapshotKeeps, DeletedKeeps, PaidKeeps, FailedKeeps
     DEF Webhook, Handle, Pending
<1>4. CASE Owner
  BY <1>4, OwnerKeeps
<1>5. CASE UNCHANGED vars
  BY <1>5
     DEF vars, MirrorIInv, TypeOK, DunningHasDeadline, PausesAreOne, RowShape, OneAfterAnother,
         EventsAreTrue, EventsInOrder, SeenIsTold, EndedIsNotAwaited, DeathIsFinal, Ended,
         Alive, Stamp, ProviderConfirms, HasLive
<1> QED BY <1>1, <1>2, <1>3, <1>4, <1>5 DEF Next

LEMMA InitHolds == Init => MirrorIInv
<1> SUFFICES ASSUME Init
             PROVE  MirrorIInv
  OBVIOUS
<1>1. PICK p \in BOOLEAN :
        mirror = [sub |-> Placeholder, status |-> "incomplete", seen |-> Null,
                  grace |-> Null, paused |-> p,
                  fenced |-> TRUE, fenceSub |-> Null, attempt |-> Null]
  BY MirrorAssumption DEF Init
<1>2. /\ clock = Lag /\ sent = <<>> /\ receipts = {} /\ minted = {}
      /\ pause = [open |-> Null, closed |-> Null]
      /\ \A s \in Subs : prov[s] = [status |-> "none", paused |-> FALSE, owed |-> FALSE]
      /\ prov \in [Subs -> ProvSpace]
  BY DEF Init, ProvSpace
<1>3. DOMAIN sent = {} /\ sent \in Seq(EventSpace)
  BY <1>2
<1>4. TypeOK
  BY <1>1, <1>2, <1>3, MirrorAssumption
     DEF TypeOK, Instants, RowSpace, PauseSpace, Statuses
<1>5. DunningHasDeadline /\ PausesAreOne /\ RowShape
  BY <1>1, <1>2 DEF DunningHasDeadline, PausesAreOne, RowShape
<1>6. OneAfterAnother
  BY <1>1, <1>2 DEF OneAfterAnother, Alive, Irreversible
<1>7. EventsAreTrue /\ EventsInOrder
  BY <1>2, <1>3 DEF EventsAreTrue, EventsInOrder
<1>8. SeenIsTold /\ EndedIsNotAwaited /\ DeathIsFinal
  BY <1>1, <1>2 DEF SeenIsTold, EndedIsNotAwaited, DeathIsFinal
<1> QED BY <1>4, <1>5, <1>6, <1>7, <1>8 DEF MirrorIInv

(* Whatever Stripe does, whenever its events are handled and however often *)
(* they are sent again, the row, the events and Stripe stay related as the *)
(* parts of MirrorIInv say.                                                *)
THEOREM MirrorInvariant == Spec => []MirrorIInv
BY InitHolds, StepKeeps, PTL DEF Spec

(* The row never contradicts itself: types, the deadline of dunning, and   *)
(* one truth about the pause, whatever Stripe does and in whatever order   *)
(* it is told.                                                             *)
THEOREM CoherentRow == Spec => []RowIsCoherent
<1>1. MirrorIInv => RowIsCoherent
  BY DEF MirrorIInv, RowIsCoherent, PausesAreOne, PauseTruthsAgree, HasLive
<1> QED BY <1>1, MirrorInvariant, PTL

(* The fence of the row is what keeps a workspace from two subscriptions   *)
(* that bill, and no late event revives one that ended.                    *)
THEOREM LivesOnce == Spec => []OneLife
<1>1. ASSUME MirrorIInv
      PROVE  OneLiveSubscription
  <2> SUFFICES ASSUME NEW r \in Subs, NEW s \in Subs, Alive(r), Alive(s), r < s
               PROVE  FALSE
    BY DEF OneLiveSubscription, Alive, Subs
  <2> QED BY <1>1 DEF MirrorIInv, OneAfterAnother, Alive, Ended
<1>2. MirrorIInv => OneLife
  BY <1>1 DEF MirrorIInv, OneLife
<1> QED BY <1>2, MirrorInvariant, PTL

-----------------------------------------------------------------------------
(* What a step may never do                                                *)

(* A full window opens with each dunning episode, and no handler, however  *)
(* late, moves or clears a window that is still running.                   *)
THEOREM GraceHolds == Spec => GraceWindowHolds
<1>1. ASSUME TypeOK, [Next]_vars, mirror'.status = "past_due"
      PROVE  /\ mirror.status # "past_due" => mirror'.grace = clock + GraceLength
             /\ InheritsGrace(mirror) => mirror'.grace = mirror.grace
  <2>1. mirror \in RowSpace
    BY <1>1 DEF TypeOK
  <2>2. CASE mirror'.status = mirror.status /\ mirror'.grace = mirror.grace
    BY <1>1, <2>2
  <2>3. CASE mirror'.grace = DunningDeadline(mirror)
    BY <2>3 DEF DunningDeadline, InheritsGrace
  <2>4. (mirror'.status = mirror.status /\ mirror'.grace = mirror.grace)
          \/ mirror'.grace = DunningDeadline(mirror)
    <3>1. CASE Tick \/ Provider \/ UNCHANGED vars
      BY <3>1 DEF Tick, Provider, vars
    <3>2. CASE Webhook
      <4>1. PICK i \in Pending : Handle(i)
        BY <3>2 DEF Webhook
      <4>2. CASE Ignore(i)
        BY <4>2 DEF Ignore
      <4>3. CASE HandleCheckout(i) \/ HandleFailed(i)
        BY <2>1, <4>3 DEF HandleCheckout, HandleFailed, Ignore, RowSpace
      <4>4. CASE HandleSnapshot(i) /\ ~Ignore(i)
        <5>1. PICK flag : mirror' = SnapshotRow(sent[i], flag)
          BY <4>4 DEF HandleSnapshot
        <5>2. sent[i].status = "past_due" /\ "past_due" \notin Irreversible
          BY <1>1, <5>1 DEF SnapshotRow, Irreversible
        <5> QED BY <5>1, <5>2 DEF SnapshotRow
      <4>5. CASE HandleDeleted(i) /\ ~Ignore(i)
        BY <1>1, <4>5 DEF HandleDeleted
      <4>6. CASE HandlePaid(i)
        <5>1. \/ mirror' = mirror \/ mirror' = [mirror EXCEPT !.sub = sent[i].sub]
              \/ mirror' = [mirror EXCEPT !.grace = Null,
                              !.status = IF mirror.status \in Terminal THEN @ ELSE "active"]
          BY <4>6 DEF HandlePaid, PaidEndsGrace
        <5>2. "past_due" \notin Terminal
          BY DEF Terminal, Irreversible
        <5>3. mirror' = mirror \/ mirror' = [mirror EXCEPT !.sub = sent[i].sub]
          <6>1. CASE mirror' = [mirror EXCEPT !.grace = Null,
                              !.status = IF mirror.status \in Terminal THEN @ ELSE "active"]
            <7>1. mirror'.status \in Terminal \cup {"active"}
              BY <2>1, <6>1 DEF RowSpace
            <7> QED BY <1>1, <5>2, <7>1
          <6> QED BY <5>1, <6>1
        <5> QED BY <2>1, <5>3 DEF RowSpace
      <4> QED BY <4>1, <4>2, <4>3, <4>4, <4>5, <4>6 DEF Handle
    <3>3. CASE Owner
      BY <1>1, <2>1, <3>3 DEF Owner, Reserve, OwnerPause, OwnerResume, RowSpace
    <3> QED BY <1>1, <3>1, <3>2, <3>3 DEF Next
  <2> QED BY <2>2, <2>3, <2>4
<1>2. MirrorIInv => TypeOK
  BY DEF MirrorIInv
<1>3. TypeOK /\ [Next]_vars =>
        [mirror'.status = "past_due" =>
           /\ mirror.status # "past_due" => mirror'.grace = clock + GraceLength
           /\ InheritsGrace(mirror) => mirror'.grace = mirror.grace]_vars
  BY <1>1
<1> QED BY <1>2, <1>3, MirrorInvariant, PTL DEF Spec, GraceWindowHolds

(* What is sent is sent by whoever sends it, now.                          *)
LEMMA SendsStamped ==
  ASSUME TypeOK, NEW by \in {"stripe", "owner", "repeat"}, NEW s \in Subs,
         NEW status \in Statuses, NEW isPaused \in BOOLEAN, NEW owed \in BOOLEAN,
         NEW kinds \in Seq(EventKinds), EmitBy(by, s, status, isPaused, owed, kinds),
         NEW j \in DOMAIN sent'
  PROVE  \/ j \in DOMAIN sent /\ sent'[j] = sent[j]
         \/ sent'[j].by = by /\ sent'[j].at = Stamp
<1>1. /\ prov' \in [Subs -> ProvSpace] /\ sent' \in Seq(EventSpace)
      /\ prov'[s] = [status |-> status, paused |-> isPaused, owed |-> owed]
      /\ \A r \in Subs : r # s => prov'[r] = prov[r]
      /\ Len(sent') = Len(sent) + Len(kinds)
      /\ \A i \in 1..Len(sent) : sent'[i] = sent[i]
      /\ \A i \in (Len(sent) + 1)..Len(sent') :
           /\ i - Len(sent) \in 1..Len(kinds)
           /\ sent'[i] = Event(kinds[i - Len(sent)], by, s, status, isPaused)
  BY SendsAppends
<1>2. DOMAIN sent = 1..Len(sent) /\ DOMAIN sent' = 1..Len(sent') /\ Len(sent) \in Nat
      /\ Len(sent') \in Nat
  BY <1>1, LenProperties DEF TypeOK
<1>3. CASE j \in 1..Len(sent)
  BY <1>1, <1>2, <1>3
<1>4. CASE j \in (Len(sent) + 1)..Len(sent')
  <2>1. sent'[j] = Event(kinds[j - Len(sent)], by, s, status, isPaused)
    BY <1>1, <1>4
  <2> QED BY <2>1 DEF Event
<1> QED BY <1>2, <1>3, <1>4

(* What OwnerIsRemembered says of an instant, before and after a report    *)
(* created at `known` that the row was not told too late of.               *)
Remembered(at, seen, p) ==
  \/ p.open >= at
  \/ seen >= at - Skew
  \/ p.open = Null /\ p.closed >= at

LEMMA ReportIsRemembered ==
  ASSUME TypeOK, NEW at \in Nat, NEW known \in Stamps, NEW seen \in Int, seen <= known,
         Remembered(at, seen, pause)
  PROVE  /\ Remembered(at, known, PauseStarted(known))
         /\ Remembered(at, known, PauseEnded(known))
         /\ at <= clock => Remembered(at, known, PauseEnded(Null))
<1>1. /\ pause = [open |-> pause.open, closed |-> pause.closed] /\ Null = -1
      /\ pause.open \in Nat \cup {-1} /\ pause.closed \in Nat \cup {-1}
      /\ clock \in Nat /\ known \in Nat /\ Skew \in Nat
  BY MirrorAssumption DEF TypeOK, Instants, Stamps, PauseSpace, Null
<1>2. CASE known >= at - Skew
  BY <1>1, <1>2 DEF Remembered
<1>3. CASE ~(known >= at - Skew) /\ pause.open >= at
  <2>1. pause.open # Null /\ pause.open - known > Skew
    BY <1>1, <1>3
  <2>2. PauseStarted(known) = pause /\ PauseEnded(known) = pause
    BY <1>1, <2>1 DEF PauseStarted, PauseEnded
  <2>3. PauseEnded(Null).open = Null /\ PauseEnded(Null).closed >= clock
    BY <1>1, <2>1 DEF PauseEnded
  <2>4. Remembered(at, known, pause)
    BY <1>3 DEF Remembered
  <2>5. at <= clock => Remembered(at, known, PauseEnded(Null))
    <3>1. PauseEnded(Null).closed \in Int
      BY <1>1 DEF PauseEnded
    <3> QED BY <1>1, <2>3, <3>1 DEF Remembered
  <2> QED BY <2>2, <2>4, <2>5
<1>4. CASE ~(known >= at - Skew) /\ pause.open = Null /\ pause.closed >= at
  <2>1. PauseStarted(known) = pause /\ PauseEnded(known) = pause /\ PauseEnded(Null) = pause
    BY <1>1, <1>4 DEF PauseStarted, PauseEnded
  <2> QED BY <1>4, <2>1 DEF Remembered
<1> QED BY <1>1, <1>2, <1>3, <1>4 DEF Remembered

LEMMA OwnerStaysRemembered ==
  ASSUME MirrorIInv, OwnerIsRemembered, [Next]_vars
  PROVE  OwnerIsRemembered'
<1>1. /\ mirror \in RowSpace /\ pause \in PauseSpace /\ clock \in Nat
      /\ Null = -1 /\ Stamp <= clock /\ Stamp \in Nat
  BY MirrorAssumption DEF MirrorIInv, TypeOK, Instants, Null, Stamp
<1>2. /\ mirror.seen \in Int
      /\ \A j \in DOMAIN sent : sent[j].at \in Nat /\ sent[j].at <= Stamp
  BY <1>1, EventTyped, MirrorAssumption DEF MirrorIInv, RowSpace, Stamps, EventsAreTrue
<1>3. \A j \in DOMAIN sent : sent[j].by = "owner" => Remembered(sent[j].at, mirror.seen, pause)
  BY DEF OwnerIsRemembered, Remembered
<1>4. SUFFICES ASSUME NEW j \in DOMAIN sent', sent'[j].by = "owner"
               PROVE  Remembered(sent'[j].at, mirror'.seen, pause')
  BY DEF OwnerIsRemembered, Remembered
<1>5. CASE Tick \/ UNCHANGED vars
  BY <1>3, <1>4, <1>5 DEF Tick, vars
<1>6. CASE Provider
  <2>1. UNCHANGED <<mirror, pause>>
    BY <1>6 DEF Provider
  <2>2. PICK s \in Subs, status \in Statuses, isPaused \in BOOLEAN, owed \in BOOLEAN,
             kinds \in Seq(EventKinds) : Sends("stripe", s, status, isPaused, owed, kinds)
    BY <1>6, ProviderSends DEF MirrorIInv
  <2>3. j \in DOMAIN sent /\ sent'[j] = sent[j]
    BY <1>4, <2>2, SendsStamped DEF MirrorIInv, Sends
  <2> QED BY <1>3, <1>4, <2>1, <2>3
<1>7. CASE \E s \in Subs : Reserve(s)
  <2>1. mirror'.seen = mirror.seen /\ UNCHANGED <<sent, pause>>
    BY <1>1, <1>7 DEF Reserve, RowSpace
  <2> QED BY <1>3, <1>4, <2>1
<1>8. CASE \E s \in Subs : OwnerPause(s) \/ OwnerResume(s)
  <2>1. PICK s \in Subs : OwnerPause(s) \/ OwnerResume(s)
    BY <1>8
  <2>2. mirror.paused <=> pause.open # Null
    <3>1. ~mirror.fenced
      BY <2>1 DEF OwnerPause, OwnerResume, HasLive
    <3> QED BY <3>1 DEF MirrorIInv, PausesAreOne
  <2>3. PICK by \in {"owner", "repeat"}, isPaused \in BOOLEAN :
          /\ EmitBy(by, s, prov[s].status, isPaused, prov[s].owed, <<"snapshot">>)
          /\ \/ by = "repeat" /\ pause' = pause
             \/ pause'.open = clock
             \/ pause'.open = Null /\ pause'.closed >= clock
    <3>1. CASE OwnerPause(s)
      <4>1. EmitBy(IF mirror.paused THEN "repeat" ELSE "owner",
                   s, prov[s].status, TRUE, prov[s].owed, <<"snapshot">>)
        BY <3>1 DEF OwnerPause
      <4>2. mirror.paused => pause' = pause
        BY <2>2, <3>1 DEF OwnerPause, PauseStarted
      <4>3. ~mirror.paused => pause'.open = clock
        BY <1>1, <2>2, <3>1 DEF OwnerPause, PauseStarted, PauseSpace
      <4>4. CASE mirror.paused
        BY <4>1, <4>2, <4>4
      <4>5. CASE ~mirror.paused
        BY <4>1, <4>3, <4>5
      <4> QED BY <4>4, <4>5
    <3>2. CASE OwnerResume(s)
      <4>1. pause.closed \in Int
        BY <1>1, MirrorAssumption DEF PauseSpace
      <4>2. pause'.open = Null /\ pause'.closed >= clock
        BY <1>1, <2>2, <3>2, <4>1 DEF OwnerResume, PauseEnded
      <4> QED BY <3>2, <4>2 DEF OwnerResume
    <3> QED BY <2>1, <3>1, <3>2
  <2>4. mirror'.seen = mirror.seen
    BY <1>1, <2>1 DEF OwnerPause, OwnerResume, RowSpace
  <2>5. /\ prov[s].status \in Statuses /\ prov[s].owed \in BOOLEAN
        /\ <<"snapshot">> \in Seq(EventKinds) /\ by \in {"stripe", "owner", "repeat"}
    <3>1. prov[s].status \in {"active", "past_due", "unpaid"}
      BY <2>1 DEF OwnerPause, OwnerResume
    <3>2. prov[s].status \in Statuses
      BY <3>1 DEF Statuses, Terminal
    <3>3. prov[s].owed \in BOOLEAN
      BY DEF MirrorIInv, TypeOK, ProvSpace
    <3>4. <<"snapshot">> \in Seq(EventKinds)
      BY DEF EventKinds
    <3> QED BY <3>2, <3>3, <3>4
  <2>6. \/ j \in DOMAIN sent /\ sent'[j] = sent[j]
        \/ sent'[j].by = by /\ sent'[j].at = Stamp
    BY <2>3, <2>5, SendsStamped DEF MirrorIInv
  <2>7. sent'[j].at \in Nat /\ sent'[j].at <= clock
    BY <1>1, <1>2, <2>6
  <2>8. CASE by = "repeat" /\ pause' = pause
    <3>1. j \in DOMAIN sent /\ sent'[j] = sent[j]
      BY <1>4, <2>6, <2>8
    <3> QED BY <1>3, <1>4, <2>4, <2>8, <3>1
  <2>9. CASE pause'.open = clock \/ (pause'.open = Null /\ pause'.closed >= clock)
    <3>1. pause' \in PauseSpace
      BY <2>1, PauseTyped DEF OwnerPause, OwnerResume, MirrorIInv
    <3>2. pause'.closed \in Int
      BY <1>1, <3>1, MirrorAssumption DEF PauseSpace
    <3> QED BY <1>1, <2>7, <2>9, <3>2 DEF Remembered
  <2> QED BY <2>3, <2>8, <2>9
<1>9. CASE Webhook
  <2>1. PICK i \in DOMAIN sent : Handle(i)
    BY <1>9 DEF Webhook, Pending
  <2>2. sent' = sent /\ j \in DOMAIN sent /\ sent[j].at \in Nat /\ sent[j].at <= clock
    <3>1. sent' = sent
      BY <2>1 DEF Handle, HandleCheckout, HandleSnapshot, HandleDeleted, HandlePaid,
                  HandleFailed, Ignore
    <3> QED BY <1>1, <1>2, <3>1
  <2>3. sent[i].at \in Stamps
    BY EventTyped DEF MirrorIInv
  <2>4. CASE mirror'.seen = mirror.seen /\ pause' = pause
    BY <1>3, <1>4, <2>2, <2>4
  <2>5. CASE HandleSnapshot(i) /\ ~Ignore(i)
    <3>1. mirror'.seen = sent[i].at /\ ~Stale(sent[i])
      BY <2>5 DEF HandleSnapshot, SnapshotRow, SnapshotIgnored
    <3>2. pause' = PauseStarted(sent[i].at) \/ pause' = PauseEnded(sent[i].at)
      BY <2>5 DEF HandleSnapshot
    <3>3. mirror.seen <= sent[i].at
      BY <1>2, <2>3, <3>1, MirrorAssumption DEF Stale, Stamps
    <3> QED BY <1>2, <1>3, <1>4, <2>2, <2>3, <3>1, <3>2, <3>3, ReportIsRemembered DEF MirrorIInv
  <2>6. CASE HandleDeleted(i) /\ ~Ignore(i)
    <3>1. mirror'.seen = sent[i].at /\ ~Stale(sent[i]) /\ pause' = PauseEnded(Null)
      BY <2>6 DEF HandleDeleted, DeletionIgnored
    <3>2. mirror.seen <= sent[i].at
      BY <1>2, <2>3, <3>1, MirrorAssumption DEF Stale, Stamps
    <3> QED BY <1>2, <1>3, <1>4, <2>2, <2>3, <3>1, <3>2, ReportIsRemembered DEF MirrorIInv
  <2>7. CASE HandleCheckout(i) \/ HandlePaid(i) \/ HandleFailed(i) \/ Ignore(i)
    <3>1. mirror'.seen = mirror.seen /\ pause' = pause
      BY <1>1, <2>7 DEF HandleCheckout, HandlePaid, PaidEndsGrace, HandleFailed, Ignore, RowSpace
    <3> QED BY <2>4, <3>1
  <2> QED BY <2>1, <2>5, <2>6, <2>7 DEF Handle
<1> QED BY <1>5, <1>6, <1>7, <1>8, <1>9 DEF Next, Owner

(* The owner's pause and resume stand against every report created more    *)
(* than the clock tolerance before them, in whatever order they come.      *)
THEOREM OwnersWordStands == Spec => OwnerPauseStands
<1> DEFINE Inv == MirrorIInv /\ OwnerIsRemembered
           Step == \A i \in receipts' \ receipts :
                     sent[i].kind = "snapshot" /\ (pause'.open = Null) # (pause.open = Null) =>
                       \A j \in DOMAIN sent :
                         sent[j].by = "owner" => sent[j].at <= sent[i].at + Skew
<1>1. Init => Inv
  <2>1. Init => sent = <<>>
    BY DEF Init
  <2> QED BY <2>1, InitHolds DEF OwnerIsRemembered
<1>2. Inv /\ [Next]_vars => Inv'
  BY StepKeeps, OwnerStaysRemembered
<1>3. Inv /\ [Next]_vars => [Step]_vars
  <2> SUFFICES ASSUME Inv, Next, NEW i \in receipts' \ receipts, sent[i].kind = "snapshot",
                      (pause'.open = Null) # (pause.open = Null),
                      NEW j \in DOMAIN sent, sent[j].by = "owner"
               PROVE  sent[j].at <= sent[i].at + Skew
    BY DEF Step
  <2>1. PICK k \in DOMAIN sent : Handle(k)
    BY DEF Next, Tick, Provider, Owner, Reserve, OwnerPause, OwnerResume, Webhook, Pending
  <2>2. i = k
    BY <2>1 DEF Handle, HandleCheckout, HandleSnapshot, HandleDeleted, HandlePaid, HandleFailed,
                Ignore, Settle
  <2>3. HandleSnapshot(i) /\ ~Ignore(i)
    BY <2>1, <2>2 DEF Handle, HandleCheckout, HandleDeleted, HandlePaid, HandleFailed, Ignore
  <2>4. /\ ~Stale(sent[i])
        /\ pause' = PauseStarted(sent[i].at) \/ pause' = PauseEnded(sent[i].at)
    BY <2>3 DEF HandleSnapshot, SnapshotIgnored
  <2>5. /\ sent[i].at \in Nat /\ sent[j].at \in Nat /\ mirror.seen \in Int /\ Skew \in Nat
        /\ pause.open \in Int /\ pause.closed \in Int /\ Null = -1
    BY <2>1, <2>2, EventTyped, MirrorAssumption
       DEF MirrorIInv, TypeOK, RowSpace, PauseSpace, Stamps, Null
  <2>6. mirror.seen <= sent[i].at
    BY <2>4, <2>5 DEF Stale
  <2>7. \/ pause.open >= sent[j].at \/ mirror.seen >= sent[j].at - Skew
        \/ pause.open = Null /\ pause.closed >= sent[j].at
    BY DEF OwnerIsRemembered
  <2>8. CASE sent[j].at > sent[i].at + Skew
    BY <2>4, <2>5, <2>6, <2>7, <2>8 DEF PauseStarted, PauseEnded
  <2> QED BY <2>5, <2>8
<1> QED BY <1>1, <1>2, <1>3, PTL DEF Spec, OwnerPauseStands

-----------------------------------------------------------------------------
(* The invoices                                                            *)

(* An open pause was known to Stripe, at the instant it is dated or before.*)
PauseIsReported ==
  pause.open # Null =>
    \E j \in DOMAIN sent : sent[j].paused /\ sent[j].at <= pause.open

(* A pause that a step opens is one Stripe reports.                        *)
LEMMA PauseStaysReported ==
  ASSUME MirrorIInv, PauseIsReported, [Next]_vars
  PROVE  /\ PauseIsReported'
         /\ \A i \in DOMAIN sent : i \in DOMAIN sent' /\ sent'[i] = sent[i]
<1>1. pause \in PauseSpace /\ clock \in Nat /\ Null = -1 /\ Stamp <= clock /\ Stamp \in Nat
  BY MirrorAssumption DEF MirrorIInv, TypeOK, Instants, Null, Stamp
<1>2. CASE UNCHANGED <<sent, pause>>
  BY <1>2 DEF PauseIsReported
<1>3. CASE Provider
  <2>1. UNCHANGED <<clock, receipts, mirror, pause, minted>>
    BY <1>3 DEF Provider
  <2>2. PICK s \in Subs, status \in Statuses, isPaused \in BOOLEAN, owed \in BOOLEAN,
             kinds \in Seq(EventKinds) : Sends("stripe", s, status, isPaused, owed, kinds)
    BY <1>3, ProviderSends DEF MirrorIInv
  <2>3. \A i \in DOMAIN sent : i \in DOMAIN sent' /\ sent'[i] = sent[i]
    BY <2>1, <2>2, SendsKeepsOrder
  <2> QED BY <2>1, <2>3 DEF PauseIsReported
<1>4. CASE \E s \in Subs : OwnerPause(s) \/ OwnerResume(s)
  <2>1. PICK s \in Subs : OwnerPause(s) \/ OwnerResume(s)
    BY <1>4
  <2>2. prov[s].status \in Statuses /\ prov[s].owed \in BOOLEAN
    <3>1. prov[s].status \in {"active", "past_due", "unpaid"}
      BY <2>1 DEF OwnerPause, OwnerResume
    <3>2. prov[s].status \in Statuses
      BY <3>1 DEF Statuses, Terminal
    <3>3. prov[s].owed \in BOOLEAN
      BY DEF MirrorIInv, TypeOK, ProvSpace
    <3> QED BY <3>2, <3>3
  <2>3. PICK by \in {"stripe", "owner", "repeat"}, status \in Statuses, isPaused \in BOOLEAN,
             owed \in BOOLEAN, kinds \in Seq(EventKinds) :
          /\ EmitBy(by, s, status, isPaused, owed, kinds) /\ Len(kinds) = 1
          /\ (isPaused /\ pause' = PauseStarted(Null)) \/ pause' = PauseEnded(Null)
    <3>1. <<"snapshot">> \in Seq(EventKinds) /\ Len(<<"snapshot">>) = 1
      BY DEF EventKinds
    <3> QED BY <2>1, <2>2, <3>1 DEF OwnerPause, OwnerResume
  <2>4. /\ prov' \in [Subs -> ProvSpace] /\ sent' \in Seq(EventSpace)
        /\ prov'[s] = [status |-> status, paused |-> isPaused, owed |-> owed]
        /\ \A r \in Subs : r # s => prov'[r] = prov[r]
        /\ Len(sent') = Len(sent) + Len(kinds)
        /\ \A i \in 1..Len(sent) : sent'[i] = sent[i]
        /\ \A i \in (Len(sent) + 1)..Len(sent') :
             /\ i - Len(sent) \in 1..Len(kinds)
             /\ sent'[i] = Event(kinds[i - Len(sent)], by, s, status, isPaused)
    <3>1. TypeOK /\ EmitBy(by, s, status, isPaused, owed, kinds)
      BY <2>3 DEF MirrorIInv
    <3> QED BY <3>1, SendsAppends
  <2>5. DOMAIN sent = 1..Len(sent) /\ DOMAIN sent' = 1..Len(sent') /\ Len(sent) \in Nat
        /\ Len(sent') = Len(sent) + 1
    BY <2>3, <2>4, LenProperties DEF MirrorIInv, TypeOK
  <2>6. \A i \in DOMAIN sent : i \in DOMAIN sent' /\ sent'[i] = sent[i]
    BY <2>4, <2>5
  <2>7. CASE pause' = PauseStarted(Null) /\ isPaused
    <3> DEFINE n == Len(sent) + 1
    <3>1. n \in DOMAIN sent' /\ n \in (Len(sent) + 1)..Len(sent')
      BY <2>5
    <3>2. sent'[n] = Event(kinds[n - Len(sent)], by, s, status, isPaused)
      BY <2>4, <3>1
    <3>3. sent'[n].paused /\ sent'[n].at <= clock
      BY <1>1, <2>7, <3>2 DEF Event
    <3>4. pause' = pause \/ pause'.open = clock
      BY <1>1, <2>7 DEF PauseStarted, PauseSpace
    <3> HIDE DEF n
    <3> QED BY <2>6, <3>1, <3>3, <3>4 DEF PauseIsReported
  <2>8. CASE pause' = PauseEnded(Null)
    <3>1. pause' = pause \/ pause'.open = Null
      BY <2>8 DEF PauseEnded
    <3> QED BY <2>6, <3>1 DEF PauseIsReported
  <2> QED BY <2>3, <2>6, <2>7, <2>8
<1>5. CASE Webhook
  <2>1. PICK i \in DOMAIN sent : Handle(i)
    BY <1>5 DEF Webhook, Pending
  <2>2. sent' = sent
    BY <2>1 DEF Handle, HandleCheckout, HandleSnapshot, HandleDeleted, HandlePaid,
                HandleFailed, Ignore
  <2>3. sent[i].at \in Stamps /\ Null \notin Stamps
    BY EventTyped, MirrorAssumption DEF MirrorIInv, Stamps, Null
  <2>4. \/ pause' = pause
        \/ sent[i].paused /\ pause' = PauseStarted(sent[i].at)
        \/ pause' = PauseEnded(sent[i].at) \/ pause' = PauseEnded(Null)
    BY <2>1 DEF Handle, HandleCheckout, HandleSnapshot, HandleDeleted, HandlePaid,
                HandleFailed, Ignore
  <2>5. CASE sent[i].paused /\ pause' = PauseStarted(sent[i].at)
    <3>1. pause' = pause \/ pause'.open = sent[i].at
      BY <1>1, <2>3, <2>5 DEF PauseStarted, PauseSpace
    <3>2. sent[i].at <= sent[i].at
      BY <2>3, MirrorAssumption DEF Stamps
    <3> QED BY <2>1, <2>2, <2>5, <3>1, <3>2 DEF PauseIsReported
  <2>6. CASE pause' = PauseEnded(sent[i].at) \/ pause' = PauseEnded(Null)
    <3>1. pause' = pause \/ pause'.open = Null
      BY <2>6 DEF PauseEnded
    <3> QED BY <2>2, <3>1 DEF PauseIsReported
  <2>7. CASE pause' = pause
    BY <2>2, <2>7 DEF PauseIsReported
  <2> QED BY <2>2, <2>4, <2>5, <2>6, <2>7
<1>6. UNCHANGED <<sent, pause>> \/ Provider \/ Webhook
        \/ \E s \in Subs : OwnerPause(s) \/ OwnerResume(s)
  BY DEF Next, Tick, Owner, Reserve, vars
<1> QED BY <1>2, <1>3, <1>4, <1>5, <1>6

(* A paid invoice is refused its allowance only for a pause that Stripe    *)
(* itself knew more than the tolerance before it issued the invoice.       *)
THEOREM RefusalsFollowPauses == Spec => []RefusedAfterPause
<1> DEFINE Inv == MirrorIInv /\ PauseIsReported /\ RefusedAfterPause
<1>1. Init => Inv
  <2>1. Init => receipts = {} /\ pause.open = Null
    BY DEF Init
  <2> QED BY <2>1, InitHolds DEF PauseIsReported, RefusedAfterPause
<1>2. Inv /\ [Next]_vars => Inv'
  <2> SUFFICES ASSUME Inv, [Next]_vars
               PROVE  RefusedAfterPause'
    BY StepKeeps, PauseStaysReported
  <2>1. \A i \in DOMAIN sent : i \in DOMAIN sent' /\ sent'[i] = sent[i]
    BY PauseStaysReported
  <2>2. receipts \subseteq DOMAIN sent
    BY DEF MirrorIInv, TypeOK
  <2>3. SUFFICES ASSUME NEW i \in receipts' \ minted', sent'[i].kind = "paid"
                 PROVE  \E j \in DOMAIN sent : sent[j].paused /\ sent[j].at + Skew < sent'[i].at
    BY <2>1 DEF RefusedAfterPause
  <2>4. CASE i \in receipts \ minted
    BY <2>1, <2>2, <2>3, <2>4 DEF RefusedAfterPause
  <2>5. CASE i \notin receipts \ minted
    <3>1. PICK k \in DOMAIN sent : Handle(k)
      BY <2>3, <2>5 DEF Next, Tick, Provider, Owner, Reserve, OwnerPause, OwnerResume,
                        Webhook, Pending, vars
    <3>2. minted \subseteq minted' /\ receipts' = receipts \cup {k} /\ sent' = sent
      BY <3>1 DEF Handle, HandleCheckout, HandleSnapshot, HandleDeleted, HandlePaid,
                  HandleFailed, Ignore, Settle
    <3>3. i = k
      BY <2>3, <2>5, <3>2
    <3>4. RefusedForPause(sent[k])
      BY <2>3, <3>1, <3>2, <3>3
         DEF Handle, HandleCheckout, HandleSnapshot, HandleDeleted, HandlePaid, HandleFailed,
             Granted
    <3>5. PICK j \in DOMAIN sent : sent[j].paused /\ sent[j].at <= pause.open
      BY <3>4 DEF RefusedForPause, PauseIsReported
    <3>6. /\ sent[j].at \in Int /\ sent[k].at \in Int /\ pause.open \in Int /\ Skew \in Int
      BY EventTyped, MirrorAssumption DEF MirrorIInv, TypeOK, PauseSpace, Stamps, Null
    <3>7. sent[j].at + Skew < sent[k].at
      BY <3>4, <3>5, <3>6 DEF RefusedForPause
    <3> QED BY <3>2, <3>3, <3>5, <3>7
  <2> QED BY <2>4, <2>5
<1> QED BY <1>1, <1>2, PTL DEF Spec

-----------------------------------------------------------------------------
(* The row once everything is told                                         *)

(* The latest report of a subscription, and the end of one.                *)
Latest(i) ==
  /\ sent[i].kind = "snapshot"
  /\ \A j \in DOMAIN sent : sent[j].kind = "snapshot" /\ sent[j].sub = sent[i].sub => j <= i

ToldAlive(i) == Latest(i) /\ Alive(sent[i].sub)

Expiry(i) == sent[i].kind = "snapshot" /\ sent[i].status \in Irreversible

(* What is told of j beside the latest report i of its subscription: no    *)
(* more than the report says, but for the declines of what is incomplete.  *)
AddsNothing(i, j) ==
  /\ sent[j].at <= sent[i].at \/ (sent[j].kind = "failed" /\ sent[i].status = "incomplete")
  /\ sent[j].kind = "paid" /\ sent[j].at = sent[i].at => sent[i].status = "active"
  /\ sent[j].kind = "failed" /\ sent[j].at >= sent[i].at =>
       sent[i].status \in {"past_due", "unpaid", "incomplete"}
  /\ sent[i].status = "incomplete" => sent[j].status = "incomplete"

(* What is alive has been reported as it is, and nothing is told of it     *)
(* after that report but what the report says too.                         *)
ReportsAreTrue ==
  /\ \A s \in Subs : Alive(s) => \E i \in DOMAIN sent : sent[i].sub = s /\ Latest(i)
  /\ \A i \in DOMAIN sent : ToldAlive(i) =>
       /\ ProviderConfirms(sent[i])
       /\ \A j \in DOMAIN sent : sent[j].sub = sent[i].sub => AddsNothing(i, j)

(* Every end is told, one way or the other.                                *)
EndsAreTold ==
  /\ \A s \in Subs : Ended(s) =>
       \E i \in DOMAIN sent : sent[i].sub = s /\ (sent[i].kind = "deleted" \/ Expiry(i))
  /\ \A i \in DOMAIN sent : Expiry(i) =>
       /\ ProviderConfirms(sent[i])
       /\ \A j \in DOMAIN sent : sent[j].sub = sent[i].sub /\ sent[j].kind # "paid" => j <= i

(* No pause is known from after the latest report but within the lag.      *)
PauseIsRecent ==
  /\ pause.open <= clock /\ pause.closed <= clock
  /\ \A i \in DOMAIN sent : ToldAlive(i) =>
       pause.open <= sent[i].at + Lag /\ pause.closed <= sent[i].at + Lag

(* The row that was told the latest report says what it says, or the       *)
(* decline told beside it.                                                 *)
RowShows(i) ==
  /\ ~mirror.fenced /\ mirror.sub = sent[i].sub /\ mirror.seen = sent[i].at
  /\ mirror.status = sent[i].status \/ ShowsDecline(sent[i].sub, sent[i].status)
  /\ mirror.paused = sent[i].paused

RowFollows == \A i \in receipts : ToldAlive(i) => RowShows(i)

(* One that was told of an expiry neither waits for what expired nor shows *)
(* it alive.                                                               *)
ExpiryIsFinal ==
  \A i \in receipts : Expiry(i) =>
    mirror.attempt # sent[i].sub /\ ~(HasLive(mirror) /\ mirror.sub = sent[i].sub)

ToldInv ==
  /\ MirrorIInv
  /\ ReportsAreTrue
  /\ EndsAreTold
  /\ PauseIsRecent
  /\ RowFollows
  /\ ExpiryIsFinal

LEMMA ToldSettles == ToldInv => SettledRowAgrees
<1> SUFFICES ASSUME ToldInv, receipts = DOMAIN sent
             PROVE  Agrees
  BY DEF SettledRowAgrees
<1>1. ASSUME NEW s \in Subs, Alive(s)
      PROVE  /\ ~mirror.fenced /\ mirror.sub = s
             /\ mirror.status = prov[s].status \/ ShowsDecline(s, prov[s].status)
             /\ mirror.paused = prov[s].paused
             /\ (pause.open # Null) = prov[s].paused
  <2>1. PICK i \in DOMAIN sent : sent[i].sub = s /\ Latest(i)
    BY <1>1 DEF ToldInv, ReportsAreTrue
  <2>2. ToldAlive(i)
    BY <1>1, <2>1 DEF ToldAlive
  <2>3. prov[s].status = sent[i].status /\ prov[s].paused = sent[i].paused
    BY <2>1, <2>2 DEF ToldInv, ReportsAreTrue, ProviderConfirms
  <2>4. /\ ~mirror.fenced /\ mirror.sub = s /\ mirror.paused = sent[i].paused
        /\ mirror.status = sent[i].status \/ ShowsDecline(s, sent[i].status)
    BY <2>1, <2>2 DEF ToldInv, RowFollows, RowShows
  <2>5. mirror.paused <=> pause.open # Null
    BY <2>4 DEF ToldInv, MirrorIInv, PausesAreOne
  <2>6. sent[i].paused \in BOOLEAN /\ (pause.open # Null) \in BOOLEAN
    BY EventTyped DEF ToldInv, MirrorIInv
  <2>7. (pause.open # Null) = sent[i].paused
    BY <2>4, <2>5, <2>6
  <2> QED BY <2>3, <2>4, <2>7
<1>2. ASSUME HasLive(mirror), Ended(mirror.sub)
      PROVE  FALSE
  <2>1. PICK i \in DOMAIN sent : sent[i].sub = mirror.sub /\ (sent[i].kind = "deleted" \/ Expiry(i))
    BY <1>2 DEF ToldInv, EndsAreTold, HasLive
  <2> QED BY <1>2, <2>1 DEF ToldInv, MirrorIInv, DeathIsFinal, ExpiryIsFinal
<1> QED BY <1>1, <1>2 DEF Agrees, Alive, Ended

(* What sending about s does to Stripe's books.                            *)
Appended(by, s, status, isPaused, owed, kinds) ==
  /\ \A r \in Subs : r # s => prov'[r] = prov[r]
  /\ prov'[s].status = status /\ prov'[s].paused = isPaused
  /\ \A i \in DOMAIN sent : i \in DOMAIN sent' /\ sent'[i] = sent[i]
  /\ \A i \in DOMAIN sent' \ DOMAIN sent :
       /\ i - Len(sent) \in DOMAIN kinds
       /\ sent'[i].kind = kinds[i - Len(sent)] /\ sent'[i].sub = s /\ sent'[i].at = Stamp
       /\ sent'[i].status = status /\ sent'[i].paused = isPaused
  /\ \A k \in DOMAIN kinds : k + Len(sent) \in DOMAIN sent' \ DOMAIN sent
  /\ \A i \in DOMAIN sent, j \in DOMAIN sent' \ DOMAIN sent : i < j
  /\ Len(sent) \in Nat /\ DOMAIN sent' \subseteq Nat /\ DOMAIN kinds = 1..Len(kinds)
  /\ Len(kinds) \in Nat

LEMMA SendsAppended ==
  ASSUME TypeOK, NEW by \in {"stripe", "owner", "repeat"}, NEW s \in Subs,
         NEW status \in Statuses, NEW isPaused \in BOOLEAN, NEW owed \in BOOLEAN,
         NEW kinds \in Seq(EventKinds), Sends(by, s, status, isPaused, owed, kinds)
  PROVE  Appended(by, s, status, isPaused, owed, kinds)
<1>1. /\ prov' \in [Subs -> ProvSpace] /\ sent' \in Seq(EventSpace)
      /\ prov'[s] = [status |-> status, paused |-> isPaused, owed |-> owed]
      /\ \A r \in Subs : r # s => prov'[r] = prov[r]
      /\ Len(sent') = Len(sent) + Len(kinds)
      /\ \A i \in 1..Len(sent) : sent'[i] = sent[i]
      /\ \A i \in (Len(sent) + 1)..Len(sent') :
           /\ i - Len(sent) \in 1..Len(kinds)
           /\ sent'[i] = Event(kinds[i - Len(sent)], by, s, status, isPaused)
  BY SMTT(30), SendsAppends DEF Sends
<1>2. /\ DOMAIN sent = 1..Len(sent) /\ DOMAIN sent' = 1..Len(sent')
      /\ Len(sent) \in Nat /\ Len(kinds) \in Nat /\ Len(sent') \in Nat
      /\ DOMAIN kinds = 1..Len(kinds)
  BY <1>1, LenProperties DEF TypeOK
<1>3. \A i \in DOMAIN sent : i \in DOMAIN sent' /\ sent'[i] = sent[i]
  BY <1>1, <1>2
<1>4. ASSUME NEW i \in DOMAIN sent' \ DOMAIN sent
      PROVE  /\ i - Len(sent) \in DOMAIN kinds
             /\ sent'[i].kind = kinds[i - Len(sent)] /\ sent'[i].sub = s /\ sent'[i].at = Stamp
             /\ sent'[i].status = status /\ sent'[i].paused = isPaused
  <2>1. i \in (Len(sent) + 1)..Len(sent')
    BY <1>2
  <2>2. i - Len(sent) \in 1..Len(kinds) /\ sent'[i] = Event(kinds[i - Len(sent)], by, s, status, isPaused)
    BY <1>1, <2>1
  <2> QED BY <1>2, <2>2 DEF Event
<1>5. \A k \in DOMAIN kinds : k + Len(sent) \in DOMAIN sent' \ DOMAIN sent
  BY <1>1, <1>2
<1>6. \A i \in DOMAIN sent, j \in DOMAIN sent' \ DOMAIN sent : i < j
  BY <1>2
<1>7. prov'[s].status = status /\ prov'[s].paused = isPaused
  BY <1>1
<1>8. \A r \in Subs : r # s => prov'[r] = prov[r]
  BY <1>1
<1>9. DOMAIN sent' \subseteq Nat
  BY <1>2
<1> QED BY <1>2, <1>3, <1>4, <1>5, <1>6, <1>7, <1>8, <1>9, Zenon DEF Appended

(* The latest reports after a sending: those of the others, and one about  *)
(* s of this instant, unless only its decline was sent.                    *)
LEMMA LatestAfterSending ==
  ASSUME ToldInv, NEW by \in {"stripe", "owner", "repeat"}, NEW s \in Subs,
         NEW status \in Statuses, NEW isPaused \in BOOLEAN, NEW owed \in BOOLEAN,
         NEW kinds \in Seq(EventKinds), Reports(s, status, isPaused, kinds),
         Appended(by, s, status, isPaused, owed, kinds),
         NEW i \in DOMAIN sent', ToldAlive(i)'
  PROVE  \/ i \in DOMAIN sent /\ sent'[i] = sent[i] /\ sent[i].sub # s /\ ToldAlive(i)
         \/ /\ i \notin DOMAIN sent /\ sent'[i].sub = s /\ sent'[i].at = Stamp
            /\ sent'[i].status = status /\ sent'[i].paused = isPaused
            /\ status \notin Irreversible /\ ReportsAlive(s, status, kinds)
         \/ /\ i \in DOMAIN sent /\ sent'[i] = sent[i] /\ sent[i].sub = s /\ ToldAlive(i)
            /\ DeclinesAgain(s, status, isPaused, kinds)
<1>1. CASE i \in DOMAIN sent
  <2>1. sent'[i] = sent[i] /\ sent[i].sub \in Subs
    BY <1>1, EventTyped DEF Appended, ToldInv, MirrorIInv
  <2>2. ASSUME sent[i].sub = s, ReportsAlive(s, status, kinds)
        PROVE  FALSE
    <3>1. PICK k \in DOMAIN kinds : kinds[k] = "snapshot"
      BY <2>2 DEF ReportsAlive
    <3> DEFINE n == k + Len(sent)
    <3>2. n \in DOMAIN sent' \ DOMAIN sent /\ n - Len(sent) = k
      BY DEF Appended
    <3> HIDE DEF n
    <3>3. sent'[n].kind = "snapshot" /\ sent'[n].sub = s /\ i < n
      BY <1>1, <3>1, <3>2 DEF Appended
    <3>4. n <= i
      BY <2>1, <2>2, <3>2, <3>3 DEF ToldAlive, Latest
    <3>5. n \in Nat /\ i \in Nat
      BY <3>2 DEF Appended
    <3> QED BY <3>3, <3>4, <3>5
  <2>3. Latest(i)
    BY <1>1, <2>1 DEF ToldAlive, Latest, Appended
  <2>4. CASE sent[i].sub # s
    <3>1. ToldAlive(i)
      BY <2>1, <2>3, <2>4 DEF ToldAlive, Alive, Appended
    <3> QED BY <1>1, <2>1, <2>4, <3>1
  <2>5. CASE sent[i].sub = s
    <3>1. status \notin Irreversible
      BY <2>1, <2>5 DEF ToldAlive, Alive, Appended
    <3>2. DeclinesAgain(s, status, isPaused, kinds)
      BY <2>2, <2>5, <3>1 DEF Reports
    <3>3. Alive(s)
      BY <3>1, <3>2 DEF DeclinesAgain, Alive
    <3> QED BY <1>1, <2>1, <2>3, <2>5, <3>2, <3>3 DEF ToldAlive
  <2> QED BY <2>4, <2>5
<1>2. CASE i \notin DOMAIN sent
  <2>1. /\ sent'[i].kind = "snapshot" /\ i - Len(sent) \in DOMAIN kinds
        /\ sent'[i].kind = kinds[i - Len(sent)] /\ sent'[i].sub = s /\ sent'[i].at = Stamp
        /\ sent'[i].status = status /\ sent'[i].paused = isPaused
    BY <1>2 DEF ToldAlive, Latest, Appended
  <2>2. status \notin Irreversible
    BY <2>1 DEF ToldAlive, Alive, Appended
  <2>3. ReportsAlive(s, status, kinds)
    BY <2>1, <2>2 DEF Reports, DeclinesAgain
  <2> QED BY <1>2, <2>1, <2>2, <2>3
<1> QED BY <1>1, <1>2

LEMMA SendsKeepsReports ==
  ASSUME ToldInv, NEW by \in {"stripe", "owner", "repeat"}, NEW s \in Subs,
         NEW status \in Statuses, NEW isPaused \in BOOLEAN, NEW owed \in BOOLEAN,
         NEW kinds \in Seq(EventKinds), Sends(by, s, status, isPaused, owed, kinds),
         Reports(s, status, isPaused, kinds), Appended(by, s, status, isPaused, owed, kinds)
  PROVE  ReportsAreTrue'
<1>1. Stamp \in Nat /\ \A j \in DOMAIN sent : sent[j].at \in Nat /\ sent[j].at <= Stamp
  <2>1. Stamp \in Nat
    BY MirrorAssumption DEF ToldInv, MirrorIInv, TypeOK, Instants, Stamp
  <2>2. \A j \in DOMAIN sent : sent[j].at \in Nat
    BY EventTyped DEF ToldInv, MirrorIInv, Stamps
  <2> QED BY <2>1, <2>2 DEF ToldInv, MirrorIInv, EventsAreTrue
<1>2. ASSUME NEW r \in Subs, Alive(r)'
      PROVE  \E i \in DOMAIN sent' : sent'[i].sub = r /\ Latest(i)'
  <2>1. CASE r = s /\ ReportsAlive(s, status, kinds)
    <3>2. PICK k \in DOMAIN kinds :
            kinds[k] = "snapshot" /\ \A m \in DOMAIN kinds : kinds[m] = "snapshot" => m = k
      BY <2>1 DEF ReportsAlive
    <3> DEFINE n == k + Len(sent)
    <3>3. n \in DOMAIN sent' \ DOMAIN sent /\ n - Len(sent) = k /\ n \in Nat
      BY DEF Appended
    <3>4. n = k + Len(sent) /\ k \in Nat /\ Len(sent) \in Nat
      BY DEF Appended
    <3> HIDE DEF n
    <3>5. sent'[n].kind = "snapshot" /\ sent'[n].sub = s
      BY <3>2, <3>3 DEF Appended
    <3>6. ASSUME NEW j \in DOMAIN sent', sent'[j].kind = "snapshot"
          PROVE  j <= n
      <4>1. CASE j \in DOMAIN sent
        <5>1. j < n /\ j \in Nat
          BY <3>3, <4>1 DEF Appended
        <5> QED BY <3>3, <5>1
      <4>2. CASE j \notin DOMAIN sent
        <5>1. j - Len(sent) \in DOMAIN kinds /\ kinds[j - Len(sent)] = "snapshot" /\ j \in Nat
          BY <3>6, <4>2 DEF Appended
        <5>2. j - Len(sent) = k
          BY <3>2, <5>1
        <5> QED BY <3>4, <5>1, <5>2
      <4> QED BY <4>1, <4>2
    <3> QED BY <2>1, <3>3, <3>5, <3>6 DEF Latest
  <2>3. CASE r = s /\ DeclinesAgain(s, status, isPaused, kinds)
    <3>1. Alive(s)
      BY <1>2, <2>3 DEF DeclinesAgain, Alive, Appended
    <3>2. PICK i \in DOMAIN sent : sent[i].sub = s /\ Latest(i)
      BY <3>1 DEF ToldInv, ReportsAreTrue
    <3>3. i \in DOMAIN sent' /\ sent'[i] = sent[i]
      BY DEF Appended
    <3>4. \A j \in DOMAIN sent' : sent'[j].kind = "snapshot" => j \in DOMAIN sent /\ sent'[j] = sent[j]
      BY <2>3 DEF Appended, DeclinesAgain
    <3>5. Latest(i)'
      BY <3>2, <3>3, <3>4 DEF Latest
    <3> QED BY <2>3, <3>2, <3>3, <3>5
  <2>2. CASE r # s
    <3>1. Alive(r)
      BY <1>2, <2>2 DEF Alive, Appended
    <3>2. PICK i \in DOMAIN sent : sent[i].sub = r /\ Latest(i)
      BY <3>1 DEF ToldInv, ReportsAreTrue
    <3>3. i \in DOMAIN sent' /\ sent'[i] = sent[i]
      BY DEF Appended
    <3>4. \A j \in DOMAIN sent' : sent'[j].sub = r => j \in DOMAIN sent /\ sent'[j] = sent[j]
      BY <2>2 DEF Appended
    <3>5. Latest(i)'
      BY <3>2, <3>3, <3>4 DEF Latest
    <3> QED BY <3>2, <3>3, <3>5
  <2>4. r = s => status \notin Irreversible
    BY <1>2 DEF Alive, Appended
  <2> QED BY <2>1, <2>2, <2>3, <2>4 DEF Reports
<1>3. ASSUME NEW i \in DOMAIN sent', ToldAlive(i)'
      PROVE  /\ ProviderConfirms(sent[i])'
             /\ \A j \in DOMAIN sent' : sent'[j].sub = sent'[i].sub => AddsNothing(i, j)'
  <2>1. CASE i \in DOMAIN sent /\ sent'[i] = sent[i] /\ sent[i].sub # s /\ ToldAlive(i)
    <3>1. \A j \in DOMAIN sent' : sent'[j].sub = sent[i].sub => j \in DOMAIN sent /\ sent'[j] = sent[j]
      BY <2>1 DEF Appended
    <3>2. sent[i].sub \in Subs
      BY <2>1, EventTyped DEF ToldInv, MirrorIInv
    <3>3. ProviderConfirms(sent[i]) /\ prov'[sent[i].sub] = prov[sent[i].sub]
      BY <2>1, <3>2 DEF ToldInv, ReportsAreTrue, Appended
    <3>4. ProviderConfirms(sent[i])'
      BY <2>1, <3>3 DEF ProviderConfirms
    <3>5. \A j \in DOMAIN sent : sent[j].sub = sent[i].sub => AddsNothing(i, j)
      BY <2>1 DEF ToldInv, ReportsAreTrue
    <3>6. ASSUME NEW j \in DOMAIN sent', sent'[j].sub = sent[i].sub
          PROVE  AddsNothing(i, j)'
      BY <2>1, <3>1, <3>5, <3>6 DEF AddsNothing
    <3> QED BY <2>1, <3>4, <3>6
  <2>2. CASE /\ i \notin DOMAIN sent /\ sent'[i].sub = s /\ sent'[i].at = Stamp
             /\ sent'[i].status = status /\ sent'[i].paused = isPaused
             /\ status \notin Irreversible /\ ReportsAlive(s, status, kinds)
    <3>1. ProviderConfirms(sent[i])'
      BY <2>2 DEF ProviderConfirms, Appended
    <3>2. ASSUME NEW j \in DOMAIN sent, sent[j].sub = s, prov[s].status \notin Irreversible
          PROVE  \E l \in DOMAIN sent : sent[l].status = prov[s].status /\ AddsNothing(l, j)
      <4>1. prov[s].status # "none"
        BY <3>2 DEF ToldInv, MirrorIInv, EventsAreTrue
      <4>2. Alive(s)
        BY <3>2, <4>1 DEF Alive
      <4>3. PICK l \in DOMAIN sent : sent[l].sub = s /\ Latest(l)
        BY <4>2 DEF ToldInv, ReportsAreTrue
      <4>4. ToldAlive(l)
        BY <4>2, <4>3 DEF ToldAlive
      <4> QED BY <3>2, <4>3, <4>4 DEF ToldInv, ReportsAreTrue, ProviderConfirms
    <3>3. ASSUME NEW j \in DOMAIN sent', sent'[j].sub = s
          PROVE  AddsNothing(i, j)'
      <4>1. CASE j \notin DOMAIN sent
        <5>1. /\ sent'[j].at = Stamp /\ j - Len(sent) \in DOMAIN kinds
              /\ sent'[j].kind = kinds[j - Len(sent)] /\ sent'[j].status = status
          BY <4>1 DEF Appended
        <5>2. /\ kinds[j - Len(sent)] = "paid" => status = "active"
              /\ kinds[j - Len(sent)] = "failed" => status \in {"past_due", "incomplete"}
          BY <2>2, <5>1 DEF ReportsAlive
        <5> QED BY <1>1, <2>2, <5>1, <5>2 DEF AddsNothing
      <4>2. CASE j \in DOMAIN sent
        <5>1. sent'[j] = sent[j] /\ sent[j].sub = s /\ sent[j].at \in Nat /\ sent[j].at <= Stamp
          BY <1>1, <3>3, <4>2 DEF Appended
        <5>2. status = "incomplete" => sent[j].status = "incomplete"
          <6>1. prov[s].status # "none"
            BY <4>2, <5>1 DEF ToldInv, MirrorIInv, EventsAreTrue
          <6>2. status = "incomplete" => prov[s].status = "incomplete"
            BY <2>2, <6>1 DEF ReportsAlive
          <6> QED BY <3>2, <4>2, <5>1, <6>2 DEF Irreversible, AddsNothing
        <5>3. CASE sent[j].at # Stamp
          <6>1. sent[j].at < Stamp /\ ~(sent[j].at >= Stamp)
            BY <1>1, <5>1, <5>3
          <6> QED BY <2>2, <5>1, <5>2, <5>3, <6>1 DEF AddsNothing
        <5>4. CASE sent[j].at = Stamp
          <6>1. ~InLaterSecond
            BY <1>1, <4>2, <5>4 DEF InLaterSecond
          <6>2. status = prov[s].status \/ (status = "unpaid" /\ prov[s].status = "past_due")
            BY <2>2, <6>1 DEF ReportsAlive
          <6>3. prov[s].status \notin Irreversible
            BY <2>2, <6>2 DEF Irreversible
          <6>4. PICK l \in DOMAIN sent : sent[l].status = prov[s].status /\ AddsNothing(l, j)
            BY <3>2, <4>2, <5>1, <6>3
          <6>5. sent[l].at \in Nat /\ sent[l].at <= Stamp
            BY <1>1
          <6>6. sent[j].kind = "paid" => status = "active"
            BY <1>1, <5>4, <6>2, <6>4, <6>5 DEF AddsNothing
          <6>7. sent[j].kind = "failed" => status \in {"past_due", "unpaid", "incomplete"}
            BY <1>1, <5>4, <6>2, <6>4, <6>5 DEF AddsNothing
          <6> QED BY <1>1, <2>2, <5>1, <5>2, <5>4, <6>6, <6>7 DEF AddsNothing
        <5> QED BY <5>3, <5>4
      <4> QED BY <4>1, <4>2
    <3> QED BY <2>2, <3>1, <3>3
  <2>3. CASE /\ i \in DOMAIN sent /\ sent'[i] = sent[i] /\ sent[i].sub = s /\ ToldAlive(i)
             /\ DeclinesAgain(s, status, isPaused, kinds)
    <3>1. ProviderConfirms(sent[i]) /\ sent[i].status = "incomplete"
      BY <2>3 DEF ToldInv, ReportsAreTrue, ProviderConfirms, DeclinesAgain
    <3>2. ProviderConfirms(sent[i])'
      BY <2>3, <3>1 DEF ProviderConfirms, DeclinesAgain, Appended
    <3>3. ASSUME NEW j \in DOMAIN sent', sent'[j].sub = s
          PROVE  AddsNothing(i, j)'
      <4>1. CASE j \notin DOMAIN sent
        <5>1. sent'[j].kind = "failed" /\ sent'[j].status = "incomplete"
          BY <2>3, <4>1 DEF Appended, DeclinesAgain
        <5> QED BY <2>3, <3>1, <5>1 DEF AddsNothing
      <4>2. CASE j \in DOMAIN sent
        <5>1. sent'[j] = sent[j] /\ sent[j].sub = sent[i].sub
          BY <2>3, <3>3, <4>2 DEF Appended
        <5>2. AddsNothing(i, j)
          BY <2>3, <4>2, <5>1 DEF ToldInv, ReportsAreTrue
        <5> QED BY <2>3, <5>1, <5>2 DEF AddsNothing
      <4> QED BY <4>1, <4>2
    <3> QED BY <2>3, <3>2, <3>3
  <2> QED BY <1>3, <2>1, <2>2, <2>3, LatestAfterSending
<1> QED BY <1>2, <1>3 DEF ReportsAreTrue

LEMMA SendsKeepsEnds ==
  ASSUME ToldInv, NEW by \in {"stripe", "owner", "repeat"}, NEW s \in Subs,
         NEW status \in Statuses, NEW isPaused \in BOOLEAN, NEW owed \in BOOLEAN,
         NEW kinds \in Seq(EventKinds), Sends(by, s, status, isPaused, owed, kinds),
         Reports(s, status, isPaused, kinds), Appended(by, s, status, isPaused, owed, kinds)
  PROVE  EndsAreTold'
<1>1. ASSUME NEW r \in Subs, Ended(r)'
      PROVE  \E i \in DOMAIN sent' : sent'[i].sub = r /\ (sent'[i].kind = "deleted" \/ Expiry(i)')
  <2>1. CASE Ended(r)
    <3>1. PICK i \in DOMAIN sent : sent[i].sub = r /\ (sent[i].kind = "deleted" \/ Expiry(i))
      BY <2>1 DEF ToldInv, EndsAreTold
    <3>2. i \in DOMAIN sent' /\ sent'[i] = sent[i]
      BY DEF Appended
    <3> QED BY <3>1, <3>2 DEF Expiry
  <2>2. CASE ~Ended(r)
    <3>1. r = s /\ status \in Irreversible
      BY <1>1, <2>2 DEF Ended, Appended
    <3>2. Len(kinds) = 1 /\ \A k \in DOMAIN kinds : kinds[k] \in {"deleted", "snapshot"}
      BY <2>2, <3>1 DEF Reports
    <3>3. PICK k \in DOMAIN kinds : k = 1
      BY <3>2 DEF Appended
    <3> DEFINE n == k + Len(sent)
    <3>4. n \in DOMAIN sent' \ DOMAIN sent /\ n - Len(sent) = k
      BY DEF Appended
    <3> HIDE DEF n
    <3>5. sent'[n].sub = s /\ sent'[n].status = status /\ sent'[n].kind \in {"deleted", "snapshot"}
      BY <3>2, <3>3, <3>4 DEF Appended
    <3> QED BY <3>1, <3>4, <3>5 DEF Expiry
  <2> QED BY <2>1, <2>2
<1>2. ASSUME NEW i \in DOMAIN sent', Expiry(i)'
      PROVE  /\ ProviderConfirms(sent[i])'
             /\ \A j \in DOMAIN sent' : sent'[j].sub = sent'[i].sub /\ sent'[j].kind # "paid" => j <= i
  <2>1. CASE i \in DOMAIN sent
    <3>1. sent'[i] = sent[i] /\ sent[i].sub \in Subs /\ Expiry(i)
      BY <1>2, <2>1, EventTyped DEF Appended, Expiry, ToldInv, MirrorIInv
    <3>2. /\ ProviderConfirms(sent[i]) /\ Ended(sent[i].sub)
          /\ \A j \in DOMAIN sent : sent[j].sub = sent[i].sub /\ sent[j].kind # "paid" => j <= i
      BY <2>1, <3>1 DEF ToldInv, MirrorIInv, EventsAreTrue, EndsAreTold, Expiry
    <3>3. /\ prov'[sent[i].sub].status = prov[sent[i].sub].status
          /\ prov'[sent[i].sub].paused = prov[sent[i].sub].paused
      BY <3>1, <3>2 DEF Sends, Appended
    <3>4. ASSUME NEW j \in DOMAIN sent' \ DOMAIN sent, sent'[j].sub = sent[i].sub
          PROVE  sent'[j].kind = "paid"
      <4>1. Ended(s)
        BY <3>2, <3>4 DEF Appended
      <4> QED BY <4>1 DEF Sends, Appended
    <3>5. ProviderConfirms(sent[i])'
      BY <3>1, <3>2, <3>3 DEF ProviderConfirms
    <3> QED BY <3>1, <3>2, <3>4, <3>5 DEF Appended
  <2>2. CASE i \notin DOMAIN sent
    <3>1. /\ sent'[i].sub = s /\ sent'[i].status = status /\ sent'[i].paused = isPaused
          /\ i - Len(sent) \in DOMAIN kinds /\ kinds[i - Len(sent)] = "snapshot"
          /\ status \in Irreversible
      BY <1>2, <2>2 DEF Appended, Expiry
    <3>2. ~Ended(s)
      BY <3>1 DEF Sends
    <3>3. Len(kinds) = 1
      BY <3>1, <3>2 DEF Reports
    <3>4. ProviderConfirms(sent[i])'
      BY <3>1 DEF ProviderConfirms, Appended
    <3>5. i \in Nat /\ Len(sent) \in Nat /\ i = Len(sent) + 1
      BY <3>1, <3>3 DEF Appended
    <3>6. ASSUME NEW j \in DOMAIN sent'
          PROVE  j <= i
      <4>1. CASE j \in DOMAIN sent
        BY <2>2, <4>1 DEF Appended
      <4>2. CASE j \notin DOMAIN sent
        <5>1. j - Len(sent) \in 1..1 /\ j \in Nat
          BY <3>3, <4>2 DEF Appended
        <5> QED BY <3>5, <5>1
      <4> QED BY <4>1, <4>2
    <3> QED BY <3>4, <3>6
  <2> QED BY <2>1, <2>2
<1> QED BY <1>1, <1>2 DEF EndsAreTold

LEMMA SendsKeepsRest ==
  ASSUME ToldInv, NEW by \in {"stripe", "owner", "repeat"}, NEW s \in Subs,
         NEW status \in Statuses, NEW isPaused \in BOOLEAN, NEW owed \in BOOLEAN,
         NEW kinds \in Seq(EventKinds), Reports(s, status, isPaused, kinds),
         Appended(by, s, status, isPaused, owed, kinds),
         UNCHANGED <<clock, receipts>>, pause' \in PauseSpace,
         pause'.open <= clock, pause'.closed <= clock,
         mirror' = mirror \/ \E flag \in BOOLEAN : mirror' = [mirror EXCEPT !.paused = flag],
         (mirror' = mirror /\ pause' = pause) \/ Alive(s),
         DeclinesAgain(s, status, isPaused, kinds) => mirror' = mirror /\ pause' = pause
  PROVE  PauseIsRecent' /\ RowFollows' /\ ExpiryIsFinal'
<1>1. ASSUME NEW i \in DOMAIN sent, ToldAlive(i), sent[i].sub # s, Alive(s)
      PROVE  FALSE
  <2>1. sent[i].sub \in Subs /\ Alive(sent[i].sub)
    BY <1>1, EventTyped DEF ToldAlive, ToldInv, MirrorIInv
  <2>2. sent[i].sub < s \/ s < sent[i].sub
    BY <1>1, <2>1 DEF Subs
  <2> QED BY <1>1, <2>1, <2>2 DEF ToldInv, MirrorIInv, OneAfterAnother, Alive, Ended
<1>2. mirror'.attempt = mirror.attempt /\ mirror'.sub = mirror.sub /\ mirror'.fenced = mirror.fenced
      /\ mirror'.status = mirror.status
  BY DEF ToldInv, MirrorIInv, TypeOK, RowSpace
<1>3. receipts \subseteq DOMAIN sent
  BY DEF ToldInv, MirrorIInv, TypeOK
<1>4. PauseIsRecent'
  <2>1. ASSUME NEW i \in DOMAIN sent', ToldAlive(i)'
        PROVE  pause'.open <= sent'[i].at + Lag /\ pause'.closed <= sent'[i].at + Lag
    <3>1. CASE i \in DOMAIN sent /\ sent'[i] = sent[i] /\ sent[i].sub # s /\ ToldAlive(i)
      BY <1>1, <3>1 DEF ToldInv, PauseIsRecent
    <3>2. CASE sent'[i].at = Stamp
      <4>1. Stamp + Lag = clock
        BY MirrorAssumption DEF ToldInv, MirrorIInv, TypeOK, Instants, Stamp
      <4> QED BY <3>2, <4>1
    <3>3. CASE /\ i \in DOMAIN sent /\ sent'[i] = sent[i] /\ ToldAlive(i)
               /\ DeclinesAgain(s, status, isPaused, kinds)
      BY <3>3 DEF ToldInv, PauseIsRecent
    <3> QED BY <2>1, <3>1, <3>2, <3>3, LatestAfterSending
  <2> QED BY <2>1 DEF PauseIsRecent
<1>5. RowFollows'
  <2> SUFFICES ASSUME NEW i \in receipts, ToldAlive(i)'
               PROVE  RowShows(i)'
    BY DEF RowFollows
  <2>1. i \in DOMAIN sent /\ i \in DOMAIN sent'
    BY <1>3 DEF Appended
  <2>2. sent'[i] = sent[i] /\ ToldAlive(i) /\ (sent[i].sub # s \/ DeclinesAgain(s, status, isPaused, kinds))
    BY <2>1, LatestAfterSending
  <2>3. mirror' = mirror
    BY <1>1, <2>1, <2>2
  <2>4. RowShows(i)
    BY <2>2 DEF ToldInv, RowFollows
  <2>5. FailureTold(sent[i].sub) => FailureTold(sent[i].sub)'
    <3>1. \A r \in receipts : sent'[r] = sent[r]
      BY <1>3 DEF Appended
    <3> QED BY <3>1 DEF FailureTold
  <2> QED BY <2>2, <2>3, <2>4, <2>5 DEF RowShows, ShowsDecline, FailureTold
<1>6. ExpiryIsFinal'
  <2>1. \A i \in receipts : sent'[i] = sent[i]
    BY <1>3 DEF Appended
  <2> QED BY <1>2, <2>1 DEF ToldInv, ExpiryIsFinal, Expiry, HasLive
<1> QED BY <1>4, <1>5, <1>6

LEMMA TickTells ==
  ASSUME ToldInv, Tick
  PROVE  ToldInv'
<1>1. MirrorIInv'
  BY TickKeeps DEF ToldInv
<1>2. UNCHANGED <<prov, sent, receipts, mirror, pause>> /\ clock' = clock + 1
  BY DEF Tick
<1>3. clock \in Nat /\ pause.open \in Int /\ pause.closed \in Int
  BY MirrorAssumption DEF ToldInv, MirrorIInv, TypeOK, Instants, PauseSpace, Null
<1>4. ReportsAreTrue' /\ EndsAreTold'
  BY <1>2 DEF ToldInv, ReportsAreTrue, AddsNothing, EndsAreTold, ToldAlive, Latest, Expiry, Alive,
              Ended, ProviderConfirms
<1>5. PauseIsRecent'
  BY <1>2, <1>3 DEF ToldInv, PauseIsRecent, ToldAlive, Latest, Alive
<1>6. RowFollows' /\ ExpiryIsFinal'
  BY <1>2 DEF ToldInv, RowFollows, RowShows, ShowsDecline, FailureTold, ExpiryIsFinal, ToldAlive,
              Latest, Expiry, Alive, HasLive
<1> QED BY <1>1, <1>4, <1>5, <1>6 DEF ToldInv

LEMMA ProviderTells ==
  ASSUME ToldInv, Provider
  PROVE  ToldInv'
<1>1. PICK s \in Subs, status \in Statuses, isPaused \in BOOLEAN, owed \in BOOLEAN,
           kinds \in Seq(EventKinds) :
        Sends("stripe", s, status, isPaused, owed, kinds) /\ Reports(s, status, isPaused, kinds)
  BY ProviderSends DEF ToldInv, MirrorIInv
<1>2. UNCHANGED <<clock, receipts, mirror, pause, minted>>
  BY DEF Provider
<1>3. Appended("stripe", s, status, isPaused, owed, kinds)
  BY <1>1, SendsAppended DEF ToldInv, MirrorIInv
<1>4. ReportsAreTrue'
  BY <1>1, <1>3, SendsKeepsReports
<1>5. EndsAreTold'
  BY <1>1, <1>3, SendsKeepsEnds
<1>6. /\ pause' \in PauseSpace /\ pause'.open <= clock /\ pause'.closed <= clock
      /\ mirror' = mirror /\ pause' = pause /\ UNCHANGED <<clock, receipts>>
  BY <1>2 DEF ToldInv, MirrorIInv, TypeOK, PauseIsRecent
<1>7. PauseIsRecent' /\ RowFollows' /\ ExpiryIsFinal'
  BY <1>1, <1>3, <1>6, SendsKeepsRest
<1> QED BY <1>4, <1>5, <1>7, ProviderKeeps DEF ToldInv

LEMMA OwnerTells ==
  ASSUME ToldInv, Owner
  PROVE  ToldInv'
<1>1. CASE \E s \in Subs : OwnerPause(s) \/ OwnerResume(s)
  <2>1. PICK s \in Subs : OwnerPause(s) \/ OwnerResume(s)
    BY <1>1
  <2>2. PICK by \in {"owner", "repeat"}, isPaused \in BOOLEAN :
          EmitBy(by, s, prov[s].status, isPaused, prov[s].owed, <<"snapshot">>)
    BY <2>1 DEF OwnerPause, OwnerResume
  <2>3. PICK kinds \in Seq(EventKinds) :
          /\ kinds = <<"snapshot">> /\ kinds # <<>> /\ Len(kinds) = 1
          /\ 1 \in DOMAIN kinds /\ \A k \in DOMAIN kinds : k = 1 /\ kinds[k] = "snapshot"
    <3>1. <<"snapshot">> \in Seq(EventKinds)
      BY DEF EventKinds
    <3>2. /\ <<"snapshot">> # <<>> /\ Len(<<"snapshot">>) = 1 /\ 1 \in DOMAIN <<"snapshot">>
          /\ \A k \in DOMAIN <<"snapshot">> : k = 1 /\ <<"snapshot">>[k] = "snapshot"
      OBVIOUS
    <3> QED BY <3>1, <3>2, Zenon
  <2>4. prov[s].status \in {"active", "past_due", "unpaid"} /\ prov[s].owed \in BOOLEAN
    BY <2>1 DEF OwnerPause, OwnerResume, ToldInv, MirrorIInv, TypeOK, ProvSpace
  <2>5. prov[s].status \in Statuses /\ prov[s].status \notin Irreversible /\ Alive(s) /\ ~Ended(s)
    BY <2>4 DEF Statuses, Terminal, Irreversible, Alive, Ended
  <2>6. Sends(by, s, prov[s].status, isPaused, prov[s].owed, kinds)
    BY <2>2, <2>3, <2>4, <2>5 DEF Sends
  <2>7. /\ Reports(s, prov[s].status, isPaused, kinds)
        /\ ~DeclinesAgain(s, prov[s].status, isPaused, kinds)
    BY <2>3, <2>4, <2>5 DEF Reports, ReportsAlive, DeclinesAgain
  <2>8. Appended(by, s, prov[s].status, isPaused, prov[s].owed, kinds)
    BY <2>4, <2>5, <2>6, SendsAppended DEF ToldInv, MirrorIInv
  <2>9. PauseStarted(Null) \in PauseSpace /\ PauseEnded(Null) \in PauseSpace
    BY PauseTyped DEF ToldInv, MirrorIInv
  <2>10. /\ pause' = PauseStarted(Null) \/ pause' = PauseEnded(Null)
         /\ \E flag \in BOOLEAN : mirror' = [mirror EXCEPT !.paused = flag]
         /\ UNCHANGED <<clock, receipts>>
    <3>1. mirror.paused \in BOOLEAN
      BY DEF ToldInv, MirrorIInv, TypeOK, RowSpace
    <3>2. FlagStarted(PauseStarted(Null)) \in BOOLEAN /\ FlagEnded(PauseEnded(Null)) \in BOOLEAN
      BY <3>1 DEF FlagStarted, FlagEnded
    <3> QED BY <2>1, <3>2 DEF OwnerPause, OwnerResume
  <2>11. pause' \in PauseSpace /\ pause'.open <= clock /\ pause'.closed <= clock
    <3>1. /\ clock \in Nat /\ Null = -1 /\ pause \in PauseSpace
          /\ pause.open <= clock /\ pause.closed <= clock
      BY MirrorAssumption DEF ToldInv, MirrorIInv, TypeOK, Instants, Null, PauseIsRecent
    <3>2. PauseStarted(Null).open <= clock /\ PauseStarted(Null).closed <= clock
      BY <3>1 DEF PauseStarted, PauseSpace
    <3>3. PauseEnded(Null).open <= clock /\ PauseEnded(Null).closed <= clock
      BY <3>1 DEF PauseEnded, PauseSpace
    <3> QED BY <2>9, <2>10, <3>2, <3>3
  <2>12. ReportsAreTrue'
    BY <2>4, <2>5, <2>6, <2>7, <2>8, SendsKeepsReports
  <2>13. EndsAreTold'
    BY <2>4, <2>5, <2>6, <2>7, <2>8, SendsKeepsEnds
  <2>14. PauseIsRecent' /\ RowFollows' /\ ExpiryIsFinal'
    BY <2>4, <2>5, <2>7, <2>8, <2>10, <2>11, SendsKeepsRest
  <2> QED BY <2>12, <2>13, <2>14, OwnerKeeps DEF ToldInv
<1>2. CASE \E s \in Subs : Reserve(s)
  <2>1. PICK s \in Subs : Reserve(s)
    BY <1>2
  <2>2. /\ ~HasLive(mirror) /\ prov[s].status = "none"
        /\ UNCHANGED <<clock, prov, sent, receipts, pause>>
        /\ mirror'.attempt = s /\ mirror'.fenced
    BY <2>1 DEF Reserve, MayReserve, ToldInv, MirrorIInv, TypeOK, RowSpace
  <2>3. ReportsAreTrue' /\ EndsAreTold' /\ PauseIsRecent'
    BY <2>2 DEF ToldInv, ReportsAreTrue, AddsNothing, EndsAreTold, PauseIsRecent, ToldAlive, Latest,
                Expiry, Alive, Ended, ProviderConfirms
  <2>4. ASSUME NEW i \in receipts, ToldAlive(i)
        PROVE  FALSE
    <3>1. i \in DOMAIN sent
      BY DEF ToldInv, MirrorIInv, TypeOK
    <3>2. /\ ~mirror.fenced /\ mirror.sub \in Subs
          /\ mirror.status \in {sent[i].status, "past_due"}
      BY <2>4 DEF ToldInv, RowFollows, RowShows, ShowsDecline, MirrorIInv, RowShape
    <3>3. sent[i].status \notin Irreversible
      BY <2>4, <3>1 DEF ToldInv, ReportsAreTrue, ProviderConfirms, ToldAlive, Alive
    <3> QED BY <2>2, <3>2, <3>3 DEF HasLive, Irreversible
  <2>5. RowFollows'
    <3>1. \A i \in receipts : ToldAlive(i)' <=> ToldAlive(i)
      BY <2>2 DEF ToldAlive, Latest, Alive
    <3> QED BY <2>2, <2>4, <3>1 DEF RowFollows
  <2>6. ExpiryIsFinal'
    <3>1. ASSUME NEW i \in receipts
          PROVE  sent[i].sub # s
      BY <2>2 DEF ToldInv, MirrorIInv, TypeOK, EventsAreTrue
    <3> QED BY <2>2, <3>1 DEF ExpiryIsFinal, Expiry, HasLive
  <2> QED BY <2>3, <2>5, <2>6, OwnerKeeps DEF ToldInv
<1> QED BY <1>1, <1>2 DEF Owner

-----------------------------------------------------------------------------
(* The row is of the subscription that is alive.                           *)
LEMMA AliveIsShown ==
  ASSUME ToldInv, NEW i \in DOMAIN sent, ToldAlive(i)
  PROVE  IF mirror.fenced THEN mirror.attempt = sent[i].sub ELSE mirror.sub = sent[i].sub
<1>1. sent[i].sub \in Subs /\ Alive(sent[i].sub)
  BY EventTyped DEF ToldAlive, ToldInv, MirrorIInv
<1> QED BY <1>1 DEF ToldInv, MirrorIInv, OneAfterAnother

(* The latest report of what is alive is not turned away.                  *)
LEMMA LatestIsHeard ==
  ASSUME ToldInv, NEW i \in DOMAIN sent, ToldAlive(i)
  PROVE  ~SnapshotIgnored(sent[i])
<1> DEFINE e == sent[i]
<1>1. /\ e.at \in Int /\ mirror.seen \in Int /\ e.sub \in Subs /\ e.sub # Null
      /\ Alive(e.sub) /\ ProviderConfirms(e)
  BY EventTyped, MirrorAssumption
     DEF ToldAlive, ToldInv, MirrorIInv, TypeOK, RowSpace, Stamps, Subs, Null, ReportsAreTrue
<1>2. ~Stale(e)
  <2>1. CASE mirror.fenced
    <3>1. mirror.seen < e.at
      BY <2>1, AliveIsShown, AwaitedIsNews DEF ToldInv
    <3> QED BY <1>1, <3>1 DEF Stale
  <2>2. CASE ~mirror.fenced
    <3>1. mirror.sub = e.sub
      BY <2>2, AliveIsShown
    <3>2. PICK j \in DOMAIN sent :
            sent[j].kind # "failed" /\ sent[j].at = mirror.seen /\ sent[j].sub = mirror.sub
      BY <2>2 DEF ToldInv, MirrorIInv, SeenIsTold
    <3>3. sent[j].at <= e.at
      BY <3>1, <3>2 DEF ToldInv, ReportsAreTrue, AddsNothing
    <3> QED BY <1>1, <3>2, <3>3 DEF Stale
  <2> QED BY <2>1, <2>2
<1>3. ~(mirror.fenced /\ e.sub = mirror.fenceSub)
  BY <1>1, AliveIsShown DEF ToldInv, MirrorIInv, RowShape
<1>4. ~(mirror.status \in Irreversible /\ mirror.sub = e.sub)
  BY <1>1 DEF ToldInv, MirrorIInv, RowShape, Alive, Ended, Irreversible
<1> QED BY <1>1, <1>2, <1>3, <1>4 DEF SnapshotIgnored

(* An expiry is not turned away from a row that waits for the subscription *)
(* or shows it alive.                                                      *)
LEMMA ExpiryIsHeard ==
  ASSUME ToldInv, NEW i \in DOMAIN sent, Expiry(i), SnapshotIgnored(sent[i])
  PROVE  mirror.attempt # sent[i].sub /\ ~(HasLive(mirror) /\ mirror.sub = sent[i].sub)
<1> DEFINE e == sent[i]
<1>1. /\ e.at \in Int /\ mirror.seen \in Int /\ e.sub \in Subs /\ e.sub # Null
      /\ ProviderConfirms(e) /\ e.status \in Irreversible
  BY EventTyped, MirrorAssumption
     DEF Expiry, ToldInv, MirrorIInv, TypeOK, RowSpace, Stamps, Subs, Null, EndsAreTold
<1>2. Stale(e) \/ (mirror.fenced /\ e.sub = mirror.fenceSub)
  BY <1>1 DEF SnapshotIgnored
<1>3. mirror.attempt # e.sub
  <2> SUFFICES ASSUME mirror.attempt = e.sub
               PROVE  FALSE
    OBVIOUS
  <2>1. mirror.seen < e.at
    BY AwaitedIsNews DEF ToldInv
  <2>2. ~Stale(e)
    BY <1>1, <2>1 DEF Stale
  <2> QED BY <1>1, <1>2, <2>2 DEF ToldInv, MirrorIInv, RowShape
<1>4. ASSUME HasLive(mirror), mirror.sub = e.sub
      PROVE  FALSE
  <2>1. ~mirror.fenced /\ Stale(e)
    BY <1>2, <1>4 DEF HasLive
  <2>2. PICK j \in DOMAIN sent :
          sent[j].kind # "paid" /\ sent[j].at = mirror.seen /\ sent[j].sub = mirror.sub
    BY <2>1 DEF ToldInv, MirrorIInv, SeenIsTold
  <2>3. j <= i
    BY <1>4, <2>2 DEF ToldInv, EndsAreTold
  <2>4. i \in Nat /\ j \in Nat /\ sent[j].at \in Int
    BY EventTyped DEF ToldInv, MirrorIInv, Stamps
  <2>5. sent[j].at <= e.at
    BY <1>1, <2>3, <2>4 DEF ToldInv, MirrorIInv, EventsInOrder
  <2> QED BY <1>1, <2>1, <2>2, <2>5 DEF Stale
<1> QED BY <1>3, <1>4

(* What no handler changes.                                                *)
LEMMA HandlerKeepsTold ==
  ASSUME ToldInv, UNCHANGED <<clock, prov, sent>>
  PROVE  /\ ReportsAreTrue' /\ EndsAreTold'
         /\ \A i \in DOMAIN sent : (ToldAlive(i)' <=> ToldAlive(i)) /\ (Expiry(i)' <=> Expiry(i))
<1>1. ReportsAreTrue' /\ EndsAreTold'
  BY DEF ToldInv, ReportsAreTrue, AddsNothing, EndsAreTold, ToldAlive, Latest, Expiry, Alive, Ended,
         ProviderConfirms
<1>2. \A i \in DOMAIN sent : (ToldAlive(i)' <=> ToldAlive(i)) /\ (Expiry(i)' <=> Expiry(i))
  BY DEF ToldAlive, Latest, Expiry, Alive
<1> QED BY <1>1, <1>2

(* A receipt takes nothing back.                                           *)
LEMMA ReceiptsKeepShown ==
  ASSUME ToldInv, NEW i \in DOMAIN sent, receipts' = receipts \cup {i}, sent' = sent,
         NEW r \in receipts, RowShows(r), mirror'.status = mirror.status,
         ~mirror.fenced => mirror'.sub = mirror.sub /\ ~mirror'.fenced,
         mirror'.seen = mirror.seen, mirror'.paused = mirror.paused
  PROVE  RowShows(r)'
<1>1. \A s : FailureTold(s) => FailureTold(s)'
  BY DEF FailureTold
<1> QED BY <1>1 DEF RowShows, ShowsDecline, FailureTold

LEMMA IgnoreTells ==
  ASSUME ToldInv, NEW i \in DOMAIN sent, Ignore(i),
         sent[i].kind = "snapshot" => SnapshotIgnored(sent[i]), MirrorIInv'
  PROVE  ToldInv'
<1>1. UNCHANGED <<clock, prov, sent, mirror, pause>> /\ receipts' = receipts \cup {i}
  BY DEF Ignore, Settle
<1>2. /\ ReportsAreTrue' /\ EndsAreTold' /\ receipts \subseteq DOMAIN sent
      /\ \A r \in DOMAIN sent : (ToldAlive(r)' <=> ToldAlive(r)) /\ (Expiry(r)' <=> Expiry(r))
  BY <1>1, HandlerKeepsTold DEF ToldInv, MirrorIInv, TypeOK
<1>3. PauseIsRecent'
  BY <1>1, <1>2 DEF ToldInv, PauseIsRecent
<1>4. ~ToldAlive(i)
  BY LatestIsHeard DEF ToldAlive, Latest
<1>5. RowFollows'
  <2>1. \A r \in receipts : RowShows(r) => RowShows(r)'
    BY <1>1, ReceiptsKeepShown
  <2> QED BY <1>1, <1>2, <1>4, <2>1 DEF ToldInv, RowFollows
<1>6. Expiry(i) => mirror.attempt # sent[i].sub /\ ~(HasLive(mirror) /\ mirror.sub = sent[i].sub)
  BY ExpiryIsHeard DEF Expiry
<1>7. ExpiryIsFinal'
  BY <1>1, <1>2, <1>6 DEF ToldInv, ExpiryIsFinal
<1> QED BY <1>2, <1>3, <1>5, <1>7 DEF ToldInv

(* What the event i declines of the latest report r.                       *)
Declines(i, r) ==
  /\ sent[i].kind = "failed" /\ sent[i].sub = sent[r].sub /\ sent[r].status = "incomplete"
  /\ mirror'.status = "past_due"

LEMMA SameDoorTells ==
  ASSUME ToldInv, NEW i \in DOMAIN sent, SameDoor(i), sent[i].kind # "snapshot",
         \A r \in receipts : ToldAlive(r) => mirror'.status = mirror.status \/ Declines(i, r)
  PROVE  ToldInv'
<1> USE DEF SameDoor
<1>1. UNCHANGED <<clock, prov, sent>> /\ receipts' = receipts \cup {i}
  BY DEF Settle
<1>2. /\ ReportsAreTrue' /\ EndsAreTold' /\ receipts \subseteq DOMAIN sent
      /\ \A r \in DOMAIN sent : (ToldAlive(r)' <=> ToldAlive(r)) /\ (Expiry(r)' <=> Expiry(r))
  BY <1>1, HandlerKeepsTold DEF ToldInv, MirrorIInv, TypeOK
<1>3. PauseIsRecent'
  BY <1>1, <1>2 DEF ToldInv, PauseIsRecent
<1>4. ~ToldAlive(i) /\ ~Expiry(i)
  BY DEF ToldAlive, Latest, Expiry
<1>5. RowFollows'
  <2>1. ASSUME NEW r \in receipts, ToldAlive(r)
        PROVE  RowShows(r)'
    <3>1. RowShows(r)
      BY <2>1 DEF ToldInv, RowFollows
    <3>2. CASE mirror'.status = mirror.status
      BY <1>1, <3>1, <3>2, ReceiptsKeepShown
    <3>3. CASE Declines(i, r)
      <4>1. FailureTold(sent[r].sub)'
        BY <1>1, <3>3 DEF FailureTold, Declines
      <4> QED BY <1>1, <3>1, <3>3, <4>1 DEF RowShows, ShowsDecline, FailureTold, Declines
    <3> QED BY <2>1, <3>2, <3>3
  <2> QED BY <1>1, <1>2, <1>4, <2>1 DEF RowFollows
<1>6. HasLive(mirror') => HasLive(mirror) /\ mirror'.sub = mirror.sub
  BY DEF HasLive
<1>7. ExpiryIsFinal'
  BY <1>1, <1>2, <1>4, <1>6 DEF ToldInv, ExpiryIsFinal
<1>8. MirrorIInv'
  BY SameDoorKeeps DEF ToldInv
<1> QED BY <1>2, <1>3, <1>5, <1>7, <1>8 DEF ToldInv

LEMMA CheckoutTells ==
  ASSUME ToldInv, NEW i \in DOMAIN sent, HandleCheckout(i)
  PROVE  ToldInv'
<1>1. sent[i].kind = "checkout" /\ MirrorIInv'
  BY CheckoutKeeps DEF HandleCheckout, ToldInv
<1>2. Ignore(i) \/ (SameDoor(i) /\ mirror'.status = mirror.status)
  BY CheckoutOpensNoDoor DEF ToldInv
<1>3. CASE Ignore(i)
  BY <1>1, <1>3, IgnoreTells
<1>4. CASE SameDoor(i) /\ mirror'.status = mirror.status
  BY <1>1, <1>4, SameDoorTells
<1> QED BY <1>2, <1>3, <1>4

(* A payment or a failure of what the row was told alive last: it is older *)
(* than that, or says the same, or is the decline of what is incomplete.   *)
LEMMA InvoiceIsOld ==
  ASSUME ToldInv, NEW i \in DOMAIN sent, NEW r \in receipts, ToldAlive(r),
         ~mirror.fenced => mirror.sub = sent[i].sub, ~Stale(sent[i])
  PROVE  /\ ~mirror.fenced /\ sent[i].sub = sent[r].sub
         /\ sent[i].kind = "paid" => mirror.status = "active"
         /\ sent[i].kind = "failed" =>
              mirror.status \in {"past_due", "unpaid"} \/ sent[r].status = "incomplete"
<1>1. r \in DOMAIN sent
  BY DEF ToldInv, MirrorIInv, TypeOK
<1>2. /\ ~mirror.fenced /\ mirror.sub = sent[r].sub /\ mirror.seen = sent[r].at
      /\ mirror.status = sent[r].status \/ sent[r].status = "incomplete"
  BY DEF ToldInv, RowFollows, RowShows, ShowsDecline
<1>3. sent[i].sub = sent[r].sub /\ AddsNothing(r, i)
  BY <1>1, <1>2 DEF ToldInv, ReportsAreTrue
<1>4. sent[i].at \in Int /\ sent[r].at \in Int
  BY <1>1, EventTyped DEF ToldInv, MirrorIInv, Stamps
<1>5. sent[i].at >= sent[r].at
  BY <1>2, <1>4 DEF Stale
<1> QED BY <1>2, <1>3, <1>4, <1>5 DEF AddsNothing

LEMMA PaidTells ==
  ASSUME ToldInv, NEW i \in DOMAIN sent, HandlePaid(i)
  PROVE  ToldInv'
<1>1. sent[i].kind = "paid" /\ BoundTo(sent[i]) /\ SameDoor(i)
  BY PaidOpensNoDoor DEF HandlePaid, ToldInv
<1>2. ASSUME NEW r \in receipts, ToldAlive(r)
      PROVE  mirror'.status = mirror.status
  <2>1. ~mirror.fenced
    BY <1>2 DEF ToldInv, RowFollows, RowShows
  <2>2. mirror.sub = sent[i].sub /\ ~Advances(sent[i]) /\ ~Retained(sent[i])
    BY <1>1, <2>1 DEF BoundTo, Advances, Retained
  <2>3. mirror' = mirror \/ (mirror' = PaidEndsGrace(sent[i]) /\ ~Stale(sent[i]))
    BY <2>2 DEF HandlePaid, PaidEndsGrace
  <2>4. CASE mirror' = PaidEndsGrace(sent[i]) /\ ~Stale(sent[i])
    <3>1. mirror.status = "active"
      BY <1>1, <1>2, <2>2, <2>4, InvoiceIsOld
    <3>2. mirror \in RowSpace
      BY DEF ToldInv, MirrorIInv, TypeOK
    <3> QED BY <2>4, <3>1, <3>2 DEF PaidEndsGrace, RowSpace
  <2> QED BY <2>3, <2>4
<1> QED BY <1>1, <1>2, SameDoorTells

LEMMA FailedTells ==
  ASSUME ToldInv, NEW i \in DOMAIN sent, HandleFailed(i)
  PROVE  ToldInv'
<1>1. sent[i].kind = "failed" /\ MirrorIInv'
  BY FailedKeeps DEF HandleFailed, ToldInv
<1>2. \/ Ignore(i)
      \/ SameDoor(i) /\ ~FailureIgnored(sent[i]) /\ mirror'.status = "past_due"
  BY FailedOpensNoDoor DEF ToldInv
<1>3. CASE Ignore(i)
  BY <1>1, <1>3, IgnoreTells
<1>4. CASE SameDoor(i) /\ ~FailureIgnored(sent[i]) /\ mirror'.status = "past_due"
  <2>1. ASSUME NEW r \in receipts, ToldAlive(r)
        PROVE  mirror'.status = mirror.status \/ Declines(i, r)
    <3>1. mirror.sub = sent[i].sub /\ ~Stale(sent[i]) /\ mirror.status # "unpaid"
      BY <1>4 DEF FailureIgnored, Terminal
    <3>2. /\ sent[i].sub = sent[r].sub
          /\ mirror.status \in {"past_due", "unpaid"} \/ sent[r].status = "incomplete"
      BY <1>1, <2>1, <3>1, InvoiceIsOld
    <3> QED BY <1>1, <1>4, <3>1, <3>2 DEF Declines
  <2> QED BY <1>1, <1>4, <2>1, SameDoorTells
<1> QED BY <1>2, <1>3, <1>4

(* A report no further from the pause than the lag decides it.             *)
LEMMA RecentReportDecides ==
  ASSUME TypeOK, NEW known \in Stamps, pause.open <= known + Lag, pause.closed <= known + Lag
  PROVE  PauseStarted(known).open # Null /\ PauseEnded(known).open = Null
<1>1. /\ pause = [open |-> pause.open, closed |-> pause.closed] /\ Null = -1
      /\ pause.open \in Int /\ pause.closed \in Int /\ known \in Nat
      /\ Skew \in Nat /\ Lag \in Nat /\ Lag <= Skew
  BY MirrorAssumption DEF TypeOK, Stamps, PauseSpace, Null
<1>2. ~(pause.closed - known > Skew) /\ ~(pause.open - known > Skew) /\ known # Null
  BY <1>1
<1> QED BY <1>1, <1>2 DEF PauseStarted, PauseEnded

LEMMA SnapshotTells ==
  ASSUME ToldInv, NEW i \in DOMAIN sent, HandleSnapshot(i)
  PROVE  ToldInv'
<1> DEFINE e == sent[i]
<1>1. /\ e.kind = "snapshot" /\ e.sub \in Subs /\ e.at \in Stamps /\ e.status \in Statuses
      /\ e.sub # Null /\ e.paused \in BOOLEAN /\ MirrorIInv'
  BY EventTyped, SnapshotKeeps, MirrorAssumption DEF HandleSnapshot, ToldInv, MirrorIInv, Subs, Null
<1>2. CASE SnapshotIgnored(e)
  BY <1>1, <1>2, IgnoreTells DEF HandleSnapshot
<1>3. CASE ~SnapshotIgnored(e)
  <2>1. SnapshotTakes(e) /\ Settle(i)
    BY <1>3, SnapshotTaken DEF ToldInv
  <2>2. UNCHANGED <<clock, prov, sent>> /\ receipts' = receipts \cup {i}
    BY <2>1 DEF SnapshotTakes, Settle
  <2>3. /\ ReportsAreTrue' /\ EndsAreTold' /\ receipts \subseteq DOMAIN sent
        /\ \A r \in DOMAIN sent : (ToldAlive(r)' <=> ToldAlive(r)) /\ (Expiry(r)' <=> Expiry(r))
    BY <2>2, HandlerKeepsTold DEF ToldInv, MirrorIInv, TypeOK
  <2>4. /\ mirror'.sub = e.sub /\ mirror'.status = e.status /\ mirror'.seen = e.at
        /\ mirror'.paused <=> pause'.open # Null
        /\ ~mirror'.fenced /\ mirror'.attempt = Null /\ mirror'.paused \in BOOLEAN
        /\ IF mirror.fenced THEN mirror.attempt = e.sub ELSE mirror.sub = e.sub
        /\ pause' = IF e.paused /\ e.status \notin Irreversible
                    THEN PauseStarted(e.at) ELSE PauseEnded(e.at)
    BY <2>1 DEF SnapshotTakes, RowSpace
  <2>5. ASSUME NEW r \in DOMAIN sent, ToldAlive(r)
        PROVE  sent[r].sub = e.sub /\ e.at <= sent[r].at
    <3>1. sent[r].sub = e.sub
      BY <2>4, <2>5, AliveIsShown
    <3> QED BY <1>1, <2>5, <3>1 DEF ToldInv, ReportsAreTrue, AddsNothing
  <2>6. PauseIsRecent'
    <3>1. /\ pause = [open |-> pause.open, closed |-> pause.closed] /\ Null = -1
          /\ pause.open \in Int /\ pause.closed \in Int /\ Lag \in Nat /\ clock \in Nat
          /\ e.at \in Nat /\ e.at <= clock
      BY <1>1, MirrorAssumption
         DEF ToldInv, MirrorIInv, TypeOK, Stamps, Instants, PauseSpace, Null, EventsAreTrue, Stamp
    <3>2. /\ pause'.open \in {pause.open, e.at, -1}
          /\ pause'.closed \in {pause.closed, e.at}
      BY <2>4, <3>1 DEF PauseStarted, PauseEnded
    <3>3. pause'.open <= clock /\ pause'.closed <= clock
      BY <3>1, <3>2 DEF ToldInv, PauseIsRecent
    <3>4. ASSUME NEW r \in DOMAIN sent, ToldAlive(r)
          PROVE  pause'.open <= sent[r].at + Lag /\ pause'.closed <= sent[r].at + Lag
      <4>1. e.at <= sent[r].at /\ sent[r].at \in Nat
        BY <2>5, <3>4, EventTyped, MirrorAssumption DEF ToldInv, MirrorIInv, Stamps
      <4>2. pause.open <= sent[r].at + Lag /\ pause.closed <= sent[r].at + Lag
        BY <3>4 DEF ToldInv, PauseIsRecent
      <4> QED BY <3>1, <3>2, <4>1, <4>2
    <3> QED BY <2>2, <2>3, <3>3, <3>4 DEF PauseIsRecent
  <2>7. ASSUME NEW r \in receipts', ToldAlive(r)
        PROVE  e.at = sent[r].at /\ e.status = sent[r].status /\ e.paused = sent[r].paused
    <3>1. CASE r = i
      BY <3>1
    <3>2. CASE r # i
      <4>1. r \in receipts /\ r \in DOMAIN sent
        BY <2>2, <2>3, <2>7, <3>2
      <4>2. /\ ~mirror.fenced /\ mirror.sub = sent[r].sub /\ mirror.seen = sent[r].at
            /\ mirror.status = sent[r].status \/ (sent[r].status = "incomplete" /\ mirror.status = "past_due")
            /\ mirror.paused = sent[r].paused
        BY <2>7, <4>1 DEF ToldInv, RowFollows, RowShows, ShowsDecline
      <4>3. sent[r].sub = e.sub /\ e.at <= sent[r].at /\ sent[r].at \in Int /\ e.at \in Int
        BY <1>1, <2>5, <2>7, <4>1, EventTyped DEF ToldInv, MirrorIInv, Stamps
      <4>4. e.at = sent[r].at
        BY <1>3, <4>2, <4>3 DEF SnapshotIgnored, Stale
      <4>5. MirrorMatches(e) \/ ProviderConfirms(e)
        BY <1>3, <4>2, <4>3, <4>4 DEF SnapshotIgnored
      <4>6. /\ ProviderConfirms(sent[r])
            /\ sent[r].status = "incomplete" => e.status = "incomplete"
        BY <2>7, <4>1, <4>3 DEF ToldInv, ReportsAreTrue, AddsNothing
      <4> QED BY <4>2, <4>3, <4>4, <4>5, <4>6 DEF MirrorMatches, ProviderConfirms
    <3> QED BY <3>1, <3>2
  <2>8. RowFollows'
    <3>1. ASSUME NEW r \in receipts', ToldAlive(r)
          PROVE  /\ ~mirror'.fenced /\ mirror'.sub = sent[r].sub /\ mirror'.seen = sent[r].at
                 /\ mirror'.status = sent[r].status /\ mirror'.paused = sent[r].paused
      <4>1. r \in DOMAIN sent
        BY <2>2, <2>3
      <4>2. /\ sent[r].sub = e.sub /\ e.at = sent[r].at /\ e.status = sent[r].status
            /\ e.paused = sent[r].paused
        BY <2>5, <2>7, <3>1, <4>1
      <4>3. e.status \notin Irreversible
        BY <3>1, <4>1, <4>2 DEF ToldInv, ReportsAreTrue, ProviderConfirms, ToldAlive, Alive
      <4>4. pause.open <= e.at + Lag /\ pause.closed <= e.at + Lag
        BY <3>1, <4>1, <4>2 DEF ToldInv, PauseIsRecent
      <4>5. PauseStarted(e.at).open # Null /\ PauseEnded(e.at).open = Null
        BY <1>1, <4>4, RecentReportDecides DEF ToldInv, MirrorIInv
      <4>6. mirror'.paused = e.paused
        BY <1>1, <2>4, <4>3, <4>5
      <4> QED BY <2>4, <4>2, <4>6
    <3> QED BY <2>2, <2>3, <3>1 DEF RowFollows, RowShows
  <2>9. ExpiryIsFinal'
    <3>1. ASSUME NEW r \in receipts', Expiry(r), HasLive(mirror'), e.sub = sent[r].sub
          PROVE  FALSE
      <4>1. e.status \notin Irreversible
        BY <2>4, <3>1 DEF HasLive
      <4>2. r \in receipts
        BY <2>2, <3>1, <4>1 DEF Expiry
      <4>3. mirror.attempt # e.sub /\ ~(HasLive(mirror) /\ mirror.sub = e.sub)
        BY <3>1, <4>2 DEF ToldInv, ExpiryIsFinal
      <4>4. ~mirror.fenced /\ mirror.sub = e.sub /\ mirror.status \in Irreversible
        BY <1>1, <2>4, <4>3 DEF HasLive
      <4> QED BY <1>3, <4>1, <4>4 DEF SnapshotIgnored
    <3>2. ASSUME NEW r \in receipts'
          PROVE  sent[r].sub # Null
      BY <2>2, <2>3, EventTyped, MirrorAssumption DEF ToldInv, MirrorIInv, Subs, Null
    <3> QED BY <2>2, <2>3, <2>4, <3>1, <3>2 DEF ExpiryIsFinal
  <2> QED BY <1>1, <2>3, <2>6, <2>8, <2>9 DEF ToldInv
<1> QED BY <1>2, <1>3

LEMMA DeletedTells ==
  ASSUME ToldInv, NEW i \in DOMAIN sent, HandleDeleted(i)
  PROVE  ToldInv'
<1> DEFINE e == sent[i]
<1>1. e.kind = "deleted" /\ MirrorIInv'
  BY DeletedKeeps DEF HandleDeleted, ToldInv
<1>2. CASE DeletionIgnored(e)
  BY <1>1, <1>2, IgnoreTells DEF HandleDeleted
<1>3. CASE ~DeletionIgnored(e)
  <2>1. DeletionTakes(e) /\ Settle(i)
    BY <1>3, DeletionTaken DEF ToldInv
  <2>2. UNCHANGED <<clock, prov, sent>> /\ receipts' = receipts \cup {i} /\ pause' = PauseEnded(Null)
    BY <2>1 DEF DeletionTakes, Settle
  <2>3. /\ ReportsAreTrue' /\ EndsAreTold' /\ receipts \subseteq DOMAIN sent
        /\ \A r \in DOMAIN sent : (ToldAlive(r)' <=> ToldAlive(r)) /\ (Expiry(r)' <=> Expiry(r))
    BY <2>2, HandlerKeepsTold DEF ToldInv, MirrorIInv, TypeOK
  <2>4. \A r \in DOMAIN sent : ~ToldAlive(r)
    <3>1. ASSUME NEW r \in DOMAIN sent, ToldAlive(r)
          PROVE  FALSE
      <4>1. sent[r].sub = e.sub
        BY <2>1, <3>1, AliveIsShown DEF DeletionTakes
      <4> QED BY <2>1, <3>1, <4>1 DEF DeletionTakes, ToldAlive, Alive, Ended
    <3> QED BY <3>1
  <2>5. PauseIsRecent'
    <3>1. /\ clock \in Nat /\ Null = -1 /\ pause \in PauseSpace
          /\ pause.open <= clock /\ pause.closed <= clock
      BY MirrorAssumption DEF ToldInv, MirrorIInv, TypeOK, Instants, Null, PauseIsRecent
    <3>2. pause'.open <= clock /\ pause'.closed <= clock
      BY <2>2, <3>1 DEF PauseEnded, PauseSpace
    <3> QED BY <2>2, <2>3, <2>4, <3>2 DEF PauseIsRecent
  <2>6. RowFollows'
    BY <2>2, <2>3, <2>4 DEF RowFollows
  <2>7. ~HasLive(mirror') /\ mirror'.attempt = Null
    BY <2>1 DEF DeletionTakes, HasLive, Irreversible
  <2>8. ExpiryIsFinal'
    <3>1. ASSUME NEW r \in receipts'
          PROVE  sent[r].sub # Null
      BY <2>2, <2>3, EventTyped, MirrorAssumption DEF ToldInv, MirrorIInv, Subs, Null
    <3> QED BY <2>2, <2>7, <3>1 DEF ExpiryIsFinal
  <2> QED BY <1>1, <2>3, <2>5, <2>6, <2>8 DEF ToldInv
<1> QED BY <1>2, <1>3

LEMMA StepTells == ToldInv /\ [Next]_vars => ToldInv'
<1> SUFFICES ASSUME ToldInv, [Next]_vars
             PROVE  ToldInv'
  OBVIOUS
<1>1. CASE Webhook
  BY <1>1, CheckoutTells, SnapshotTells, DeletedTells, PaidTells, FailedTells
     DEF Webhook, Handle, Pending
<1>2. CASE UNCHANGED vars
  <2>1. UNCHANGED <<clock, prov, sent, receipts, mirror, pause>>
    BY <1>2 DEF vars
  <2>2. MirrorIInv'
    BY <1>2, StepKeeps DEF ToldInv
  <2>3. /\ ReportsAreTrue' /\ EndsAreTold' /\ receipts \subseteq DOMAIN sent
        /\ \A r \in DOMAIN sent : (ToldAlive(r)' <=> ToldAlive(r)) /\ (Expiry(r)' <=> Expiry(r))
    BY <2>1, HandlerKeepsTold DEF ToldInv, MirrorIInv, TypeOK
  <2>4. PauseIsRecent' /\ RowFollows' /\ ExpiryIsFinal'
    BY <2>1, <2>3 DEF ToldInv, PauseIsRecent, RowFollows, RowShows, ShowsDecline, FailureTold,
                      ExpiryIsFinal
  <2> QED BY <2>2, <2>3, <2>4 DEF ToldInv
<1> QED BY <1>1, <1>2, TickTells, ProviderTells, OwnerTells DEF Next

LEMMA InitTells == Init => ToldInv
<1> SUFFICES ASSUME Init
             PROVE  ToldInv
  OBVIOUS
<1>1. /\ clock = Lag /\ sent = <<>> /\ receipts = {} /\ pause = [open |-> Null, closed |-> Null]
      /\ \A s \in Subs : prov[s].status = "none"
  BY DEF Init
<1>2. DOMAIN sent = {}
  BY <1>1
<1>3. \A s \in Subs : ~Alive(s) /\ ~Ended(s)
  BY <1>1 DEF Alive, Ended, Irreversible
<1>4. ReportsAreTrue /\ EndsAreTold
  BY <1>2, <1>3 DEF ReportsAreTrue, EndsAreTold
<1>5. PauseIsRecent
  BY <1>1, <1>2, MirrorAssumption DEF PauseIsRecent, Null
<1> QED BY <1>1, <1>4, <1>5, InitHolds DEF ToldInv, RowFollows, ExpiryIsFinal

(* Once every event has its receipt, in whatever order they were handled,  *)
(* the row says what Stripe says: the live subscription, its status and    *)
(* its pause, or that there is none; but for an incomplete subscription,   *)
(* whose declined payment the row may show as dunning (webhooks.ts, the    *)
(* handlers of snapshots and of failed invoices).                          *)
THEOREM SettledRow == Spec => []SettledRowAgrees
BY InitTells, StepTells, ToldSettles, PTL DEF Spec

-----------------------------------------------------------------------------
(***************************************************************************)
(* The documents of one profile for any number of members, kinds, fields,  *)
(* documents and transactions: what is in force is what its creator        *)
(* confirmed, and nobody's edit is overwritten unseen.                     *)
(***************************************************************************)

DocStatuses == {"proposed", "active", "superseded"}

Doc ==
  [kind : Kinds, from : 0..MaxDocs, confirmed : SUBSET Fields, status : DocStatuses,
   version : 1..MaxDocs]

Current == {"proposed", "active"}

-----------------------------------------------------------------------------
(* The table of documents                                                  *)

(* Of a kind one version is active and one proposed at most; the newest    *)
(* version is one of them; and a version made from another follows it.     *)
OneOfEach(ds) ==
  \A d, e \in DOMAIN ds :
    ds[d].kind = ds[e].kind /\ ds[d].status = ds[e].status /\ ds[d].status \in Current => d = e

IsNewest(ds, e) ==
  ds[e].status \in Current /\ \A c \in OfKind(ds, ds[e].kind) : ds[c].version <= ds[e].version

NewestStands(ds) == \A d \in DOMAIN ds : \E e \in OfKind(ds, ds[d].kind) : IsNewest(ds, e)

Follows(ds) ==
  \A d \in DOMAIN ds : ds[d].from # None =>
    /\ ds[d].from \in 1..(d - 1)
    /\ ds[ds[d].from].kind = ds[d].kind /\ ds[ds[d].from].version = ds[d].version - 1

SoundTable(ds) ==
  /\ ds \in Seq(Doc) /\ Len(ds) <= MaxDocs
  /\ \A d \in DOMAIN ds : ds[d].version <= d
  /\ OneOfEach(ds) /\ NewestStands(ds) /\ Follows(ds)
  /\ \A d \in ActiveIds(ds) : ds[d].confirmed = Fields

LEMMA TableShape ==
  ASSUME NEW ds, SoundTable(ds)
  PROVE  /\ Len(ds) \in Nat /\ DOMAIN ds = 1..Len(ds) /\ MaxDocs \in Nat
         /\ \A d \in DOMAIN ds :
              /\ ds[d] \in Doc /\ d \in Nat /\ ds[d].version \in Nat \ {0}
              /\ ds[d].kind \in Kinds /\ ds[d].status \in DocStatuses /\ ds[d].confirmed \subseteq Fields
<1>1. ds \in Seq(Doc) /\ MaxDocs \in Nat
  BY BrainAssumption DEF SoundTable
<1>2. Len(ds) \in Nat /\ DOMAIN ds = 1..Len(ds) /\ \A d \in DOMAIN ds : ds[d] \in Doc
  BY <1>1
<1>3. ASSUME NEW d \in DOMAIN ds
      PROVE  /\ d \in Nat /\ ds[d].version \in Nat \ {0}
             /\ ds[d].kind \in Kinds /\ ds[d].status \in DocStatuses /\ ds[d].confirmed \subseteq Fields
  <2>1. d \in Nat
    BY <1>2
  <2>2. ds[d] \in Doc
    BY <1>2
  <2>3. ds[d].version \in 1..MaxDocs
    BY <2>2 DEF Doc
  <2>4. ds[d].version \in Nat \ {0}
    BY <1>1, <2>3
  <2> QED BY <2>1, <2>2, <2>4 DEF Doc
<1> QED BY <1>1, <1>2, <1>3

(* The version that writeBrainDoc counts on from.                          *)
LEMMA NewestIs ==
  ASSUME NEW ds, SoundTable(ds), NEW k
  PROVE  /\ Newest(ds, k) \in 0..Len(ds)
         /\ \A d \in OfKind(ds, k) : ds[d].version <= Newest(ds, k)
         /\ \A e \in OfKind(ds, k) : IsNewest(ds, e) => ds[e].version = Newest(ds, k)
         /\ OfKind(ds, k) # {} => \E e \in OfKind(ds, k) : IsNewest(ds, e)
<1> DEFINE V == {ds[d].version : d \in OfKind(ds, k)} \cup {0}
<1>1. OfKind(ds, k) \subseteq DOMAIN ds /\ \A d \in OfKind(ds, k) : ds[d].kind = k
  BY DEF OfKind
<1>2. V \subseteq Nat
  BY <1>1, TableShape
<1>3. OfKind(ds, k) # {} => \E e \in OfKind(ds, k) : IsNewest(ds, e)
  BY <1>1 DEF SoundTable, NewestStands
<1>4. ASSUME NEW e \in OfKind(ds, k), IsNewest(ds, e)
      PROVE  ds[e].version \in V /\ \A v \in V : ds[e].version >= v
  <2>1. ds[e].kind = k /\ ds[e].version \in Nat
    BY <1>1, TableShape
  <2>2. \A d \in OfKind(ds, k) : ds[d].version <= ds[e].version
    BY <1>4, <2>1 DEF IsNewest
  <2> QED BY <1>2, <2>1, <2>2
<1>5. \E n \in V : \A v \in V : n >= v
  <2>1. CASE OfKind(ds, k) = {}
    <3>1. V = {0}
      BY <2>1
    <3> QED BY <3>1
  <2>2. CASE OfKind(ds, k) # {}
    BY <2>2, <1>3, <1>4
  <2> QED BY <2>1, <2>2
<1>6. Newest(ds, k) \in V /\ \A v \in V : Newest(ds, k) >= v
  BY <1>5 DEF Newest, Max
<1>7. \A v \in V : v \in Nat /\ v <= Len(ds)
  <2>1. Len(ds) \in Nat
    BY TableShape
  <2>2. ASSUME NEW d \in OfKind(ds, k) PROVE ds[d].version \in Nat /\ ds[d].version <= Len(ds)
    <3>1. d \in 1..Len(ds) /\ ds[d].version \in Nat /\ ds[d].version <= d
      BY <1>1, TableShape DEF SoundTable
    <3> QED BY <2>1, <3>1
  <2> QED BY <2>1, <2>2
<1>8. Newest(ds, k) \in 0..Len(ds)
  BY <1>6, <1>7, TableShape
<1>9. \A d \in OfKind(ds, k) : ds[d].version <= Newest(ds, k)
  <2>1. ASSUME NEW d \in OfKind(ds, k) PROVE ds[d].version <= Newest(ds, k)
    <3>1. ds[d].version \in V
      OBVIOUS
    <3>2. ds[d].version \in Nat /\ Newest(ds, k) \in Nat /\ Newest(ds, k) >= ds[d].version
      BY <3>1, <1>2, <1>6
    <3> QED BY <3>2
  <2> QED BY <2>1
<1>10. ASSUME NEW e \in OfKind(ds, k), IsNewest(ds, e)
       PROVE  ds[e].version = Newest(ds, k)
  <2>1. ds[e].version \in V /\ ds[e].version >= Newest(ds, k) /\ Newest(ds, k) >= ds[e].version
    BY <1>4, <1>6, <1>10
  <2>2. ds[e].version \in Nat /\ Newest(ds, k) \in Nat
    BY <1>2, <1>6, <2>1
  <2> QED BY <2>1, <2>2
<1> QED BY <1>3, <1>8, <1>9, <1>10

(* What an edit was found to be made from is the newest version.           *)
LEMMA EditableIsNewest ==
  ASSUME NEW ds, SoundTable(ds), NEW d \in DOMAIN ds, IsEditable(ds, d)
  PROVE  IsNewest(ds, d) /\ ds[d].version = Newest(ds, ds[d].kind)
<1> DEFINE k == ds[d].kind
<1>1. d \in With(ds, k, Current) /\ \A e \in With(ds, k, Current) : ds[e].version <= ds[d].version
  BY DEF IsEditable, Authoritative, Current
<1>2. PICK e \in OfKind(ds, k) : IsNewest(ds, e)
  BY DEF SoundTable, NewestStands
<1>3. e \in With(ds, k, Current) /\ d \in OfKind(ds, k) /\ ds[d].status \in Current /\ ds[e].kind = k
  BY <1>1, <1>2 DEF With, IsNewest, OfKind
<1>4. ds[e].version <= ds[d].version
  BY <1>1, <1>3
<1>5. ASSUME NEW c \in OfKind(ds, k) PROVE ds[c].version <= ds[d].version
  <2>1. ds[c].version <= ds[e].version
    BY <1>2, <1>3 DEF IsNewest
  <2>2. ds[c].version \in Nat /\ ds[e].version \in Nat /\ ds[d].version \in Nat
    BY TableShape DEF OfKind
  <2> QED BY <1>4, <2>1, <2>2
<1>6. IsNewest(ds, d)
  BY <1>3, <1>5 DEF IsNewest
<1> QED BY <1>3, <1>6, NewestIs


-----------------------------------------------------------------------------
(* Writing versions                                                        *)

LEMMA SetInOrder ==
  ASSUME NEW S, IsFiniteSet(S)
  PROVE  /\ Cardinality(S) \in Nat /\ SetToSeq(S) \in [1..Cardinality(S) -> S]
         /\ \A i, j \in 1..Cardinality(S) : SetToSeq(S)[i] = SetToSeq(S)[j] => i = j
         /\ \A x \in S : \E i \in 1..Cardinality(S) : SetToSeq(S)[i] = x
<1> DEFINE n == Cardinality(S)
<1>1. n \in Nat /\ ExistsBijection(1..n, S)
  BY FS_CardinalityType
<1>2. PICK f : f \in Bijection(1..n, S)
  BY <1>1 DEF ExistsBijection
<1>3. f \in [1..n -> S] /\ IsInjective(f)
  BY <1>2 DEF Bijection, Injection
<1>4. SetToSeq(S) \in [1..n -> S] /\ IsInjective(SetToSeq(S))
  BY <1>3 DEF SetToSeq
<1>5. SetToSeq(S) \in Injection(1..n, S)
  BY <1>4 DEF Injection
<1>6. IsFiniteSet(1..n) /\ Cardinality(1..n) = n
  BY <1>1, FS_Interval
<1>7. SetToSeq(S) \in Surjection(1..n, S)
  BY <1>5, <1>6, FS_Injection
<1>8. \A x \in S : \E i \in 1..n : SetToSeq(S)[i] = x
  BY <1>7 DEF Surjection
<1> QED BY <1>1, <1>4, <1>8 DEF IsInjective

LEMMA SupersededShape ==
  ASSUME NEW ds \in Seq(Doc), NEW gone
  PROVE  /\ Superseded(ds, gone) \in Seq(Doc) /\ Len(Superseded(ds, gone)) = Len(ds)
         /\ \A d \in 1..Len(ds) :
              LET new == Superseded(ds, gone)[d] IN
              /\ new.kind = ds[d].kind /\ new.from = ds[d].from /\ new.version = ds[d].version
              /\ new.confirmed = ds[d].confirmed
              /\ new.status = IF d \in gone THEN "superseded" ELSE ds[d].status
<1>1. Len(ds) \in Nat /\ DOMAIN ds = 1..Len(ds) /\ \A d \in 1..Len(ds) : ds[d] \in Doc
  OBVIOUS
<1> DEFINE new(d) == IF d \in gone THEN [ds[d] EXCEPT !.status = "superseded"] ELSE ds[d]
<1>2. ASSUME NEW d \in 1..Len(ds)
      PROVE  /\ new(d) \in Doc
             /\ new(d).kind = ds[d].kind /\ new(d).from = ds[d].from
             /\ new(d).version = ds[d].version /\ new(d).confirmed = ds[d].confirmed
             /\ new(d).status = IF d \in gone THEN "superseded" ELSE ds[d].status
  <2>1. ds[d] \in Doc
    BY <1>1
  <2>2. CASE d \in gone
    BY <2>1, <2>2 DEF Doc, DocStatuses
  <2>3. CASE d \notin gone
    BY <2>1, <2>3
  <2> QED BY <2>2, <2>3
<1> DEFINE s == [d \in 1..Len(ds) |-> new(d)]
<1>3. Superseded(ds, gone) = s
  BY <1>1 DEF Superseded
<1> HIDE DEF new
<1>4. s \in [1..Len(ds) -> Doc]
  BY <1>2
<1>5. s \in Seq(Doc) /\ Len(s) = Len(ds)
  BY <1>1, <1>4
<1>6. \A d \in 1..Len(ds) : s[d] = new(d)
  OBVIOUS
<1> QED BY <1>2, <1>3, <1>5, <1>6

(* The old rows, of which the proposed ones are over, and one new row for  *)
(* each kind.                                                              *)
IsWritten(ds, ks, from, ws) ==
  /\ ws \in Seq(Doc) /\ Len(ws) = Len(ds) + Cardinality(ks)
  /\ \A d \in 1..Len(ds) :
       /\ ws[d].kind = ds[d].kind /\ ws[d].from = ds[d].from /\ ws[d].version = ds[d].version
       /\ ws[d].confirmed = ds[d].confirmed
       /\ ws[d].status = IF ds[d].kind \in ks /\ ds[d].status = "proposed"
                           THEN "superseded" ELSE ds[d].status
  /\ \A d \in (Len(ds) + 1)..Len(ws) :
       /\ ws[d].kind \in ks /\ ws[d].from = from /\ ws[d].status = "proposed"
       /\ ws[d].confirmed = {} /\ ws[d].version = Newest(ds, ws[d].kind) + 1
  /\ \A d, e \in (Len(ds) + 1)..Len(ws) : ws[d].kind = ws[e].kind => d = e
  /\ \A k \in ks : \E d \in (Len(ds) + 1)..Len(ws) : ws[d].kind = k

LEMMA WrittenShape ==
  ASSUME NEW ds, SoundTable(ds), NEW ks \in SUBSET Kinds, IsFiniteSet(ks),
         NEW from \in 0..MaxDocs, Len(ds) + Cardinality(ks) <= MaxDocs
  PROVE  IsWritten(ds, ks, from, WrittenAll(ds, ks, from))
<1> DEFINE gone == UNION {With(ds, k, {"proposed"}) : k \in ks}
           old == Superseded(ds, gone)
           n == Cardinality(ks)
           row(i) == [kind |-> SetToSeq(ks)[i], from |-> from, status |-> "proposed",
                      confirmed |-> {}, version |-> Newest(ds, SetToSeq(ks)[i]) + 1]
           new == [i \in 1..n |-> row(i)]
           ws == WrittenAll(ds, ks, from)
<1>1. ws = old \o new
  BY DEF WrittenAll
<1>2. /\ n \in Nat /\ \A i \in 1..n : SetToSeq(ks)[i] \in ks
      /\ \A i, j \in 1..n : SetToSeq(ks)[i] = SetToSeq(ks)[j] => i = j
      /\ \A k \in ks : \E i \in 1..n : SetToSeq(ks)[i] = k
  BY SetInOrder
<1>3. /\ Len(ds) \in Nat /\ DOMAIN ds = 1..Len(ds) /\ MaxDocs \in Nat /\ ds \in Seq(Doc)
      /\ \A d \in 1..Len(ds) : ds[d].kind \in Kinds
  BY TableShape DEF SoundTable
<1>4. ASSUME NEW i \in 1..n PROVE row(i) \in Doc
  <2>1. SetToSeq(ks)[i] \in Kinds
    BY <1>2
  <2>2. Newest(ds, SetToSeq(ks)[i]) \in 0..Len(ds)
    BY NewestIs
  <2>3. n >= 1 /\ Len(ds) + 1 <= MaxDocs
    BY <1>2, <1>3
  <2>4. Newest(ds, SetToSeq(ks)[i]) + 1 \in 1..MaxDocs
    BY <1>3, <2>2, <2>3
  <2> QED BY <2>1, <2>4 DEF Doc, DocStatuses
<1>5. new \in Seq(Doc) /\ Len(new) = n
  <2> HIDE DEF row
  <2>1. new \in [1..n -> Doc]
    BY <1>4
  <2> QED BY <1>2, <2>1
<1>6. /\ old \in Seq(Doc) /\ Len(old) = Len(ds)
      /\ \A d \in 1..Len(ds) :
           /\ old[d].kind = ds[d].kind /\ old[d].from = ds[d].from
           /\ old[d].version = ds[d].version /\ old[d].confirmed = ds[d].confirmed
           /\ old[d].status = IF d \in gone THEN "superseded" ELSE ds[d].status
  BY <1>3, SupersededShape
<1>7. \A d \in 1..Len(ds) : d \in gone <=> ds[d].kind \in ks /\ ds[d].status = "proposed"
  BY <1>3 DEF With, OfKind
<1>8. /\ ws \in Seq(Doc) /\ Len(ws) = Len(ds) + n
      /\ \A d \in 1..Len(ds) : ws[d] = old[d]
      /\ \A d \in (Len(ds) + 1)..Len(ws) : ws[d] = new[d - Len(ds)]
  <2> HIDE DEF old, new, ws
  <2>1. old \in Seq(Doc) /\ new \in Seq(Doc) /\ Len(old) = Len(ds) /\ Len(new) = n
    BY <1>5, <1>6
  <2>2. ws \in Seq(Doc) /\ Len(ws) = Len(ds) + n
    <3>1. old \o new \in Seq(Doc)
      BY <2>1
    <3>2. Len(old \o new) = Len(old) + Len(new)
      BY <2>1
    <3> QED BY <1>1, <2>1, <3>1, <3>2
  <2>3. \A d \in 1..Len(ds) : ws[d] = old[d]
    BY <1>1, <2>1
  <2>4. \A d \in (Len(ds) + 1)..Len(ws) : ws[d] = new[d - Len(ds)]
    BY <1>1, <1>2, <1>3, <2>1, <2>2
  <2> QED BY <2>2, <2>3, <2>4
<1>9. ASSUME NEW d \in (Len(ds) + 1)..Len(ws)
      PROVE  d - Len(ds) \in 1..n /\ ws[d] = row(d - Len(ds))
  <2> HIDE DEF ws, row
  <2>1. d - Len(ds) \in 1..n
    BY <1>2, <1>3, <1>8
  <2> QED BY <1>8, <2>1
<1>10. ASSUME NEW d \in (Len(ds) + 1)..Len(ws)
       PROVE  /\ ws[d].kind = SetToSeq(ks)[d - Len(ds)] /\ ws[d].kind \in ks
              /\ ws[d].from = from /\ ws[d].status = "proposed"
              /\ ws[d].confirmed = {} /\ ws[d].version = Newest(ds, ws[d].kind) + 1
  <2> HIDE DEF ws
  <2>1. ws[d] = row(d - Len(ds)) /\ d - Len(ds) \in 1..n
    BY <1>9
  <2> QED BY <1>2, <2>1
<1>11. ASSUME NEW d \in (Len(ds) + 1)..Len(ws), NEW e \in (Len(ds) + 1)..Len(ws),
              ws[d].kind = ws[e].kind
       PROVE  d = e
  <2> HIDE DEF ws, row
  <2>1. d - Len(ds) \in 1..n /\ e - Len(ds) \in 1..n
    BY <1>9
  <2>2. SetToSeq(ks)[d - Len(ds)] = SetToSeq(ks)[e - Len(ds)]
    BY <1>10, <1>11
  <2>3. d - Len(ds) = e - Len(ds)
    BY <1>2, <2>1, <2>2
  <2> QED BY <1>3, <1>8, <2>3
<1>12. ASSUME NEW k \in ks PROVE \E d \in (Len(ds) + 1)..Len(ws) : ws[d].kind = k
  <2> HIDE DEF ws, row
  <2>1. PICK i \in 1..n : SetToSeq(ks)[i] = k
    BY <1>2
  <2>2. Len(ds) + i \in (Len(ds) + 1)..Len(ws) /\ (Len(ds) + i) - Len(ds) = i
    BY <1>2, <1>3, <1>8
  <2> QED BY <1>10, <2>1, <2>2
<1>13. ASSUME NEW d \in 1..Len(ds)
       PROVE  /\ ws[d].kind = ds[d].kind /\ ws[d].from = ds[d].from /\ ws[d].version = ds[d].version
              /\ ws[d].confirmed = ds[d].confirmed
              /\ ws[d].status = IF ds[d].kind \in ks /\ ds[d].status = "proposed"
                                  THEN "superseded" ELSE ds[d].status
  <2> HIDE DEF ws, old, gone
  <2> QED BY <1>6, <1>7, <1>8
<1> HIDE DEF ws, row, old, gone
<1> QED BY <1>8, <1>10, <1>11, <1>12, <1>13 DEF IsWritten, ws


LEMMA WrittenSound ==
  ASSUME NEW ds, SoundTable(ds), NEW ks \in SUBSET Kinds, IsFiniteSet(ks),
         NEW from \in 0..MaxDocs, Len(ds) + Cardinality(ks) <= MaxDocs,
         from # None => /\ from \in DOMAIN ds /\ ks = {ds[from].kind}
                        /\ ds[from].version = Newest(ds, ds[from].kind),
         NEW ws, IsWritten(ds, ks, from, ws)
  PROVE  /\ SoundTable(ws) /\ ActiveIds(ws) = ActiveIds(ds)
         /\ Len(ds) <= Len(ws) /\ \A d \in DOMAIN ds : ws[d].kind = ds[d].kind
         /\ \A k : OfKind(ws, k) # {} <=> OfKind(ds, k) # {} \/ k \in ks
<1> DEFINE old == 1..Len(ds)
           new == (Len(ds) + 1)..Len(ws)
<1>1. /\ Len(ds) \in Nat /\ DOMAIN ds = old /\ MaxDocs \in Nat
      /\ \A d \in old : ds[d].version \in Nat \ {0} /\ ds[d].status \in DocStatuses
  BY TableShape
<1>2. /\ ws \in Seq(Doc) /\ Len(ws) \in Nat /\ DOMAIN ws = 1..Len(ws)
      /\ Cardinality(ks) \in Nat /\ Len(ds) <= Len(ws) /\ Len(ws) <= MaxDocs
  <2>1. Cardinality(ks) \in Nat /\ ws \in Seq(Doc) /\ Len(ws) = Len(ds) + Cardinality(ks)
    BY FS_CardinalityType DEF IsWritten
  <2> QED BY <1>1, <2>1
<1>3. \A d \in 1..Len(ws) : d \in Nat /\ (d \in old \/ d \in new) /\ ~(d \in old /\ d \in new)
  BY <1>1, <1>2
<1>4. \A d \in old : /\ ws[d].kind = ds[d].kind /\ ws[d].from = ds[d].from
                     /\ ws[d].version = ds[d].version /\ ws[d].confirmed = ds[d].confirmed
                     /\ d \in 1..Len(ws)
  BY <1>1, <1>2 DEF IsWritten
<1>5. \A d \in old : ws[d].status = IF ds[d].kind \in ks /\ ds[d].status = "proposed"
                                      THEN "superseded" ELSE ds[d].status
  BY DEF IsWritten
<1>6. \A d \in new : /\ ws[d].kind \in ks /\ ws[d].from = from /\ ws[d].status = "proposed"
                     /\ ws[d].version = Newest(ds, ws[d].kind) + 1
                     /\ Newest(ds, ws[d].kind) \in 0..Len(ds) /\ d \in 1..Len(ws)
  BY <1>1, <1>2, NewestIs DEF IsWritten
<1>7. \A d, e \in new : ws[d].kind = ws[e].kind => d = e
  BY DEF IsWritten
<1>8. \A k \in ks : \E d \in new : ws[d].kind = k
  BY DEF IsWritten
<1> HIDE DEF old, new
<1>9. ASSUME NEW d \in DOMAIN ws PROVE ws[d].version <= d
  <2>1. CASE d \in old
    BY <1>1, <1>4, <2>1 DEF SoundTable
  <2>2. CASE d \in new
    <3>1. Newest(ds, ws[d].kind) + 1 <= d
      BY <1>1, <1>2, <1>6, <2>2 DEF new
    <3> QED BY <1>6, <2>2, <3>1
  <2> QED BY <1>2, <1>3, <2>1, <2>2
<1>10. OneOfEach(ws)
  <2> SUFFICES ASSUME NEW d \in DOMAIN ws, NEW e \in DOMAIN ws, ws[d].kind = ws[e].kind,
                      ws[d].status = ws[e].status, ws[d].status \in Current
               PROVE  d = e
    BY DEF OneOfEach
  <2>1. CASE d \in old /\ e \in old
    <3>1. ds[d].kind = ds[e].kind /\ ds[d].status = ds[e].status /\ ds[d].status \in Current
      BY <1>4, <1>5, <2>1 DEF Current
    <3> QED BY <1>1, <2>1, <3>1 DEF SoundTable, OneOfEach
  <2>2. CASE d \in new /\ e \in new
    BY <1>7, <2>2
  <2>3. CASE d \in old /\ e \in new
    BY <1>4, <1>5, <1>6, <2>3 DEF Current
  <2>4. CASE d \in new /\ e \in old
    BY <1>4, <1>5, <1>6, <2>4 DEF Current
  <2> QED BY <1>2, <1>3, <2>1, <2>2, <2>3, <2>4
<1>11. NewestStands(ws)
  <2> SUFFICES ASSUME NEW d \in DOMAIN ws
               PROVE  \E e \in OfKind(ws, ws[d].kind) : IsNewest(ws, e)
    BY DEF NewestStands
  <2>1. CASE ws[d].kind \in ks
    <3>1. PICK e \in new : ws[e].kind = ws[d].kind
      BY <1>8, <2>1
    <3>2. e \in OfKind(ws, ws[d].kind) /\ ws[e].status \in Current
      BY <1>2, <1>6, <3>1 DEF OfKind, Current
    <3>3. ASSUME NEW c \in OfKind(ws, ws[e].kind) PROVE ws[c].version <= ws[e].version
      <4>1. c \in DOMAIN ws /\ ws[c].kind = ws[e].kind
        BY DEF OfKind
      <4>2. ws[e].version = Newest(ds, ws[e].kind) + 1 /\ Newest(ds, ws[e].kind) \in Nat
        BY <1>1, <1>6
      <4>3. CASE c \in new
        BY <1>7, <4>1, <4>2, <4>3
      <4>4. CASE c \in old
        <5>1. c \in OfKind(ds, ws[e].kind) /\ ws[c].version = ds[c].version /\ ds[c].version \in Nat
          BY <1>1, <1>4, <4>1, <4>4 DEF OfKind
        <5>2. ds[c].version <= Newest(ds, ws[e].kind)
          BY <5>1, NewestIs
        <5> QED BY <4>2, <5>1, <5>2
      <4> QED BY <1>2, <1>3, <4>1, <4>3, <4>4
    <3> QED BY <3>2, <3>3 DEF IsNewest
  <2>2. CASE ws[d].kind \notin ks
    <3>1. d \in old /\ ws[d].kind = ds[d].kind
      BY <1>2, <1>3, <1>4, <1>6, <2>2
    <3>2. PICK e \in OfKind(ds, ds[d].kind) : IsNewest(ds, e)
      BY <1>1, <3>1 DEF SoundTable, NewestStands
    <3>3. /\ e \in old /\ ws[e].kind = ds[d].kind /\ ds[e].kind = ds[d].kind
          /\ ws[e].status = ds[e].status /\ ws[e].version = ds[e].version
      BY <1>1, <1>4, <1>5, <2>2, <3>1, <3>2 DEF OfKind
    <3>4. e \in OfKind(ws, ws[d].kind) /\ ws[e].status \in Current
      BY <1>2, <1>4, <3>1, <3>2, <3>3 DEF OfKind, IsNewest
    <3>5. ASSUME NEW c \in OfKind(ws, ws[e].kind) PROVE ws[c].version <= ws[e].version
      <4>1. c \in DOMAIN ws /\ ws[c].kind = ds[d].kind
        BY <3>3 DEF OfKind
      <4>2. c \in old
        BY <1>2, <1>3, <1>6, <2>2, <3>1, <4>1
      <4>3. c \in OfKind(ds, ds[e].kind) /\ ws[c].version = ds[c].version
        BY <1>1, <1>4, <3>3, <4>1, <4>2 DEF OfKind
      <4> QED BY <3>2, <3>3, <4>3 DEF IsNewest
    <3> QED BY <3>4, <3>5 DEF IsNewest
  <2> QED BY <2>1, <2>2
<1>12. Follows(ws)
  <2> SUFFICES ASSUME NEW d \in DOMAIN ws, ws[d].from # None
               PROVE  /\ ws[d].from \in 1..(d - 1)
                      /\ ws[ws[d].from].kind = ws[d].kind
                      /\ ws[ws[d].from].version = ws[d].version - 1
    BY DEF Follows
  <2>1. CASE d \in old
    <3> DEFINE b == ds[d].from
    <3>1. b \in 1..(d - 1) /\ ds[b].kind = ds[d].kind /\ ds[b].version = ds[d].version - 1
          /\ ws[d].from = b
      BY <1>1, <1>4, <2>1 DEF SoundTable, Follows
    <3>2. b \in old
      BY <1>1, <2>1, <3>1 DEF old
    <3> QED BY <1>4, <2>1, <3>1, <3>2
  <2>2. CASE d \in new
    <3>1. /\ ws[d].from = from /\ from \in DOMAIN ds /\ ks = {ds[from].kind}
          /\ ds[from].version = Newest(ds, ds[from].kind)
      BY <1>6, <2>2
    <3>2. ws[d].kind = ds[from].kind
      BY <1>6, <2>2, <3>1
    <3>3. from \in old /\ ws[from].kind = ds[from].kind /\ ws[from].version = ds[from].version
      BY <1>1, <1>4, <3>1
    <3>4. ws[d].version = ds[from].version + 1 /\ ds[from].version \in Nat
      BY <1>1, <1>6, <2>2, <3>1, <3>2, <3>3
    <3>5. from \in 1..(d - 1)
      BY <1>1, <1>2, <2>2, <3>3 DEF old, new
    <3>6. ds[from].version = ws[d].version - 1
      BY <3>4
    <3> QED BY <3>1, <3>2, <3>3, <3>5, <3>6
  <2> QED BY <1>2, <1>3, <2>1, <2>2
<1>13. ActiveIds(ws) = ActiveIds(ds)
  <2>1. ASSUME NEW d PROVE d \in ActiveIds(ws) <=> d \in ActiveIds(ds)
    <3>1. d \in ActiveIds(ws) => d \in old /\ ds[d].status = "active"
      BY <1>2, <1>3, <1>5, <1>6 DEF ActiveIds
    <3>2. d \in ActiveIds(ds) => d \in DOMAIN ws /\ ws[d].status = "active"
      BY <1>1, <1>2, <1>4, <1>5 DEF ActiveIds
    <3> QED BY <1>1, <3>1, <3>2 DEF ActiveIds
  <2> QED BY <2>1
<1>14. \A d \in ActiveIds(ws) : ws[d].confirmed = Fields
  BY <1>1, <1>4, <1>13 DEF ActiveIds, SoundTable
<1>15. ASSUME NEW k
       PROVE  OfKind(ws, k) # {} <=> OfKind(ds, k) # {} \/ k \in ks
  <2>1. OfKind(ds, k) # {} => OfKind(ws, k) # {}
    BY <1>1, <1>2, <1>4 DEF OfKind
  <2>2. k \in ks => OfKind(ws, k) # {}
    BY <1>2, <1>6, <1>8 DEF OfKind
  <2>3. ASSUME NEW d \in OfKind(ws, k) PROVE OfKind(ds, k) # {} \/ k \in ks
    <3>1. d \in 1..Len(ws) /\ ws[d].kind = k
      BY <1>2 DEF OfKind
    <3>2. CASE d \in old
      BY <1>1, <1>4, <3>1, <3>2 DEF OfKind
    <3>3. CASE d \in new
      BY <1>6, <3>1, <3>3
    <3> QED BY <1>3, <3>1, <3>2, <3>3
  <2> QED BY <2>1, <2>2, <2>3
<1> QED BY <1>1, <1>2, <1>4, <1>9, <1>10, <1>11, <1>12, <1>13, <1>14, <1>15 DEF SoundTable


-----------------------------------------------------------------------------
(* Confirming and activating a version                                     *)

(* The same versions, of another status or confirmed in other fields.      *)
SameVersions(ds, new) ==
  /\ new \in Seq(Doc) /\ Len(new) = Len(ds)
  /\ \A d \in DOMAIN ds :
       new[d].kind = ds[d].kind /\ new[d].from = ds[d].from /\ new[d].version = ds[d].version

LEMMA SameVersionsKept ==
  ASSUME NEW ds, SoundTable(ds), NEW new, SameVersions(ds, new)
  PROVE  /\ Len(new) <= MaxDocs /\ DOMAIN new = DOMAIN ds /\ DOMAIN ds = 1..Len(ds) /\ Len(ds) \in Nat
         /\ \A d \in DOMAIN new : new[d].version <= d
         /\ Follows(new)
         /\ \A k : OfKind(new, k) = OfKind(ds, k)
<1>1. /\ Len(ds) \in Nat /\ DOMAIN ds = 1..Len(ds) /\ new \in Seq(Doc) /\ Len(new) = Len(ds)
      /\ Len(ds) <= MaxDocs
  BY TableShape DEF SameVersions, SoundTable
<1>2. DOMAIN new = DOMAIN ds
  BY <1>1
<1>3. \A d \in DOMAIN ds : new[d].kind = ds[d].kind /\ new[d].from = ds[d].from
                           /\ new[d].version = ds[d].version /\ ds[d].version <= d
  BY DEF SameVersions, SoundTable
<1>4. Follows(new)
  <2> SUFFICES ASSUME NEW d \in DOMAIN ds, ds[d].from # None
               PROVE  /\ ds[d].from \in 1..(d - 1)
                      /\ new[ds[d].from].kind = ds[d].kind
                      /\ new[ds[d].from].version = ds[d].version - 1
    BY <1>2, <1>3 DEF Follows
  <2> DEFINE b == ds[d].from
  <2>1. b \in 1..(d - 1) /\ ds[b].kind = ds[d].kind /\ ds[b].version = ds[d].version - 1
    BY DEF SoundTable, Follows
  <2>2. b \in DOMAIN ds
    BY <1>1, <2>1
  <2> QED BY <1>3, <2>1, <2>2
<1>5. \A k : OfKind(new, k) = OfKind(ds, k)
  BY <1>2, <1>3 DEF OfKind
<1> QED BY <1>1, <1>2, <1>3, <1>4, <1>5

LEMMA ConfirmedSound ==
  ASSUME NEW ds, SoundTable(ds), NEW d \in DOMAIN ds, ds[d].status = "proposed",
         NEW fields \in SUBSET Fields
  PROVE  LET cs == Confirmed(ds, d, fields) IN
         /\ SoundTable(cs) /\ SameVersions(ds, cs) /\ ActiveIds(cs) = ActiveIds(ds)
         /\ \A e \in DOMAIN ds : cs[e].status = ds[e].status
         /\ cs[d].confirmed = fields
<1> DEFINE row == [ds[d] EXCEPT !.confirmed = fields]
           cs == Confirmed(ds, d, fields)
<1>1. /\ Len(ds) \in Nat /\ DOMAIN ds = 1..Len(ds) /\ ds \in Seq(Doc)
      /\ \A e \in DOMAIN ds : ds[e] \in Doc
  BY TableShape DEF SoundTable
<1>2. /\ row \in Doc /\ row.kind = ds[d].kind /\ row.from = ds[d].from /\ row.status = ds[d].status
      /\ row.version = ds[d].version /\ row.confirmed = fields
  BY <1>1 DEF Doc
<1>3. cs = [e \in 1..Len(ds) |-> IF e = d THEN row ELSE ds[e]]
  BY <1>1 DEF Confirmed
<1> HIDE DEF row, cs
<1>4. cs \in [1..Len(ds) -> Doc]
  BY <1>1, <1>2, <1>3
<1>5. cs \in Seq(Doc) /\ Len(cs) = Len(ds)
  BY <1>1, <1>4
<1>6. \A e \in DOMAIN ds : cs[e] = IF e = d THEN row ELSE ds[e]
  BY <1>1, <1>3
<1>7. SameVersions(ds, cs)
  BY <1>2, <1>5, <1>6 DEF SameVersions
<1>8. \A e \in DOMAIN ds : cs[e].status = ds[e].status
  BY <1>2, <1>6
<1>9. cs[d].confirmed = fields
  BY <1>2, <1>6
<1>10. /\ Len(cs) <= MaxDocs /\ DOMAIN cs = DOMAIN ds /\ \A e \in DOMAIN cs : cs[e].version <= e
       /\ Follows(cs) /\ \A k : OfKind(cs, k) = OfKind(ds, k)
  BY <1>7, SameVersionsKept
<1>11. \A e \in DOMAIN ds : cs[e].kind = ds[e].kind /\ cs[e].version = ds[e].version
  BY <1>7 DEF SameVersions
<1>12. OneOfEach(cs)
  BY <1>8, <1>10, <1>11 DEF OneOfEach, SoundTable
<1>13. NewestStands(cs)
  <2> SUFFICES ASSUME NEW e \in DOMAIN ds
               PROVE  \E n \in OfKind(ds, ds[e].kind) : IsNewest(cs, n)
    BY <1>10, <1>11 DEF NewestStands
  <2>1. PICK n \in OfKind(ds, ds[e].kind) : IsNewest(ds, n)
    BY DEF SoundTable, NewestStands
  <2>2. n \in DOMAIN ds
    BY DEF OfKind
  <2>3. \A c \in OfKind(ds, ds[n].kind) : c \in DOMAIN ds
    BY DEF OfKind
  <2>4. IsNewest(cs, n)
    BY <1>8, <1>10, <1>11, <2>1, <2>2, <2>3 DEF IsNewest
  <2> QED BY <2>4
<1>14. ActiveIds(cs) = ActiveIds(ds)
  BY <1>8, <1>10 DEF ActiveIds
<1>15. \A e \in ActiveIds(cs) : cs[e].confirmed = Fields
  <2> SUFFICES ASSUME NEW e \in ActiveIds(ds) PROVE cs[e].confirmed = Fields
    BY <1>14
  <2>1. e \in DOMAIN ds /\ ds[e].status = "active" /\ ds[e].confirmed = Fields
    BY DEF ActiveIds, SoundTable
  <2>2. e # d
    BY <2>1
  <2> QED BY <1>6, <2>1, <2>2
<1>16. SoundTable(cs)
  BY <1>5, <1>10, <1>12, <1>13, <1>15 DEF SoundTable
<1> QED BY <1>7, <1>8, <1>9, <1>14, <1>16 DEF cs

LEMMA ActivatedSound ==
  ASSUME NEW ds, SoundTable(ds), NEW d \in DOMAIN ds, ds[d].status = "proposed",
         IsNewest(ds, d), ds[d].confirmed = Fields
  PROVE  LET after == Activated(ds, d) IN
         SoundTable(after) /\ SameVersions(ds, after) /\ d \in ActiveIds(after)
<1> DEFINE k == ds[d].kind
           gone == With(ds, k, {"proposed", "active"}) \ {d}
           ss == Superseded(ds, gone)
           row == [ss[d] EXCEPT !.status = "active"]
           after == Activated(ds, d)
<1>1. /\ Len(ds) \in Nat /\ DOMAIN ds = 1..Len(ds) /\ ds \in Seq(Doc)
      /\ \A e \in DOMAIN ds : ds[e].status \in DocStatuses
  BY TableShape DEF SoundTable
<1>2. /\ ss \in Seq(Doc) /\ Len(ss) = Len(ds)
      /\ \A e \in 1..Len(ds) :
           /\ ss[e].kind = ds[e].kind /\ ss[e].from = ds[e].from /\ ss[e].version = ds[e].version
           /\ ss[e].confirmed = ds[e].confirmed
           /\ ss[e].status = IF e \in gone THEN "superseded" ELSE ds[e].status
  <2> HIDE DEF gone
  <2> QED BY <1>1, SupersededShape
<1>3. \A e \in DOMAIN ds : e \in gone <=> e # d /\ ds[e].kind = k /\ ds[e].status \in Current
  BY DEF With, OfKind, Current
<1> HIDE DEF gone, ss
<1>4. ss[d] \in Doc /\ DOMAIN ss = 1..Len(ds)
  BY <1>1, <1>2
<1>5. /\ row \in Doc /\ row.kind = k /\ row.from = ds[d].from /\ row.status = "active"
      /\ row.version = ds[d].version /\ row.confirmed = Fields
  BY <1>1, <1>2, <1>4 DEF Doc, DocStatuses
<1>6. after = [e \in 1..Len(ds) |-> IF e = d THEN row ELSE ss[e]]
  BY <1>4 DEF Activated, ss, gone
<1> HIDE DEF row, after
<1>7. after \in Seq(Doc) /\ Len(after) = Len(ds)
  <2>1. \A e \in 1..Len(ds) : ss[e] \in Doc
    BY <1>2
  <2>2. after \in [1..Len(ds) -> Doc]
    BY <1>5, <1>6, <2>1
  <2>3. Len(ds) \in Nat
    BY <1>1
  <2> QED BY <2>2, <2>3
<1>8. \A e \in DOMAIN ds :
        /\ after[e].kind = ds[e].kind /\ after[e].from = ds[e].from /\ after[e].version = ds[e].version
        /\ after[e].confirmed = IF e = d THEN Fields ELSE ds[e].confirmed
        /\ after[e].status = IF e = d THEN "active"
                          ELSE IF ds[e].kind = k /\ ds[e].status \in Current THEN "superseded"
                          ELSE ds[e].status
  <2> SUFFICES ASSUME NEW e \in DOMAIN ds
               PROVE  /\ after[e].kind = ds[e].kind /\ after[e].from = ds[e].from
                      /\ after[e].version = ds[e].version
                      /\ after[e].confirmed = IF e = d THEN Fields ELSE ds[e].confirmed
                      /\ after[e].status = IF e = d THEN "active"
                                        ELSE IF ds[e].kind = k /\ ds[e].status \in Current
                                        THEN "superseded" ELSE ds[e].status
    OBVIOUS
  <2>1. after[e] = IF e = d THEN row ELSE ss[e]
    BY <1>1, <1>6
  <2>2. CASE e = d
    BY <1>5, <2>1, <2>2
  <2>3. CASE e # d
    <3>1. after[e] = ss[e] /\ (e \in gone <=> ds[e].kind = k /\ ds[e].status \in Current)
      BY <1>3, <2>1, <2>3
    <3> QED BY <1>1, <1>2, <2>3, <3>1
  <2> QED BY <2>2, <2>3
<1> HIDE DEF k
<1>9. SameVersions(ds, after)
  BY <1>7, <1>8 DEF SameVersions
<1>10. /\ Len(after) <= MaxDocs /\ DOMAIN after = DOMAIN ds /\ \A e \in DOMAIN after : after[e].version <= e
       /\ Follows(after) /\ \A j : OfKind(after, j) = OfKind(ds, j)
  BY <1>9, SameVersionsKept
<1>11. d \in ActiveIds(after)
  BY <1>8, <1>10 DEF ActiveIds
<1>12. OneOfEach(after)
  <2> SUFFICES ASSUME NEW e \in DOMAIN ds, NEW f \in DOMAIN ds, after[e].kind = after[f].kind,
                      after[e].status = after[f].status, after[e].status \in Current
               PROVE  e = f
    BY <1>10 DEF OneOfEach
  <2>1. ds[e].kind = ds[f].kind /\ ds[d].kind = k
    BY <1>8 DEF k
  <2>2. CASE ds[e].kind = k
    <3>1. e = d /\ f = d
      BY <1>1, <1>8, <2>1, <2>2 DEF Current, DocStatuses
    <3> QED BY <3>1
  <2>3. CASE ds[e].kind # k
    <3>1. ds[e].status = ds[f].status /\ ds[e].status \in Current
      BY <1>8, <2>1, <2>3
    <3> QED BY <2>1, <3>1 DEF SoundTable, OneOfEach
  <2> QED BY <2>2, <2>3
<1>13. NewestStands(after)
  <2>a. /\ DOMAIN after = DOMAIN ds /\ \A j : OfKind(after, j) = OfKind(ds, j)
        /\ \A e \in DOMAIN ds : after[e].kind = ds[e].kind /\ after[e].version = ds[e].version
    BY <1>8, <1>10
  <2>b. /\ after[d].status = "active"
        /\ \A e \in DOMAIN ds : ds[e].kind # k => after[e].status = ds[e].status
    BY <1>8 DEF k
  <2> SUFFICES ASSUME NEW e \in DOMAIN ds
               PROVE  \E n \in OfKind(ds, ds[e].kind) : IsNewest(after, n)
    BY <2>a DEF NewestStands
  <2>1. CASE ds[e].kind = k
    <3>1. d \in OfKind(ds, ds[e].kind)
      BY <2>1 DEF OfKind, k
    <3>2. \A c \in OfKind(ds, ds[d].kind) : c \in DOMAIN ds /\ ds[c].version <= ds[d].version
      BY DEF IsNewest, OfKind
    <3>3. IsNewest(after, d)
      BY <2>a, <2>b, <3>2 DEF IsNewest, Current
    <3> QED BY <3>1, <3>3
  <2>2. CASE ds[e].kind # k
    <3>1. PICK n \in OfKind(ds, ds[e].kind) : IsNewest(ds, n)
      BY DEF SoundTable, NewestStands
    <3>2. n \in DOMAIN ds /\ ds[n].kind # k /\ n # d
      BY <2>2 DEF OfKind, k
    <3>3. \A c \in OfKind(ds, ds[n].kind) : c \in DOMAIN ds /\ ds[c].version <= ds[n].version
      BY <3>1 DEF IsNewest, OfKind
    <3>4. IsNewest(after, n)
      BY <2>a, <2>b, <3>1, <3>2, <3>3 DEF IsNewest
    <3> QED BY <3>4
  <2> QED BY <2>1, <2>2
<1>14. \A e \in ActiveIds(after) : after[e].confirmed = Fields
  <2> SUFFICES ASSUME NEW e \in DOMAIN ds, after[e].status = "active" PROVE after[e].confirmed = Fields
    BY <1>10 DEF ActiveIds
  <2>1. e = d \/ ds[e].status = "active"
    BY <1>8
  <2>2. ds[e].status = "active" => ds[e].confirmed = Fields
    BY DEF ActiveIds, SoundTable
  <2> QED BY <1>8, <2>1, <2>2
<1>15. SoundTable(after)
  BY <1>7, <1>10, <1>12, <1>13, <1>14 DEF SoundTable
<1> QED BY <1>9, <1>11, <1>15 DEF after


-----------------------------------------------------------------------------
(* The other tables, and what a transaction holds                          *)

Activation == [names : SUBSET Nat, began : 1..MaxBegun]

(* The documents stay, of the kind they are; an activation stays as it is. *)
Extends(ds, new) == \A d \in DOMAIN ds : d \in DOMAIN new /\ new[d].kind = ds[d].kind
Continues(ss, new) == \A i \in DOMAIN ss : i \in DOMAIN new /\ new[i] = ss[i]

NamesFit(ss, ds) == ss \in Seq(Activation) /\ \A i \in DOMAIN ss : ss[i].names \subseteq DOMAIN ds

LatestNames(ss, ds) == ActiveIds(ds) = IF ss = <<>> THEN {} ELSE Last(ss).names

Proposal ==
  [basis : Nat, digest : Enough..MaxFeedback,
   status : {"proposed", "superseded", "accepted", "rejected"}, doc : Nat, activation : Nat]

ProposalFits(p, ds, ss) ==
  /\ p \in Proposal /\ p.basis \in DOMAIN ds
  /\ p.doc \in {None} \cup DOMAIN ds /\ p.activation \in {None} \cup DOMAIN ss
  /\ p.status = "accepted" =>
       /\ p.activation \in DOMAIN ss /\ p.doc \in DOMAIN ds /\ p.doc \in ss[p.activation].names
       /\ ds[p.doc].kind = ds[p.basis].kind

ProposalsFit(ps, ds, ss) ==
  ps \in Seq(Proposal) /\ \A i \in DOMAIN ps : ProposalFits(ps[i], ds, ss)

(* There is feedback only on a document that exists.                       *)
FeedbackFits(f, ds) ==
  f \in [1..MaxDocs -> 0..MaxFeedback] /\ \A d \in 1..MaxDocs : f[d] # 0 => d \in DOMAIN ds

(* Of an interviewed kind there are documents from its submission on.      *)
DraftFits(dr, ds) ==
  /\ dr \in [answered : SUBSET Interviewed, submitted : BOOLEAN]
  /\ \A k \in Interviewed : OfKind(ds, k) # {} <=> dr.submitted /\ k \in dr.answered

(* What is asked for names what there is, for as long as it waits.         *)
RequestFits(r, ds, ps) ==
  /\ r.op = "write" => r.kind \in Kinds \ Interviewed
  /\ r.op = "answer" => r.kind \in Interviewed
  /\ r.op \in {"edit", "activate", "confirm"} => r.doc \in DOMAIN ds
  /\ r.op = "confirm" => r.fields \in SUBSET Fields
  /\ r.op \in {"accept", "reject"} => r.proposal \in DOMAIN ps /\ r.base \in DOMAIN ds

(* What was read under the lock is still so at the commit.                 *)
WorkFits(m) ==
  /\ work[m].step \in {"idle", "begun", "locked"}
  /\ work[m].step # "idle" =>
       RequestFits(work[m].asked, docs, proposals) /\ work[m].began \in 1..MaxBegun
  /\ work[m].step = "locked" =>
       /\ brainLock = m /\ work[m].docs = docs /\ work[m].proposals = proposals
       /\ work[m].draft = draft /\ FeedbackFits(work[m].feedback, docs)

WorkSound == DOMAIN work = Members /\ \A m \in Members : WorkFits(m)

TablesSound ==
  /\ SoundTable(docs)
  /\ NamesFit(snapshots, docs) /\ LatestNames(snapshots, docs)
  /\ ProposalsFit(proposals, docs, snapshots)
  /\ FeedbackFits(feedback, docs) /\ DraftFits(draft, docs)

CountersFit ==
  /\ {brainLock, editSlot} \subseteq Members \cup {Nobody}
  /\ begun \in 0..MaxBegun /\ paused \in BOOLEAN

BrainIInv == TablesSound /\ WorkSound /\ CountersFit

LEMMA ProposalStays ==
  ASSUME NEW p, NEW ds, NEW ss, ProposalFits(p, ds, ss), NEW ds2, NEW ss2,
         Extends(ds, ds2), Continues(ss, ss2)
  PROVE  ProposalFits(p, ds2, ss2)
BY DEF ProposalFits, Extends, Continues

LEMMA ProposalsStay ==
  ASSUME NEW ps, NEW ds, NEW ss, ProposalsFit(ps, ds, ss), NEW ds2, NEW ss2,
         Extends(ds, ds2), Continues(ss, ss2)
  PROVE  ProposalsFit(ps, ds2, ss2)
BY ProposalStays DEF ProposalsFit

LEMMA RequestStays ==
  ASSUME NEW r, NEW ds, NEW ps, RequestFits(r, ds, ps), NEW ds2, NEW ps2,
         Extends(ds, ds2), DOMAIN ps \subseteq DOMAIN ps2
  PROVE  RequestFits(r, ds2, ps2)
BY DEF RequestFits, Extends

LEMMA ActivationAppended ==
  ASSUME NEW ss, NEW ds, NamesFit(ss, ds), NEW ds2, Extends(ds, ds2), SoundTable(ds2),
         NEW began \in 1..MaxBegun
  PROVE  LET ss2 == Append(ss, Snapshot(ds2, began)) IN
         /\ NamesFit(ss2, ds2) /\ LatestNames(ss2, ds2) /\ Continues(ss, ss2)
         /\ Len(ss2) \in DOMAIN ss2 /\ Len(ss2) \in Nat /\ ss2[Len(ss2)].names = ActiveIds(ds2)
<1> DEFINE new == Snapshot(ds2, began)
           ss2 == Append(ss, new)
<1>1. new.names = ActiveIds(ds2) /\ new.began = began /\ new = [names |-> ActiveIds(ds2), began |-> began]
  BY DEF Snapshot
<1>2. ActiveIds(ds2) \subseteq DOMAIN ds2 /\ DOMAIN ds2 \subseteq Nat
  BY TableShape DEF ActiveIds
<1>3. new \in Activation
  BY <1>1, <1>2 DEF Activation
<1>4. ss \in Seq(Activation) /\ Len(ss) \in Nat /\ DOMAIN ss = 1..Len(ss)
  BY DEF NamesFit
<1> HIDE DEF new
<1>5. /\ ss2 \in Seq(Activation) /\ Len(ss2) = Len(ss) + 1 /\ DOMAIN ss2 = 1..(Len(ss) + 1)
      /\ ss2[Len(ss) + 1] = new /\ \A i \in 1..Len(ss) : ss2[i] = ss[i]
  BY <1>3, <1>4
<1> HIDE DEF ss2
<1>6. Continues(ss, ss2) /\ Len(ss2) \in DOMAIN ss2 /\ Len(ss2) \in Nat /\ ss2[Len(ss2)] = new
  BY <1>4, <1>5 DEF Continues
<1>7. ASSUME NEW i \in DOMAIN ss2 PROVE ss2[i].names \subseteq DOMAIN ds2
  <2>1. CASE i \in 1..Len(ss)
    <3>1. ss2[i] = ss[i] /\ ss[i].names \subseteq DOMAIN ds
      BY <1>4, <1>5, <2>1 DEF NamesFit
    <3> QED BY <3>1 DEF Extends
  <2>2. CASE i = Len(ss) + 1
    BY <1>1, <1>2, <1>5, <2>2
  <2> QED BY <1>4, <1>5, <2>1, <2>2
<1>8. ss2 # <<>>
  BY <1>4, <1>5
<1>9. LatestNames(ss2, ds2)
  BY <1>1, <1>6, <1>8 DEF LatestNames, Last
<1> QED BY <1>1, <1>5, <1>6, <1>7, <1>9 DEF NamesFit, ss2, new

(* refreshPromotionProposals.                                              *)
LEMMA RefreshedFits ==
  ASSUME NEW ps, NEW ds, NEW ss, ProposalsFit(ps, ds, ss), NEW f, FeedbackFits(f, ds)
  PROVE  ProposalsFit(Refreshed(ps, f), ds, ss) /\ DOMAIN ps \subseteq DOMAIN Refreshed(ps, f)
<1> DEFINE D == {d \in Drafts(f) : \A i \in DOMAIN ps : ~IsProposedAs(ps[i], d, f)}
           rec(d) == [basis |-> d, digest |-> f[d], status |-> "proposed", doc |-> None,
                      activation |-> None]
           T == {rec(d) : d \in D}
           old(i) == IF ps[i].status = "proposed" /\ ~IsProposedAs(ps[i], ps[i].basis, f)
                       THEN [ps[i] EXCEPT !.status = "superseded"] ELSE ps[i]
           head == [i \in DOMAIN ps |-> old(i)]
           tail == SetToSeq(T)
           n == Cardinality(T)
<1>1. MaxDocs \in Nat /\ MaxFeedback \in Nat /\ Enough \in Nat \ {0}
  BY BrainAssumption
<1>2. ASSUME NEW d \in D PROVE ProposalFits(rec(d), ds, ss)
  <2>1. d \in 1..MaxDocs /\ f[d] >= Enough /\ f[d] \in 0..MaxFeedback
    BY DEF Drafts, FeedbackFits
  <2>2. f[d] # 0 /\ f[d] \in Enough..MaxFeedback /\ d \in Nat
    BY <1>1, <2>1
  <2>3. d \in DOMAIN ds
    BY <2>1, <2>2 DEF FeedbackFits
  <2>4. rec(d) \in Proposal
    BY <2>2 DEF Proposal, None
  <2> QED BY <2>3, <2>4 DEF ProposalFits
<1>3. IsFiniteSet(D)
  <2>1. IsFiniteSet(1..MaxDocs)
    BY <1>1, FS_Interval
  <2>2. D \in SUBSET (1..MaxDocs)
    BY DEF Drafts, FeedbackFits
  <2> QED BY <2>1, <2>2, FS_Subset
<1>4. IsFiniteSet(T)
  <2> DEFINE g == [d \in D |-> rec(d)]
  <2> HIDE DEF D, rec
  <2>1. g \in [D -> T] /\ \A t \in T : \E d \in D : g[d] = t
    OBVIOUS
  <2>2. g \in Surjection(D, T)
    BY <2>1 DEF Surjection
  <2> QED BY <1>3, <2>2, FS_Surjection
<1>5. \A t \in T : ProposalFits(t, ds, ss)
  BY <1>2
<1> HIDE DEF T
<1>6. n \in Nat /\ tail \in [1..n -> T]
  BY <1>4, SetInOrder
<1>7. \A t \in T : t \in Proposal
  BY <1>5 DEF ProposalFits
<1> HIDE DEF n, tail
<1>8. tail \in Seq(Proposal) /\ Len(tail) = n
  <2>1. tail \in [1..n -> Proposal]
    BY <1>6, <1>7
  <2> QED BY <1>6, <2>1
<1>9. \A i \in 1..n : ProposalFits(tail[i], ds, ss)
  BY <1>5, <1>6
<1>10. ps \in Seq(Proposal) /\ Len(ps) \in Nat /\ DOMAIN ps = 1..Len(ps)
  BY DEF ProposalsFit
<1>11. ASSUME NEW i \in 1..Len(ps) PROVE ProposalFits(old(i), ds, ss)
  <2>1. ProposalFits(ps[i], ds, ss)
    BY <1>10 DEF ProposalsFit
  <2>2. CASE ps[i].status = "proposed" /\ ~IsProposedAs(ps[i], ps[i].basis, f)
    <3> DEFINE p == [ps[i] EXCEPT !.status = "superseded"]
    <3>1. /\ p \in Proposal /\ p.basis = ps[i].basis /\ p.doc = ps[i].doc
          /\ p.activation = ps[i].activation /\ p.status = "superseded"
      BY <2>1 DEF ProposalFits, Proposal
    <3>2. old(i) = p
      BY <2>2
    <3> HIDE DEF p
    <3> QED BY <2>1, <3>1, <3>2 DEF ProposalFits
  <2>3. CASE ~(ps[i].status = "proposed" /\ ~IsProposedAs(ps[i], ps[i].basis, f))
    BY <2>1, <2>3
  <2> QED BY <2>2, <2>3
<1> HIDE DEF old
<1>12. head \in Seq(Proposal) /\ Len(head) = Len(ps) /\ \A i \in 1..Len(ps) : head[i] = old(i)
  <2>1. head = [i \in 1..Len(ps) |-> old(i)]
    BY <1>10
  <2>2. \A i \in 1..Len(ps) : old(i) \in Proposal
    BY <1>11 DEF ProposalFits
  <2>3. head \in [1..Len(ps) -> Proposal] /\ Len(ps) \in Nat
    BY <1>10, <2>1, <2>2
  <2>4. head \in Seq(Proposal) /\ Len(head) = Len(ps)
    BY <2>1, <2>3
  <2> QED BY <2>1, <2>4
<1>13. Refreshed(ps, f) = head \o tail
  BY DEF Refreshed, Drafted, old, tail, T
<1> DEFINE new == Refreshed(ps, f)
<1> HIDE DEF head, new
<1>14. /\ new \in Seq(Proposal) /\ Len(new) = Len(ps) + n
       /\ \A i \in 1..Len(ps) : new[i] = head[i]
  <2>1. head \o tail \in Seq(Proposal)
    BY <1>8, <1>12
  <2>2. Len(head \o tail) = Len(head) + Len(tail)
    BY <1>8, <1>12
  <2>3. \A i \in 1..Len(head) : (head \o tail)[i] = head[i]
    BY <1>8, <1>12
  <2> QED BY <1>8, <1>12, <1>13, <2>1, <2>2, <2>3 DEF new
<1>15. ASSUME NEW i \in (Len(ps) + 1)..Len(new)
       PROVE  i - Len(ps) \in 1..n /\ new[i] = tail[i - Len(ps)]
  <2>1. i - Len(ps) \in 1..n
    BY <1>6, <1>10, <1>14
  <2>2. i \in (Len(head) + 1)..(Len(head) + Len(tail))
    BY <1>8, <1>12, <1>14
  <2>3. (head \o tail)[i] = tail[i - Len(head)]
    BY SMTT(30), <1>8, <1>12, <2>2
  <2> QED BY <1>12, <1>13, <2>1, <2>3 DEF new
<1>16. DOMAIN new = 1..Len(new) /\ Len(new) \in Nat /\ DOMAIN ps \subseteq DOMAIN new
  BY <1>6, <1>10, <1>14
<1>17. ASSUME NEW i \in DOMAIN new PROVE ProposalFits(new[i], ds, ss)
  <2>1. CASE i \in 1..Len(ps)
    BY <1>11, <1>12, <1>14, <2>1
  <2>2. CASE i \in (Len(ps) + 1)..Len(new)
    BY <1>9, <1>15, <2>2
  <2> QED BY <1>10, <1>16, <2>1, <2>2
<1> QED BY <1>14, <1>16, <1>17 DEF ProposalsFit, new

(* A proposal that is decided.                                             *)
LEMMA DecidedFits ==
  ASSUME NEW ps, NEW ds, NEW ss, ProposalsFit(ps, ds, ss), NEW j \in DOMAIN ps,
         NEW p, ProposalFits(p, ds, ss)
  PROVE  /\ ProposalsFit([ps EXCEPT ![j] = p], ds, ss)
         /\ DOMAIN [ps EXCEPT ![j] = p] = DOMAIN ps
<1> DEFINE new == [ps EXCEPT ![j] = p]
<1>1. ps \in Seq(Proposal) /\ p \in Proposal
  BY DEF ProposalsFit, ProposalFits
<1>2. new \in Seq(Proposal) /\ DOMAIN new = DOMAIN ps
  BY <1>1
<1>3. \A i \in DOMAIN ps : new[i] = IF i = j THEN p ELSE ps[i]
  OBVIOUS
<1> QED BY <1>2, <1>3 DEF ProposalsFit


-----------------------------------------------------------------------------
(* The transactions                                                        *)

LEMMA Held ==
  ASSUME BrainIInv, NEW m \in Members, work[m].step = "locked"
  PROVE  /\ brainLock = m /\ work[m].docs = docs /\ work[m].proposals = proposals
         /\ work[m].draft = draft /\ FeedbackFits(work[m].feedback, docs)
         /\ RequestFits(work[m].asked, docs, proposals) /\ work[m].began \in 1..MaxBegun
         /\ \A n \in Members : n # m => work[n].step # "locked"
<1>1. WorkFits(m) /\ \A n \in Members : WorkFits(n)
  BY DEF BrainIInv, WorkSound
<1>2. work[m].step # "idle"
  OBVIOUS
<1> QED BY <1>1, <1>2 DEF WorkFits

LEMMA SameTable ==
  ASSUME NEW ds
  PROVE  Extends(ds, ds) /\ Continues(ds, ds)
BY DEF Extends, Continues

LEMMA FeedbackStays ==
  ASSUME NEW f, NEW ds, FeedbackFits(f, ds), NEW ds2, Extends(ds, ds2)
  PROVE  FeedbackFits(f, ds2)
BY DEF FeedbackFits, Extends

(* A transaction that ends leaves the others what they wait for.           *)
LEMMA EndsKeeps ==
  ASSUME BrainIInv, NEW m \in Members, work[m].step = "locked", Ends(m),
         Extends(docs, docs'), DOMAIN proposals \subseteq DOMAIN proposals'
  PROVE  WorkSound' /\ CountersFit' /\ FeedbackFits(feedback', docs')
<1>1. /\ DOMAIN work = Members /\ \A n \in Members : WorkFits(n)
      /\ FeedbackFits(feedback, docs) /\ CountersFit
  BY DEF BrainIInv, WorkSound, TablesSound
<1>2. /\ work' = [work EXCEPT ![m] = Idle] /\ brainLock' = Nobody /\ feedback' = feedback
      /\ begun' = begun /\ paused' = paused
      /\ editSlot' = IF editSlot = m THEN Nobody ELSE editSlot
  BY DEF Ends
<1>3. DOMAIN work' = Members /\ \A n \in Members : work'[n] = IF n = m THEN Idle ELSE work[n]
  BY <1>1, <1>2
<1>4. ASSUME NEW n \in Members PROVE WorkFits(n)'
  <2>1. CASE n = m
    <3>1. work'[n].step = "idle"
      BY <1>3, <2>1 DEF Idle
    <3> QED BY <3>1 DEF WorkFits
  <2>2. CASE n # m
    <3>1. work'[n] = work[n] /\ work[n].step # "locked"
      BY <1>3, <2>2, Held
    <3>2. work[n].step # "idle" => RequestFits(work[n].asked, docs', proposals')
      BY <1>1, RequestStays DEF WorkFits
    <3> QED BY <1>1, <3>1, <3>2 DEF WorkFits
  <2> QED BY <2>1, <2>2
<1>5. CountersFit'
  BY <1>1, <1>2 DEF CountersFit
<1>6. FeedbackFits(feedback', docs')
  BY <1>1, <1>2, FeedbackStays
<1> QED BY <1>3, <1>4, <1>5, <1>6 DEF WorkSound

(* What a commit has to show.                                              *)
Commits ==
  /\ SoundTable(docs') /\ Extends(docs, docs')
  /\ NamesFit(snapshots', docs') /\ LatestNames(snapshots', docs')
  /\ ProposalsFit(proposals', docs', snapshots') /\ DOMAIN proposals \subseteq DOMAIN proposals'
  /\ DraftFits(draft', docs')

LEMMA CommitKeeps ==
  ASSUME BrainIInv, NEW m \in Members, work[m].step = "locked", Ends(m), Commits
  PROVE  BrainIInv'
<1>1. WorkSound' /\ CountersFit' /\ FeedbackFits(feedback', docs')
  BY EndsKeeps DEF Commits
<1>2. TablesSound'
  BY <1>1 DEF Commits, TablesSound
<1> QED BY <1>1, <1>2 DEF BrainIInv

LEMMA NamesStay ==
  ASSUME NEW ss, NEW ds, NamesFit(ss, ds), LatestNames(ss, ds), NEW ds2, Extends(ds, ds2),
         ActiveIds(ds2) = ActiveIds(ds)
  PROVE  NamesFit(ss, ds2) /\ LatestNames(ss, ds2)
BY DEF NamesFit, LatestNames, Extends

(* The transactions that write versions and activate none.                 *)
LEMMA WrittenCommits ==
  ASSUME BrainIInv, NEW ks \in SUBSET Kinds, IsFiniteSet(ks),
         NEW from \in 0..MaxDocs, Len(docs) + Cardinality(ks) <= MaxDocs,
         from # None => /\ from \in DOMAIN docs /\ ks = {docs[from].kind}
                        /\ docs[from].version = Newest(docs, docs[from].kind),
         docs' = WrittenAll(docs, ks, from), snapshots' = snapshots, proposals' = proposals,
         draft' \in [answered : SUBSET Interviewed, submitted : BOOLEAN],
         \A k \in Interviewed :
           OfKind(docs, k) # {} \/ k \in ks <=> draft'.submitted /\ k \in draft'.answered
  PROVE  Commits
<1>1. SoundTable(docs) /\ NamesFit(snapshots, docs) /\ LatestNames(snapshots, docs)
      /\ ProposalsFit(proposals, docs, snapshots)
  BY DEF BrainIInv, TablesSound
<1>2. IsWritten(docs, ks, from, docs')
  BY <1>1, WrittenShape
<1>3. /\ SoundTable(docs') /\ ActiveIds(docs') = ActiveIds(docs) /\ Len(docs) <= Len(docs')
      /\ \A d \in DOMAIN docs : docs'[d].kind = docs[d].kind
      /\ \A k : OfKind(docs', k) # {} <=> OfKind(docs, k) # {} \/ k \in ks
  BY <1>1, <1>2, WrittenSound
<1>4. Extends(docs, docs')
  <2>1. /\ DOMAIN docs = 1..Len(docs) /\ Len(docs) \in Nat /\ DOMAIN docs' = 1..Len(docs')
        /\ Len(docs') \in Nat
    BY <1>1, <1>3, TableShape
  <2> QED BY <1>3, <2>1 DEF Extends
<1>5. NamesFit(snapshots', docs') /\ LatestNames(snapshots', docs')
  BY <1>1, <1>3, <1>4, NamesStay
<1>6. ProposalsFit(proposals', docs', snapshots')
  BY <1>1, <1>4, SameTable, ProposalsStay
<1>7. DraftFits(draft', docs')
  BY <1>3 DEF DraftFits
<1> QED BY <1>3, <1>4, <1>5, <1>6, <1>7 DEF Commits

LEMMA WriteKeeps ==
  ASSUME BrainIInv, NEW m \in Members, Write(m)
  PROVE  BrainIInv'
<1> DEFINE k == work[m].asked.kind
<1>1. /\ work[m].step = "locked" /\ work[m].asked.op = "write" /\ Ends(m)
      /\ docs' = WrittenAll(docs, {k}, None) /\ Len(work[m].docs) + 1 <= MaxDocs
      /\ snapshots' = snapshots /\ proposals' = proposals /\ draft' = draft
  BY DEF Write, Does, Request, Written, HasRoom
<1>2. work[m].docs = docs /\ RequestFits(work[m].asked, docs, proposals)
  BY <1>1, Held
<1>3. k \in Kinds \ Interviewed
  BY <1>1, <1>2 DEF RequestFits
<1>4. IsFiniteSet({k}) /\ Cardinality({k}) = 1
  BY FS_Singleton
<1>5. DraftFits(draft, docs) /\ None \in 0..MaxDocs
  BY BrainAssumption DEF BrainIInv, TablesSound, None
<1>6. \A j \in Interviewed :
        OfKind(docs, j) # {} \/ j \in {k} <=> draft'.submitted /\ j \in draft'.answered
  BY <1>1, <1>3, <1>5 DEF DraftFits
<1>7. draft' \in [answered : SUBSET Interviewed, submitted : BOOLEAN]
  BY <1>1, <1>5 DEF DraftFits
<1>8. {k} \in SUBSET Kinds /\ Len(docs) + Cardinality({k}) <= MaxDocs
  BY <1>1, <1>2, <1>3, <1>4
<1> HIDE DEF k
<1>9. Commits
  BY <1>1, <1>4, <1>5, <1>6, <1>7, <1>8, WrittenCommits
<1> QED BY <1>1, <1>9, CommitKeeps

LEMMA EditKeeps ==
  ASSUME BrainIInv, NEW m \in Members, Edit(m)
  PROVE  BrainIInv'
<1> DEFINE base == work[m].asked.doc
           k == docs[base].kind
<1>1. /\ work[m].step = "locked" /\ work[m].asked.op = "edit" /\ Ends(m)
      /\ docs' = WrittenAll(docs, {k}, base) /\ Len(work[m].docs) + 1 <= MaxDocs
      /\ IsEditable(work[m].docs, base)
      /\ snapshots' = snapshots /\ proposals' = proposals /\ draft' = draft
  BY DEF Edit, Does, Request, Written, HasRoom
<1>2. work[m].docs = docs /\ RequestFits(work[m].asked, docs, proposals)
  BY <1>1, Held
<1>3. base \in DOMAIN docs /\ SoundTable(docs) /\ DraftFits(draft, docs)
  BY <1>1, <1>2 DEF RequestFits, BrainIInv, TablesSound
<1>4. IsFiniteSet({k}) /\ Cardinality({k}) = 1
  BY FS_Singleton
<1>5. docs[base].version = Newest(docs, docs[base].kind)
  BY <1>1, <1>2, <1>3, EditableIsNewest
<1>6. /\ DOMAIN docs = 1..Len(docs) /\ Len(docs) \in Nat /\ MaxDocs \in Nat /\ Len(docs) <= MaxDocs
      /\ k \in Kinds
  BY SMTT(30), <1>3, TableShape DEF SoundTable
<1>7. base \in 0..MaxDocs /\ {k} \in SUBSET Kinds /\ Len(docs) + Cardinality({k}) <= MaxDocs
  BY <1>1, <1>2, <1>3, <1>4, <1>6
<1>8. OfKind(docs, k) # {}
  BY <1>3 DEF OfKind
<1>9. \A j \in Interviewed :
        OfKind(docs, j) # {} \/ j \in {k} <=> draft'.submitted /\ j \in draft'.answered
  BY <1>1, <1>3, <1>8 DEF DraftFits
<1>10. draft' \in [answered : SUBSET Interviewed, submitted : BOOLEAN]
  BY <1>1, <1>3 DEF DraftFits
<1>11. base # None => base \in DOMAIN docs /\ {k} = {docs[base].kind}
                      /\ docs[base].version = Newest(docs, docs[base].kind)
  BY <1>3, <1>5
<1> HIDE DEF base, k
<1>12. Commits
  BY <1>1, <1>4, <1>7, <1>9, <1>10, <1>11, WrittenCommits
<1> QED BY <1>1, <1>12, CommitKeeps

LEMMA SubmitKeeps ==
  ASSUME BrainIInv, NEW m \in Members, Submit(m)
  PROVE  BrainIInv'
<1> DEFINE ks == draft.answered
<1>1. /\ work[m].step = "locked" /\ Ends(m) /\ ~work[m].draft.submitted
      /\ work[m].draft.answered = {}
         \/ Len(work[m].docs) + Cardinality(work[m].draft.answered) <= MaxDocs
      /\ docs' = WrittenAll(docs, work[m].draft.answered, None)
      /\ draft' = [draft EXCEPT !.submitted = TRUE]
      /\ snapshots' = snapshots /\ proposals' = proposals
  BY DEF Submit, Does, HasRoom
<1>2. work[m].docs = docs /\ work[m].draft = draft
  BY <1>1, Held
<1>3. SoundTable(docs) /\ DraftFits(draft, docs) /\ None \in 0..MaxDocs
  BY BrainAssumption DEF BrainIInv, TablesSound, None
<1>4. ks \subseteq Interviewed /\ ~draft.submitted
  BY <1>1, <1>2, <1>3 DEF DraftFits
<1>5. ks \in SUBSET Kinds /\ IsFiniteSet(ks)
  BY <1>4, FS_Subset, BrainAssumption
<1>6. Len(docs) + Cardinality(ks) <= MaxDocs
  <2>1. CASE ks = {}
    <3>1. Cardinality(ks) = 0
      BY <2>1, FS_EmptySet
    <3> QED BY <1>3, <3>1, TableShape DEF SoundTable
  <2>2. CASE ks # {}
    BY <1>1, <1>2, <2>2
  <2> QED BY <2>1, <2>2
<1>7. draft' \in [answered : SUBSET Interviewed, submitted : BOOLEAN]
      /\ draft'.submitted /\ draft'.answered = ks
  BY <1>1, <1>3 DEF DraftFits
<1>8. \A k \in Interviewed :
        OfKind(docs, k) # {} \/ k \in ks <=> draft'.submitted /\ k \in draft'.answered
  BY <1>3, <1>4, <1>7 DEF DraftFits
<1>9. docs' = WrittenAll(docs, ks, None)
  BY <1>1, <1>2
<1> HIDE DEF ks
<1>10. Commits
  BY <1>1, <1>3, <1>5, <1>6, <1>7, <1>8, <1>9, WrittenCommits DEF None
<1> QED BY <1>1, <1>10, CommitKeeps


LEMMA SaveAnswerKeeps ==
  ASSUME BrainIInv, NEW m \in Members, SaveAnswer(m)
  PROVE  BrainIInv'
<1> DEFINE k == work[m].asked.kind
<1>1. /\ work[m].step = "locked" /\ work[m].asked.op = "answer" /\ Ends(m)
      /\ ~work[m].draft.submitted
      /\ draft' = [draft EXCEPT !.answered = work[m].draft.answered \cup {k}]
      /\ docs' = docs /\ snapshots' = snapshots /\ proposals' = proposals
  BY DEF SaveAnswer, Does, Request
<1>2. work[m].draft = draft /\ RequestFits(work[m].asked, docs, proposals)
  BY <1>1, Held
<1>3. k \in Interviewed
  BY <1>1, <1>2 DEF RequestFits
<1>4. TablesSound
  BY DEF BrainIInv
<1>5. DraftFits(draft', docs')
  BY <1>1, <1>2, <1>3, <1>4 DEF TablesSound, DraftFits
<1>6. Commits
  BY <1>1, <1>4, <1>5, SameTable DEF TablesSound, Commits
<1> QED BY <1>1, <1>6, CommitKeeps

LEMMA ConfirmKeeps ==
  ASSUME BrainIInv, NEW m \in Members, Confirm(m)
  PROVE  BrainIInv'
<1> DEFINE d == work[m].asked.doc
           fields == work[m].asked.fields
<1>1. /\ work[m].step = "locked" /\ work[m].asked.op = "confirm" /\ Ends(m)
      /\ work[m].docs[d].status = "proposed"
      /\ docs' = Confirmed(docs, d, fields)
      /\ draft' = draft /\ snapshots' = snapshots /\ proposals' = proposals
  BY DEF Confirm, Does, Request, IsOpenProposal
<1>2. work[m].docs = docs /\ RequestFits(work[m].asked, docs, proposals)
  BY <1>1, Held
<1>3. d \in DOMAIN docs /\ fields \in SUBSET Fields /\ docs[d].status = "proposed"
  BY <1>1, <1>2 DEF RequestFits
<1>4. TablesSound
  BY DEF BrainIInv
<1> HIDE DEF d, fields
<1>5. SoundTable(docs') /\ SameVersions(docs, docs') /\ ActiveIds(docs') = ActiveIds(docs)
  BY <1>1, <1>3, <1>4, ConfirmedSound DEF TablesSound
<1>6. DOMAIN docs' = DOMAIN docs /\ \A k : OfKind(docs', k) = OfKind(docs, k)
  BY <1>4, <1>5, SameVersionsKept DEF TablesSound
<1>7. Extends(docs, docs')
  BY <1>5, <1>6 DEF Extends, SameVersions
<1>8. NamesFit(snapshots', docs') /\ LatestNames(snapshots', docs')
  BY <1>1, <1>4, <1>5, <1>7, NamesStay DEF TablesSound
<1>9. ProposalsFit(proposals', docs', snapshots')
  BY <1>1, <1>4, <1>7, SameTable, ProposalsStay DEF TablesSound
<1>10. DraftFits(draft', docs')
  BY <1>1, <1>4, <1>6 DEF TablesSound, DraftFits
<1>11. Commits
  BY <1>1, <1>5, <1>7, <1>8, <1>9, <1>10 DEF Commits
<1> QED BY <1>1, <1>11, CommitKeeps

LEMMA ActivateKeeps ==
  ASSUME BrainIInv, NEW m \in Members, Activate(m)
  PROVE  BrainIInv'
<1> DEFINE d == work[m].asked.doc
<1>1. /\ work[m].step = "locked" /\ work[m].asked.op = "activate" /\ Ends(m)
      /\ work[m].docs[d].status = "proposed" /\ IsEditable(work[m].docs, d)
      /\ Fields \subseteq work[m].docs[d].confirmed
      /\ docs' = Activated(docs, d)
      /\ snapshots' = Append(snapshots, Snapshot(docs', work[m].began))
      /\ draft' = draft /\ proposals' = proposals
  BY DEF Activate, Does, Request, IsOpenProposal
<1>2. /\ work[m].docs = docs /\ RequestFits(work[m].asked, docs, proposals)
      /\ work[m].began \in 1..MaxBegun
  BY <1>1, Held
<1>3. TablesSound
  BY DEF BrainIInv
<1>4. d \in DOMAIN docs /\ docs[d].status = "proposed" /\ docs[d].confirmed = Fields /\ IsEditable(docs, d)
  <2>1. d \in DOMAIN docs /\ docs[d].status = "proposed" /\ IsEditable(docs, d)
        /\ Fields \subseteq docs[d].confirmed
    BY <1>1, <1>2 DEF RequestFits
  <2>2. docs[d].confirmed \subseteq Fields
    BY <1>3, <2>1, TableShape DEF TablesSound
  <2> QED BY <2>1, <2>2
<1>5. IsNewest(docs, d)
  BY <1>3, <1>4, EditableIsNewest DEF TablesSound
<1> HIDE DEF d
<1>6. SoundTable(docs') /\ SameVersions(docs, docs')
  BY <1>1, <1>3, <1>4, <1>5, ActivatedSound DEF TablesSound
<1>7. DOMAIN docs' = DOMAIN docs /\ \A k : OfKind(docs', k) = OfKind(docs, k)
  BY <1>3, <1>6, SameVersionsKept DEF TablesSound
<1>8. Extends(docs, docs')
  BY <1>6, <1>7 DEF Extends, SameVersions
<1>9. /\ NamesFit(snapshots', docs') /\ LatestNames(snapshots', docs')
      /\ Continues(snapshots, snapshots')
  BY <1>1, <1>2, <1>3, <1>6, <1>8, ActivationAppended DEF TablesSound
<1>10. ProposalsFit(proposals', docs', snapshots')
  BY <1>1, <1>3, <1>8, <1>9, ProposalsStay DEF TablesSound
<1>11. DraftFits(draft', docs')
  BY <1>1, <1>3, <1>7 DEF TablesSound, DraftFits
<1>12. Commits
  BY <1>1, <1>6, <1>8, <1>9, <1>10, <1>11 DEF Commits
<1> QED BY <1>1, <1>12, CommitKeeps

LEMMA RefreshKeeps ==
  ASSUME BrainIInv, NEW m \in Members, Refresh(m)
  PROVE  BrainIInv'
<1>1. /\ work[m].step = "locked" /\ Ends(m)
      /\ proposals' = Refreshed(proposals, work[m].feedback)
      /\ docs' = docs /\ snapshots' = snapshots /\ draft' = draft
  BY DEF Refresh, Does
<1>2. FeedbackFits(work[m].feedback, docs)
  BY <1>1, Held
<1>3. TablesSound
  BY DEF BrainIInv
<1>4. ProposalsFit(proposals', docs', snapshots') /\ DOMAIN proposals \subseteq DOMAIN proposals'
  BY <1>1, <1>2, <1>3, RefreshedFits DEF TablesSound
<1>5. Commits
  BY <1>1, <1>3, <1>4, SameTable DEF TablesSound, Commits
<1> QED BY <1>1, <1>5, CommitKeeps

LEMMA RejectKeeps ==
  ASSUME BrainIInv, NEW m \in Members, Reject(m)
  PROVE  BrainIInv'
<1> DEFINE i == work[m].asked.proposal
           p == [proposals[i] EXCEPT !.status = "rejected"]
<1>1. /\ work[m].step = "locked" /\ work[m].asked.op = "reject" /\ Ends(m)
      /\ proposals' = [proposals EXCEPT ![i] = p]
      /\ docs' = docs /\ snapshots' = snapshots /\ draft' = draft
  BY DEF Reject, Does, Request
<1>2. RequestFits(work[m].asked, docs, proposals)
  BY <1>1, Held
<1>3. TablesSound /\ i \in DOMAIN proposals
  BY <1>1, <1>2 DEF BrainIInv, RequestFits
<1>4. ProposalFits(proposals[i], docs, snapshots)
  BY <1>3 DEF TablesSound, ProposalsFit
<1>5. ProposalFits(p, docs, snapshots)
  <2>1. /\ p \in Proposal /\ p.basis = proposals[i].basis /\ p.doc = proposals[i].doc
        /\ p.activation = proposals[i].activation /\ p.status = "rejected"
    BY <1>4 DEF ProposalFits, Proposal
  <2> HIDE DEF p
  <2> QED BY SMTT(30), <1>4, <2>1 DEF ProposalFits
<1> HIDE DEF p, i
<1>6. ProposalsFit(proposals', docs', snapshots') /\ DOMAIN proposals' = DOMAIN proposals
  BY <1>1, <1>3, <1>5, DecidedFits DEF TablesSound
<1>7. Commits
  BY <1>1, <1>3, <1>6, SameTable DEF TablesSound, Commits
<1> QED BY <1>1, <1>7, CommitKeeps

(* The accepted rule: written, confirmed and activated at once.            *)
LEMMA AcceptKeeps ==
  ASSUME BrainIInv, NEW m \in Members, Accept(m)
  PROVE  BrainIInv'
<1> DEFINE i == work[m].asked.proposal
           base == work[m].asked.base
           k == docs[base].kind
           written == WrittenAll(docs, {k}, base)
           d == Len(written)
           agreed == Confirmed(written, d, Fields)
           p == [proposals[i] EXCEPT !.status = "accepted", !.doc = d, !.activation = Len(snapshots')]
<1>1. /\ work[m].step = "locked" /\ work[m].asked.op = "accept" /\ Ends(m)
      /\ Len(work[m].docs) + 1 <= MaxDocs /\ IsEditable(work[m].docs, base)
      /\ work[m].proposals[i].status = "proposed"
      /\ base \in With(work[m].docs, work[m].docs[work[m].proposals[i].basis].kind, {"active"})
      /\ docs' = Activated(agreed, d)
      /\ snapshots' = Append(snapshots, Snapshot(docs', work[m].began))
      /\ proposals' = [proposals EXCEPT ![i] = p]
      /\ draft' = draft
  BY ZenonT(30) DEF Accept, Does, Request, Written, HasRoom, IsDecidable
<1>2. /\ work[m].docs = docs /\ work[m].proposals = proposals
      /\ RequestFits(work[m].asked, docs, proposals) /\ work[m].began \in 1..MaxBegun
  BY ZenonT(30), <1>1, Held
<1>3. /\ TablesSound /\ i \in DOMAIN proposals /\ base \in DOMAIN docs
      /\ k = docs[proposals[i].basis].kind
  BY <1>1, <1>2 DEF BrainIInv, RequestFits, With, OfKind
<1>4. SoundTable(docs) /\ IsFiniteSet({k}) /\ Cardinality({k}) = 1
  BY <1>3, FS_Singleton DEF TablesSound
<1>5. docs[base].version = Newest(docs, k)
  BY ZenonT(30), <1>1, <1>2, <1>3, <1>4, EditableIsNewest
<1>6. /\ DOMAIN docs = 1..Len(docs) /\ Len(docs) \in Nat /\ MaxDocs \in Nat /\ Len(docs) <= MaxDocs
      /\ k \in Kinds
  BY <1>3, <1>4, TableShape DEF SoundTable
<1>7. base \in 0..MaxDocs /\ {k} \in SUBSET Kinds /\ Len(docs) + Cardinality({k}) <= MaxDocs
  <2>1. Len(docs) + 1 <= MaxDocs
    BY <1>1, <1>2
  <2>2. base \in 0..MaxDocs
    BY <1>3, <1>6
  <2>3. {k} \in SUBSET Kinds
    BY <1>6
  <2>4. Len(docs) + Cardinality({k}) <= MaxDocs
    BY <1>4, <2>1
  <2> QED BY Zenon, <2>2, <2>3, <2>4
<1>8. base # None => base \in DOMAIN docs /\ {k} = {docs[base].kind}
                     /\ docs[base].version = Newest(docs, docs[base].kind)
  BY <1>3, <1>5
<1> HIDE DEF i, base, k, written
<1>9. IsWritten(docs, {k}, base, written)
  BY <1>4, <1>7, WrittenShape DEF written
<1>10. /\ SoundTable(written) /\ Len(docs) <= Len(written)
       /\ \A e \in DOMAIN docs : written[e].kind = docs[e].kind
       /\ \A j : OfKind(written, j) # {} <=> OfKind(docs, j) # {} \/ j \in {k}
  BY ZenonT(30), <1>4, <1>7, <1>8, <1>9, WrittenSound
<1>11. d = Len(docs) + 1 /\ DOMAIN written = 1..d /\ d \in Nat
  BY <1>4, <1>6, <1>9, <1>10, TableShape DEF IsWritten
<1>12. /\ written[d].kind = k /\ written[d].status = "proposed"
       /\ written[d].version = Newest(docs, k) + 1
  <2>1. d \in (Len(docs) + 1)..Len(written)
    BY <1>6, <1>11
  <2>2. /\ written[d].kind \in {k} /\ written[d].status = "proposed"
        /\ written[d].version = Newest(docs, written[d].kind) + 1
    BY <1>9, <2>1 DEF IsWritten
  <2> QED BY <2>2
<1>13. IsNewest(written, d)
  <2>1. ASSUME NEW c \in OfKind(written, written[d].kind)
        PROVE  written[c].version <= written[d].version
    <3>1. c \in 1..d /\ written[c].kind = k /\ Newest(docs, k) \in 0..Len(docs)
      BY <1>4, <1>11, <1>12, NewestIs DEF OfKind
    <3>2. CASE c = d
      BY <1>6, <1>12, <3>1, <3>2
    <3>3. CASE c # d
      <4>1. c \in 1..Len(docs)
        BY <1>6, <1>11, <3>1, <3>3
      <4>2. written[c].version = docs[c].version /\ docs[c].kind = k
        BY <1>6, <1>9, <1>10, <3>1, <4>1 DEF IsWritten
      <4>3. docs[c].version <= Newest(docs, k) /\ docs[c].version \in Nat
        BY <1>4, <1>6, <4>1, <4>2, NewestIs, TableShape DEF OfKind
      <4> QED BY <1>6, <1>12, <3>1, <4>2, <4>3
    <3> QED BY <3>2, <3>3
  <2> QED BY <1>12, <2>1 DEF IsNewest, Current
<1> HIDE DEF d
<1>14. d \in DOMAIN written /\ Fields \in SUBSET Fields
  BY <1>6, <1>11
<1>15. /\ SoundTable(agreed) /\ SameVersions(written, agreed)
       /\ \A e \in DOMAIN written : agreed[e].status = written[e].status
       /\ agreed[d].confirmed = Fields
  BY <1>10, <1>12, <1>14, ConfirmedSound
<1> HIDE DEF agreed
<1>16. DOMAIN agreed = DOMAIN written /\ \A j : OfKind(agreed, j) = OfKind(written, j)
  BY <1>10, <1>15, SameVersionsKept
<1>17. /\ d \in DOMAIN agreed /\ agreed[d].status = "proposed" /\ agreed[d].kind = k
       /\ \A e \in DOMAIN written : agreed[e].kind = written[e].kind
                                    /\ agreed[e].version = written[e].version
  BY <1>12, <1>14, <1>15, <1>16 DEF SameVersions
<1>18. IsNewest(agreed, d)
  <2>1. \A c \in OfKind(written, k) : c \in DOMAIN written /\ written[c].version <= written[d].version
    BY <1>12, <1>13 DEF IsNewest, OfKind
  <2> QED BY <1>14, <1>16, <1>17, <2>1 DEF IsNewest, Current
<1>19. SoundTable(docs') /\ SameVersions(agreed, docs') /\ d \in ActiveIds(docs')
  BY <1>1, <1>15, <1>17, <1>18, ActivatedSound
<1>20. DOMAIN docs' = DOMAIN agreed /\ \A j : OfKind(docs', j) = OfKind(agreed, j)
  BY <1>15, <1>19, SameVersionsKept
<1>21. \A e \in DOMAIN written : docs'[e].kind = written[e].kind /\ e \in DOMAIN docs'
  BY <1>16, <1>17, <1>19, <1>20 DEF SameVersions
<1>22. Extends(docs, docs')
  <2>1. \A e \in DOMAIN docs : e \in DOMAIN written
    BY <1>6, <1>11
  <2> QED BY <1>10, <1>21, <2>1 DEF Extends
<1>23. /\ NamesFit(snapshots', docs') /\ LatestNames(snapshots', docs')
       /\ Continues(snapshots, snapshots') /\ Len(snapshots') \in DOMAIN snapshots'
       /\ Len(snapshots') \in Nat /\ snapshots'[Len(snapshots')].names = ActiveIds(docs')
  BY <1>1, <1>2, <1>3, <1>19, <1>22, ActivationAppended DEF TablesSound
<1>24. ProposalsFit(proposals, docs', snapshots')
  BY <1>3, <1>22, <1>23, ProposalsStay DEF TablesSound
<1>25. ProposalFits(proposals[i], docs', snapshots')
  BY <1>3, <1>24 DEF ProposalsFit
<1>26. ProposalFits(p, docs', snapshots')
  <2>1. /\ p \in Proposal /\ p.basis = proposals[i].basis /\ p.doc = d
        /\ p.activation = Len(snapshots') /\ p.status = "accepted"
    BY <1>11, <1>14, <1>23, <1>25 DEF ProposalFits, Proposal
  <2>2. proposals[i].basis \in DOMAIN docs
    BY <1>3 DEF TablesSound, ProposalsFit, ProposalFits
  <2>3. docs'[d].kind = docs'[proposals[i].basis].kind
    BY <1>3, <1>12, <1>14, <1>21, <1>22, <2>2 DEF Extends
  <2>4. d \in DOMAIN docs'
    BY <1>14, <1>21
  <2> HIDE DEF p
  <2> QED BY <1>19, <1>23, <1>25, <2>1, <2>3, <2>4 DEF ProposalFits
<1> HIDE DEF p
<1>27. ProposalsFit(proposals', docs', snapshots') /\ DOMAIN proposals' = DOMAIN proposals
  BY <1>1, <1>3, <1>24, <1>26, DecidedFits
<1>28. DraftFits(draft', docs')
  <2>1. OfKind(docs, k) # {}
    BY <1>3 DEF OfKind, k
  <2>2. \A j : OfKind(docs', j) # {} <=> OfKind(docs, j) # {}
    BY <1>10, <1>16, <1>20, <2>1
  <2> QED BY <1>1, <1>3, <2>2 DEF TablesSound, DraftFits
<1>29. Commits
  BY <1>19, <1>22, <1>23, <1>27, <1>28 DEF Commits
<1> QED BY SMTT(30), <1>1, <1>29, CommitKeeps


-----------------------------------------------------------------------------
(* The steps that commit nothing                                           *)

LEMMA BeginKeeps ==
  ASSUME BrainIInv, NEW m \in Members, Begin(m)
  PROVE  BrainIInv'
<1>1. TablesSound /\ DOMAIN work = Members /\ CountersFit /\ \A n \in Members : WorkFits(n)
  BY DEF BrainIInv, WorkSound
<1>2. PICK r \in Asked :
        /\ work' = [work EXCEPT ![m] = [step |-> "begun", asked |-> r, began |-> begun + 1]]
        /\ editSlot' \in {editSlot, m}
  BY DEF Begin
<1>3. /\ begun < MaxBegun /\ begun' = begun + 1 /\ brainLock' = brainLock /\ paused' = paused
      /\ docs' = docs /\ snapshots' = snapshots /\ proposals' = proposals /\ draft' = draft
      /\ feedback' = feedback
  BY DEF Begin, records
<1>4. RequestFits(r, docs, proposals)
  <2>1. \A i \in DOMAIN snapshots : snapshots[i].names \subseteq DOMAIN docs
    BY <1>1 DEF TablesSound, NamesFit
  <2> QED BY <2>1 DEF Asked, Open, RequestFits
<1>5. begun' \in 1..MaxBegun /\ begun' \in 0..MaxBegun
  <2>1. begun \in Nat /\ MaxBegun \in Nat
    BY <1>1, BrainAssumption DEF CountersFit
  <2> QED BY <1>3, <2>1
<1>6. /\ DOMAIN work' = Members
      /\ \A n \in Members :
           work'[n] = IF n = m THEN [step |-> "begun", asked |-> r, began |-> begun + 1] ELSE work[n]
  BY <1>1, <1>2
<1>7. ASSUME NEW n \in Members PROVE WorkFits(n)'
  <2>1. CASE n = m
    <3>1. work'[n].step = "begun" /\ work'[n].asked = r /\ work'[n].began = begun'
      BY <1>3, <1>6, <2>1
    <3> QED BY <1>3, <1>4, <1>5, <3>1 DEF WorkFits
  <2>2. CASE n # m
    BY <1>1, <1>3, <1>6, <2>2 DEF WorkFits
  <2> QED BY <2>1, <2>2
<1>8. CountersFit'
  BY <1>1, <1>2, <1>3, <1>5 DEF CountersFit
<1>9. TablesSound'
  BY <1>1, <1>3 DEF TablesSound
<1> QED BY <1>6, <1>7, <1>8, <1>9 DEF BrainIInv, WorkSound

LEMMA LockKeeps ==
  ASSUME BrainIInv, NEW m \in Members, Lock(m)
  PROVE  BrainIInv'
<1> DEFINE held == [step |-> "locked", asked |-> work[m].asked, began |-> work[m].began,
                    docs |-> docs, proposals |-> proposals, feedback |-> feedback,
                    draft |-> draft, paused |-> paused]
<1>1. TablesSound /\ DOMAIN work = Members /\ CountersFit /\ \A n \in Members : WorkFits(n)
  BY DEF BrainIInv, WorkSound
<1>2. /\ work[m].step = "begun" /\ brainLock = Nobody /\ brainLock' = m
      /\ work' = [work EXCEPT ![m] = held]
      /\ docs' = docs /\ snapshots' = snapshots /\ proposals' = proposals /\ draft' = draft
      /\ feedback' = feedback /\ editSlot' = editSlot /\ begun' = begun /\ paused' = paused
  BY DEF Lock, IsUnlocked, records
<1>3. /\ held.step = "locked" /\ held.asked = work[m].asked /\ held.began = work[m].began
      /\ held.docs = docs /\ held.proposals = proposals /\ held.feedback = feedback
      /\ held.draft = draft
  OBVIOUS
<1> HIDE DEF held
<1>4. DOMAIN work' = Members /\ \A n \in Members : work'[n] = IF n = m THEN held ELSE work[n]
  BY <1>1, <1>2
<1>5. RequestFits(work[m].asked, docs, proposals) /\ work[m].began \in 1..MaxBegun
  BY <1>1, <1>2 DEF WorkFits
<1>6. FeedbackFits(feedback, docs)
  BY <1>1 DEF TablesSound
<1>7. ASSUME NEW n \in Members PROVE WorkFits(n)'
  <2>1. CASE n = m
    BY <1>2, <1>3, <1>4, <1>5, <1>6, <2>1 DEF WorkFits
  <2>2. CASE n # m
    <3>1. work[n].step # "locked"
      BY <1>1, <1>2, BrainAssumption DEF WorkFits
    <3> QED BY <1>1, <1>2, <1>4, <2>2, <3>1 DEF WorkFits
  <2> QED BY <2>1, <2>2
<1>8. CountersFit'
  BY <1>1, <1>2 DEF CountersFit
<1>9. TablesSound'
  BY <1>1, <1>2 DEF TablesSound
<1> QED BY <1>4, <1>7, <1>8, <1>9 DEF BrainIInv, WorkSound

LEMMA RollbackKeeps ==
  ASSUME BrainIInv, NEW m \in Members, Rollback(m)
  PROVE  BrainIInv'
<1>1. /\ work[m].step = "locked" /\ Ends(m)
      /\ docs' = docs /\ snapshots' = snapshots /\ proposals' = proposals /\ draft' = draft
  BY DEF Rollback, records
<1>2. TablesSound
  BY DEF BrainIInv
<1>3. Commits
  BY <1>1, <1>2, SameTable DEF TablesSound, Commits
<1> QED BY <1>1, <1>3, CommitKeeps

LEMMA ReactKeeps ==
  ASSUME BrainIInv, React
  PROVE  BrainIInv'
<1>1. \E i \in DOMAIN snapshots : \E d \in snapshots[i].names :
        feedback[d] < MaxFeedback /\ feedback' = [feedback EXCEPT ![d] = @ + 1]
  BY DEF React
<1>2. /\ docs' = docs /\ snapshots' = snapshots /\ proposals' = proposals /\ draft' = draft
      /\ work' = work /\ brainLock' = brainLock /\ editSlot' = editSlot /\ begun' = begun
      /\ paused' = paused
  BY DEF React, records
<1>3. TablesSound /\ WorkSound /\ CountersFit
  BY DEF BrainIInv
<1>4. PICK d \in DOMAIN docs :
        feedback[d] < MaxFeedback /\ feedback' = [feedback EXCEPT ![d] = @ + 1]
  BY <1>1, <1>3 DEF TablesSound, NamesFit
<1>5. feedback \in [1..MaxDocs -> 0..MaxFeedback] /\ MaxFeedback \in Nat
  BY <1>3, BrainAssumption DEF TablesSound, FeedbackFits
<1>6. feedback' \in [1..MaxDocs -> 0..MaxFeedback]
  <2>1. d \in 1..MaxDocs
    <3>1. DOMAIN docs = 1..Len(docs) /\ Len(docs) \in Nat /\ Len(docs) <= MaxDocs /\ MaxDocs \in Nat
      BY <1>3, TableShape DEF TablesSound, SoundTable
    <3> QED BY <3>1
  <2>2. feedback[d] \in 0..MaxFeedback
    BY <1>5, <2>1
  <2>3. feedback[d] + 1 \in 0..MaxFeedback
    BY <1>4, <1>5, <2>2
  <2> QED BY <1>4, <1>5, <2>1, <2>3
<1>7. ASSUME NEW e \in 1..MaxDocs, feedback'[e] # 0 PROVE e \in DOMAIN docs
  <2>1. CASE e = d
    BY <1>4, <2>1
  <2>2. CASE e # d
    <3>1. feedback'[e] = feedback[e]
      BY <1>4, <1>5, <2>2
    <3> QED BY <1>3, <1>7, <3>1 DEF TablesSound, FeedbackFits
  <2> QED BY <2>1, <2>2
<1>8. FeedbackFits(feedback', docs')
  BY <1>2, <1>6, <1>7 DEF FeedbackFits
<1>9. TablesSound'
  BY <1>2, <1>3, <1>8 DEF TablesSound
<1>10. WorkSound' /\ CountersFit'
  BY <1>2, <1>3 DEF WorkSound, WorkFits, CountersFit
<1> QED BY <1>9, <1>10 DEF BrainIInv

LEMMA RestKeeps ==
  ASSUME BrainIInv, PauseOrResume \/ LoseEditSlot \/ UNCHANGED brainVars
  PROVE  BrainIInv'
<1>1. /\ docs' = docs /\ snapshots' = snapshots /\ proposals' = proposals /\ draft' = draft
      /\ feedback' = feedback /\ work' = work /\ brainLock' = brainLock /\ begun' = begun
  BY DEF PauseOrResume, LoseEditSlot, brainVars, records
<1>2. (editSlot' = editSlot \/ editSlot' = Nobody) /\ paused' \in {paused, ~paused}
  BY DEF PauseOrResume, LoseEditSlot, brainVars
<1>3. TablesSound /\ WorkSound /\ CountersFit
  BY DEF BrainIInv
<1>4. TablesSound'
  BY <1>1, <1>3 DEF TablesSound
<1>5. WorkSound'
  BY <1>1, <1>3 DEF WorkSound, WorkFits
<1>6. paused' \in BOOLEAN
  BY <1>2, <1>3, Zenon DEF CountersFit
<1>7. CountersFit'
  BY <1>1, <1>2, <1>3, <1>6 DEF CountersFit
<1> QED BY <1>4, <1>5, <1>7 DEF BrainIInv

-----------------------------------------------------------------------------
(* Theorems                                                                *)

(* The inductive invariant: each table is sound, and what a transaction    *)
(* read under the profile's lock is still so when it commits.              *)
THEOREM BrainInvariant == BrainSpec => []BrainIInv
<1>1. BrainInit => BrainIInv
  <2> SUFFICES ASSUME BrainInit PROVE BrainIInv
    OBVIOUS
  <2>1. /\ docs = <<>> /\ snapshots = <<>> /\ proposals = <<>>
        /\ DOMAIN docs = {} /\ DOMAIN snapshots = {} /\ DOMAIN proposals = {} /\ Len(docs) = 0
    BY DEF BrainInit
  <2>2. MaxDocs \in Nat /\ MaxBegun \in Nat /\ MaxFeedback \in Nat
    BY BrainAssumption
  <2>3. ActiveIds(docs) = {} /\ \A k : OfKind(docs, k) = {}
    BY <2>1 DEF ActiveIds, OfKind
  <2>4. SoundTable(docs)
    BY <2>1, <2>2, <2>3 DEF SoundTable, OneOfEach, NewestStands, Follows
  <2>5. NamesFit(snapshots, docs) /\ LatestNames(snapshots, docs)
    BY <2>1, <2>3 DEF NamesFit, LatestNames
  <2>6. ProposalsFit(proposals, docs, snapshots)
    BY <2>1 DEF ProposalsFit
  <2>7. FeedbackFits(feedback, docs) /\ DraftFits(draft, docs)
    <3>1. feedback = [d \in 1..MaxDocs |-> 0] /\ draft = [answered |-> {}, submitted |-> FALSE]
      BY DEF BrainInit
    <3>2. 0 \in 0..MaxFeedback
      BY <2>2
    <3>3. FeedbackFits(feedback, docs)
      BY <3>1, <3>2 DEF FeedbackFits
    <3>4. DraftFits(draft, docs)
      BY <2>3, <3>1 DEF DraftFits
    <3> QED BY <3>3, <3>4
  <2>8. DOMAIN work = Members /\ \A m \in Members : work[m].step = "idle"
    BY DEF BrainInit, Idle
  <2>9. WorkSound
    <3>1. ASSUME NEW m \in Members PROVE WorkFits(m)
      <4>1. work[m].step = "idle"
        BY <2>8
      <4> QED BY <4>1 DEF WorkFits
    <3> QED BY <2>8, <3>1 DEF WorkSound
  <2>10. CountersFit
    <3>1. brainLock = Nobody /\ editSlot = Nobody /\ begun = 0 /\ paused = FALSE
      BY DEF BrainInit
    <3>2. 0 \in 0..MaxBegun
      BY <2>2
    <3> QED BY <3>1, <3>2 DEF CountersFit
  <2> QED BY <2>4, <2>5, <2>6, <2>7, <2>9, <2>10 DEF BrainIInv, TablesSound
<1>2. BrainIInv /\ [BrainNext]_brainVars => BrainIInv'
  <2> SUFFICES ASSUME BrainIInv, [BrainNext]_brainVars PROVE BrainIInv'
    OBVIOUS
  <2>1. ASSUME NEW m \in Members, Transact(m) PROVE BrainIInv'
    <3>1. CASE Begin(m)
      BY <3>1, BeginKeeps
    <3>2. CASE Lock(m)
      BY <3>2, LockKeeps
    <3>3. CASE Rollback(m)
      BY <3>3, RollbackKeeps
    <3>4. CASE Write(m)
      BY <3>4, WriteKeeps
    <3>5. CASE SaveAnswer(m)
      BY <3>5, SaveAnswerKeeps
    <3>6. CASE Submit(m)
      BY <3>6, SubmitKeeps
    <3>7. CASE Edit(m)
      BY <3>7, EditKeeps
    <3>8. CASE Confirm(m)
      BY <3>8, ConfirmKeeps
    <3>9. CASE Activate(m)
      BY <3>9, ActivateKeeps
    <3>10. CASE Refresh(m)
      BY <3>10, RefreshKeeps
    <3>11. CASE Reject(m)
      BY <3>11, RejectKeeps
    <3>12. CASE Accept(m)
      BY <3>12, AcceptKeeps
    <3> QED BY <2>1, <3>1, <3>2, <3>3, <3>4, <3>5, <3>6, <3>7, <3>8, <3>9, <3>10, <3>11, <3>12
            DEF Transact
  <2>2. CASE React
    BY <2>2, ReactKeeps
  <2>3. CASE PauseOrResume \/ LoseEditSlot \/ UNCHANGED brainVars
    BY <2>3, RestKeeps
  <2> QED BY <2>1, <2>2, <2>3 DEF BrainNext
<1> QED BY <1>1, <1>2, PTL DEF BrainSpec

LEMMA AtMostOne ==
  ASSUME NEW S, \A x, y \in S : x = y
  PROVE  Cardinality(S) <= 1
<1>1. CASE S = {}
  BY <1>1, FS_EmptySet
<1>2. CASE S # {}
  <2>1. PICK x : S = {x}
    BY <1>2
  <2> QED BY <2>1, FS_Singleton
<1> QED BY <1>1, <1>2

(* What is in force is what its creator agreed to, whatever was submitted  *)
(* while a version was being activated: one version of a kind is active,   *)
(* confirmed in every field, the last activation names all the active      *)
(* ones, and an accepted promotion names what it became.                   *)
THEOREM InForceIsConfirmed == BrainSpec => []InForceAsConfirmed
<1>1. BrainIInv => InForceAsConfirmed
  <2> SUFFICES ASSUME BrainIInv PROVE InForceAsConfirmed
    OBVIOUS
  <2>1. TablesSound /\ CountersFit /\ \A m \in Members : WorkFits(m)
    BY DEF BrainIInv, WorkSound
  <2>2. SoundTable(docs) /\ NamesFit(snapshots, docs) /\ LatestNames(snapshots, docs)
        /\ ProposalsFit(proposals, docs, snapshots)
    BY <2>1 DEF TablesSound
  <2>3. \A d \in DOMAIN docs :
          docs[d] \in [kind : Kinds, from : 0..MaxDocs, confirmed : SUBSET Fields,
                       status : {"proposed", "active", "superseded"}, version : 1..MaxDocs]
    BY <2>2, TableShape DEF Doc, DocStatuses
  <2>4. \A i \in DOMAIN snapshots :
          snapshots[i] \in [names : SUBSET DOMAIN docs, began : 1..MaxBegun]
    <3> SUFFICES ASSUME NEW i \in DOMAIN snapshots
                 PROVE  snapshots[i] \in [names : SUBSET DOMAIN docs, began : 1..MaxBegun]
      OBVIOUS
    <3>1. snapshots[i] \in Activation /\ snapshots[i].names \subseteq DOMAIN docs
      BY <2>2 DEF NamesFit
    <3> QED BY <3>1 DEF Activation
  <2>5. \A i \in DOMAIN proposals :
          proposals[i] \in [basis : DOMAIN docs, digest : Enough..MaxFeedback,
                            status : {"proposed", "superseded", "accepted", "rejected"},
                            doc : {None} \cup DOMAIN docs,
                            activation : {None} \cup DOMAIN snapshots]
    <3> SUFFICES ASSUME NEW i \in DOMAIN proposals
                 PROVE  proposals[i] \in [basis : DOMAIN docs, digest : Enough..MaxFeedback,
                          status : {"proposed", "superseded", "accepted", "rejected"},
                          doc : {None} \cup DOMAIN docs,
                          activation : {None} \cup DOMAIN snapshots]
      OBVIOUS
    <3>1. ProposalFits(proposals[i], docs, snapshots)
      BY <2>2 DEF ProposalsFit
    <3> QED BY <3>1 DEF ProposalFits, Proposal
  <2>6. BrainTypeOK
    BY <2>1, <2>3, <2>4, <2>5 DEF BrainTypeOK, TablesSound, DraftFits, FeedbackFits, WorkFits, CountersFit
  <2>7. ASSUME NEW k \in Kinds, NEW s \in {"active", "proposed"}
        PROVE  Cardinality(With(docs, k, {s})) <= 1
    <3>1. \A d, e \in With(docs, k, {s}) : d = e
      BY <2>2 DEF With, OfKind, SoundTable, OneOfEach, Current
    <3> QED BY <3>1, AtMostOne
  <2>8. \A d \in ActiveIds(docs) : docs[d].confirmed = Fields
    BY <2>2 DEF SoundTable
  <2>9. \A i \in DOMAIN proposals : proposals[i].status = "accepted" =>
          /\ proposals[i].doc \in snapshots[proposals[i].activation].names
          /\ docs[proposals[i].doc].kind = docs[proposals[i].basis].kind
    BY <2>2 DEF ProposalsFit, ProposalFits
  <2> QED BY <2>2, <2>6, <2>7, <2>8, <2>9 DEF InForceAsConfirmed, LatestNames
<1> QED BY <1>1, BrainInvariant, PTL

(* No version is overwritten by one whose author had not seen it, however  *)
(* edits, promotions and the interview interleave: what is made from a     *)
(* version is the very next of its kind, and each kind that was answered   *)
(* when the interview was submitted has a document.                        *)
THEOREM EditsAreNotLost == BrainSpec => []NoEditIsLost
<1>1. BrainIInv => NoEditIsLost
  <2> SUFFICES ASSUME BrainIInv PROVE NoEditIsLost
    OBVIOUS
  <2>1. SoundTable(docs) /\ DraftFits(draft, docs)
    BY DEF BrainIInv, TablesSound
  <2> QED BY <2>1 DEF NoEditIsLost, SoundTable, Follows, DraftFits
<1> QED BY <1>1, BrainInvariant, PTL
=============================================================================
