--------------------------- MODULE SubscriptionCycle ---------------------------
(***************************************************************************)
(* A user's subscriptions: the subscription events of applySubscription-   *)
(* Event (subscription.service.ts), the Ink each paid cycle gives          *)
(* (grantSubscriptionInk, ink-ledger.service.ts) and settleYearlyDrip      *)
(* (yearly-drip.ts), which every balance read runs: it gives a yearly plan *)
(* its next months and takes an ended plan away.                           *)
(*                                                                         *)
(* Razorpay charges, stops, resumes and ends subscriptions and delivers    *)
(* what happened in any order, again after a 500 and sometimes after a     *)
(* 200.  Deliveries and reads run at the same time, one awaited call a     *)
(* step; a call may throw, its write landed or not, and a process may die. *)
(* Time passes in months; within one, all deliveries end.                  *)
(***************************************************************************)
EXTENDS Integers, FiniteSets, Sequences

CONSTANTS
    Worker,       \* deliveries handled at the same time
    Reader,       \* balance reads running at the same time
    Stories,      \* what Razorpay and the user may do, in order: each a sequence of
                  \* <<step, subscription>>
    MaxSubs,      \* bound: subscriptions of the user, the older ones first
    Yearly,       \* those on a yearly plan; the others are monthly
    YearLen,      \* months in a year: 12
    MaxCharges,   \* bound: cycles charged of one subscription
    MaxBusy,      \* bound: deliveries and reads running at the same time
    MaxMishaps    \* bound: throws, deaths, claims stale under a live delivery,
                  \* answers that are lost

Sub == 1..MaxSubs
Cycle == 1..MaxCharges
YEARLY_DRIP_MAX == YearLen - 1

ASSUME SizeAssumption == {MaxSubs, YearLen, MaxCharges} \subseteq Nat \ {0}
ASSUME BoundAssumption == {MaxBusy, MaxMishaps} \subseteq Nat
ASSUME PlanAssumption == Yearly \subseteq Sub

VARIABLES
    story,    \* the steps to come
    now,      \* the month
    rz,       \* Razorpay's subscriptions
    sub,      \* the subscription documents
    user,     \* the user's plan, and whether it has subscription Ink
    awaited,  \* the events Razorpay has had no 200 for yet
    del,      \* the deliveries: their locals
    read,     \* the reads: their locals
    grants,   \* by <<subscription, cycle, month of it>>: Ink grants that landed
    lost,     \* drips taken by a read that stopped before granting them
    reports,  \* cycles reported for a manual grant
    doubt,    \* cycles granted by a call that threw, or whose delivery then died
    retaken,  \* cycles claimed again from a stale claim
    undone,   \* cycles whose claim was undone when the one before it was over already
    raced,    \* cycles granted while a finding that nothing is paid for was on its way
    dropped,  \* cycles answered for, though no claim of them stood
    stranded, \* cycles whose claim was undone when they were answered for already
    mishaps

vars == <<story, now, rz, sub, user, awaited, del, read, grants, lost, reports, doubt,
          retaken, undone, raced, dropped, stranded, mishaps>>

razorpay == <<story, rz>>
excused == <<raced, dropped, stranded>>
history == <<grants, lost, reports, doubt, retaken, undone, excused>>

None == 0  \* no month, no cycle, no subscription

Checkout == {"created", "authenticated"}
Stopped == {"halted", "paused"}
Terminal == {"cancelled", "completed", "expired"}
PaidThroughStatus == Stopped \cup {"cancelled", "completed"}
Ended == PaidThroughStatus \cup {"expired"}
Status == {"none", "active"} \cup Checkout \cup Ended

Kind == {"authenticated", "activated", "charged", "resumed"} \cup Ended

Event == [sub : Sub, kind : Kind, count : 0..MaxCharges]

\* paidThrough and the drip fields are months; None when never written.
Doc == [status : Status, count : 0..MaxCharges, paidThrough : Nat,
        anchor : Nat, nextAt : Nat, drips : 0..YEARLY_DRIP_MAX,
        claim : {"none", "pending", "stale", "granted"}, token : Worker \cup {"none"}]

NoDoc == [status |-> "none", count |-> None, paidThrough |-> None, anchor |-> None,
          nextAt |-> None, drips |-> 0, claim |-> "none", token |-> "none"]

NoEvent == [sub |-> None, kind |-> "charged", count |-> 0]

Quiet == [pc |-> "idle", event |-> NoEvent, before |-> NoDoc]

Reading == [pc : {"idle", "ended", "current", "zero", "take", "set"},
            sub : 0..MaxSubs, cycle : 0..MaxCharges, n : 0..YEARLY_DRIP_MAX,
            nextAt : Nat, anchor : Nat]

Resting == [pc |-> "idle", sub |-> None, cycle |-> None, n |-> 0, nextAt |-> None,
            anchor |-> None]

GrantKey == Sub \X Cycle \X (0..YEARLY_DRIP_MAX)

Init ==
    /\ story \in Stories /\ now = 1
    /\ rz = [s \in Sub |-> [start |-> None, charges |-> 0, stop |-> None, state |-> "none"]]
    /\ sub = [s \in Sub |-> NoDoc]
    /\ user = [plan |-> "free", ink |-> FALSE]
    /\ awaited = {}
    /\ del = [w \in Worker |-> Quiet] /\ read = [r \in Reader |-> Resting]
    /\ grants = [g \in GrantKey |-> 0] /\ lost = {} /\ reports = {} /\ doubt = {}
    /\ retaken = {} /\ undone = {} /\ raced = {} /\ dropped = {} /\ stranded = {} /\ mishaps = 0

-----------------------------------------------------------------------------
(* What the queries ask. *)

\* Mutant: a cancelled subscription no longer counts.
ActiveOnly(s) == sub[s].status = "active"

\* stillPaidFilter; paidThrough is always written with a charge's status.
StillPaid(s) ==
    \/ sub[s].status = "active"
    \/ sub[s].status \in PaidThroughStatus /\ sub[s].paidThrough >= now

\* An ended plan past its paid period; never charged counts as past.
PastEnd(s) == sub[s].status \in Ended /\ sub[s].paidThrough < now

\* Running, or in its paid year, and on a yearly plan: drips are due to it.
Dripping(s) ==
    /\ s \in Yearly
    /\ sub[s].status \in {"active", "cancelled", "completed"}
    /\ sub[s].paidThrough >= now

DripsLeft(n) == n < YEARLY_DRIP_MAX

Newest(S) == CHOOSE s \in S : \A o \in S : o <= s

\* Mutant: no event is stale.
AnyFresh(e) == e \in Event

\* freshFilter: the event is not older than the last granted charge.
Fresh(e) == sub[e.sub].count <= e.count

Period(s) == IF s \in Yearly THEN YearLen ELSE 1
CycleStart(s, k) == rz[s].start + (k - 1) * Period(s)
CycleEnd(s, k) == rz[s].start + k * Period(s)

-----------------------------------------------------------------------------
(* Razorpay and the user. *)

Told(step, s) == story # <<>> /\ Head(story) = <<step, s>> /\ story' = Tail(story)

Send(kinds, s, n) ==
    awaited' = awaited \cup {[sub |-> s, kind |-> k, count |-> n] : k \in kinds}

\* createSubscription: one subscription at a time that is live or in checkout.
Subscribe(s) ==
    /\ Told("subscribe", s) /\ sub[s].status = "none"
    /\ \A o \in Sub : sub[o].status \notin Checkout \cup Stopped \cup {"active"}
    /\ sub' = [sub EXCEPT ![s].status = "created"]
    /\ rz' = [rz EXCEPT ![s].state = "running"]
    /\ Send({"authenticated"}, s, 0)
    /\ UNCHANGED <<now, user, del, read, history, mishaps>>

\* The same, when the subscription in the way is not paid for any more: cancelled
\* at Razorpay first, then written expired, if it is still so.
ExpireLapsed(s) ==
    /\ Told("lapse", s) /\ rz[s].state = "over"
    /\ sub' = IF sub[s].status \in Stopped /\ ~ StillPaid(s)
                 THEN [sub EXCEPT ![s].status = "expired"] ELSE sub
    /\ UNCHANGED <<now, rz, user, awaited, del, read, history, mishaps>>

\* A charge may come late in its cycle, after a halt.
Charge(s) ==
    LET k == rz[s].charges + 1
        start == IF k = 1 THEN now ELSE rz[s].start
        due == start + (k - 1) * Period(s)
    IN  /\ Told("charge", s) /\ rz[s].state \in {"running", "stopped"} /\ k <= MaxCharges
        /\ now \in due..due + Period(s)
        /\ rz' = [rz EXCEPT ![s].start = start, ![s].charges = k, ![s].state = "running"]
        /\ Send({"charged"} \cup {x \in {"activated"} : k = 1}, s, k)
        /\ UNCHANGED <<now, sub, user, del, read, history, mishaps>>

Halt(s, kind) ==
    /\ Told(kind, s) /\ rz[s].state = "running" /\ rz[s].charges > 0
    /\ kind = "halted" => now >= CycleEnd(s, rz[s].charges)
    /\ rz' = [rz EXCEPT ![s].state = "stopped", ![s].stop = rz[s].charges]
    /\ Send({kind}, s, rz[s].charges)
    /\ UNCHANGED <<now, sub, user, del, read, history, mishaps>>

Resume(s) ==
    /\ Told("resumed", s) /\ rz[s].state = "stopped"
    /\ rz' = [rz EXCEPT ![s].state = "running"]
    /\ Send({"resumed"}, s, rz[s].charges)
    /\ UNCHANGED <<now, sub, user, del, read, history, mishaps>>

Finish(s, kind) ==
    /\ Told(kind, s)
    /\ CASE kind = "cancelled" -> rz[s].state \in {"running", "stopped"}
         [] kind = "completed" -> /\ rz[s].state = "running" /\ rz[s].charges = MaxCharges
                                  /\ now >= CycleEnd(s, MaxCharges)
         [] kind = "expired" -> rz[s].state = "over" /\ now > CycleEnd(s, rz[s].charges)
    /\ rz' = [rz EXCEPT ![s].state = IF kind = "expired" THEN "expired" ELSE "over"]
    /\ Send({kind}, s, rz[s].charges)
    /\ UNCHANGED <<now, sub, user, del, read, history, mishaps>>

\* A month passes.  Razorpay's retries of an event last a day.
Tick ==
    /\ Told("month", None) /\ awaited = {}
    /\ \A w \in Worker : del[w] = Quiet
    /\ \A r \in Reader : read[r] = Resting
    /\ now' = now + 1
    /\ sub' = [s \in Sub |-> IF sub[s].claim = "pending"
                               THEN [sub[s] EXCEPT !.claim = "stale"] ELSE sub[s]]
    /\ UNCHANGED <<rz, user, awaited, del, read, history, mishaps>>

-----------------------------------------------------------------------------
(* The deliveries. *)

\* A 200 that Razorpay does not receive leaves the event to be delivered again.
Answer(e) ==
    \/ awaited' = awaited \ {e} /\ UNCHANGED mishaps
    \/ UNCHANGED awaited /\ mishaps < MaxMishaps /\ mishaps' = mishaps + 1

Done(w, e) == del' = [del EXCEPT ![w] = Quiet] /\ Answer(e)
Fails(w) == del' = [del EXCEPT ![w] = Quiet] /\ UNCHANGED awaited
Goto(w, pc) == del' = [del EXCEPT ![w].pc = pc] /\ UNCHANGED awaited
Acknowledged(w) == del' = [del EXCEPT ![w] = Quiet] /\ awaited' = awaited \ {del[w].event}
Stays(w, pc) == Goto(w, pc) /\ UNCHANGED mishaps

\* What runs at the same time is bounded; two reads, while Razorpay waits for nothing.
Busy == Cardinality({w \in Worker : del[w] # Quiet}) + Cardinality({r \in Reader : read[r] # Resting})

\* Which place a delivery or a read takes makes no difference.
Free(w) == del[w] = Quiet /\ w = CHOOSE v \in Worker : del[v] = Quiet
Idle(r) ==
    /\ read[r] = Resting /\ Busy < MaxBusy
    /\ r = CHOOSE q \in Reader : read[q] = Resting
    /\ awaited = {} \/ \A q \in Reader : read[q] = Resting

\* Razorpay delivers an event until it is answered 200, again before a slow delivery
\* of it is over.
MayDeliver(e) == e \in awaited /\ Busy < MaxBusy

\* The one update each of these events makes, when its filter matches.
Rule(e) ==
    CASE e.kind = "authenticated" -> sub[e.sub].status = "created"
      [] e.kind = "resumed" -> sub[e.sub].status \in Stopped /\ Fresh(e)
      [] e.kind \in Stopped -> sub[e.sub].status \notin Terminal /\ Fresh(e)
      [] e.kind \in {"cancelled", "completed"} -> sub[e.sub].status # "expired"

ApplyStatus(e) ==
    /\ e.kind \in {"authenticated", "resumed", "cancelled", "completed"} \cup Stopped
    /\ MayDeliver(e)
    /\ sub' = IF Rule(e) THEN [sub EXCEPT ![e.sub].status =
                                  IF e.kind = "resumed" THEN "active" ELSE e.kind]
                         ELSE sub
    /\ Answer(e)
    /\ UNCHANGED <<now, razorpay, user, del, read, history>>

\* expired: saved on the document, unconditionally.
SaveExpired(w, e) ==
    /\ Free(w) /\ e.kind = "expired" /\ MayDeliver(e)
    /\ sub' = [sub EXCEPT ![e.sub].status = "expired"]
    /\ del' = [del EXCEPT ![w] = [Quiet EXCEPT !.pc = "others", !.event = e]]
    /\ UNCHANGED <<now, razorpay, user, awaited, read, history, mishaps>>

LookForOthers(w) ==
    /\ del[w].pc = "others"
    /\ IF \E o \in Sub \ {del[w].event.sub} : StillPaid(o)
         THEN Done(w, del[w].event) ELSE Stays(w, "downgrade")
    /\ UNCHANGED <<now, razorpay, sub, user, read, history>>

Downgrade(w) ==
    /\ del[w].pc = "downgrade" /\ Stays(w, "zero")
    /\ user' = [user EXCEPT !.plan = "free"]
    /\ UNCHANGED <<now, razorpay, sub, read, history>>

ZeroInk(w) ==
    /\ del[w].pc = "zero" /\ Done(w, del[w].event)
    /\ user' = [user EXCEPT !.ink = FALSE]
    /\ UNCHANGED <<now, razorpay, sub, read, history>>

ChargeEvent(e) == e.kind \in {"charged", "activated"}

\* A charge of the cycle is waiting to be delivered.
Waiting(s, k) == \E e \in awaited : ChargeEvent(e) /\ e.sub = s /\ e.count = k

\* Charged, and neither claimed, or passed by a claim, nor to be delivered again.
Forgotten(s, k) == k <= rz[s].charges /\ ~ (sub[s].count >= k) /\ ~ Waiting(s, k)

\* The plan of a user found without a paid subscription is about to be taken.
TakingPlan ==
    \/ \E w \in Worker : del[w].pc = "downgrade"
    \/ \E r \in Reader : read[r].pc = "zero"

\* Mutant: a cycle granted before is claimed again.
ClaimAgain(s, k) == sub[s].count <= k

\* The claim's filter: a newer cycle, or this one left pending too long.
Claimable(s, k) ==
    \/ sub[s].count < k
    \/ sub[s].count = k /\ sub[s].claim = "stale"

\* A charge makes it active again, unless it ended for good.
Revived(status) == IF status \in Terminal THEN status ELSE "active"

\* The claim's update: the period, the status, the drip's reset and the claim.
Charged(w, s, k) ==
    LET drip == s \in Yearly
        start == CycleStart(s, k)
    IN [status |-> Revived(sub[s].status), count |-> k, paidThrough |-> CycleEnd(s, k),
        anchor |-> IF drip THEN start ELSE sub[s].anchor,
        nextAt |-> IF drip THEN start + 1 ELSE sub[s].nextAt,
        drips |-> IF drip THEN 0 ELSE sub[s].drips,
        claim |-> "pending", token |-> w]

ClaimCycle(w, e) ==
    /\ Free(w) /\ ChargeEvent(e) /\ MayDeliver(e)
    /\ Claimable(e.sub, e.count)
    /\ sub' = [sub EXCEPT ![e.sub] = Charged(w, e.sub, e.count)]
    /\ del' = [del EXCEPT ![w] = [pc |-> "grant", event |-> e, before |-> sub[e.sub]]]
    /\ retaken' = IF sub[e.sub].count = e.count /\ sub[e.sub].claim = "stale"
                    THEN retaken \cup {<<e.sub, e.count>>} ELSE retaken
    /\ UNCHANGED <<now, razorpay, user, awaited, read, grants, lost, reports, doubt, undone,
                   excused, mishaps>>

LoseClaim(w, e) ==
    /\ Free(w) /\ ChargeEvent(e) /\ MayDeliver(e)
    /\ ~ Claimable(e.sub, e.count)
    /\ del' = [del EXCEPT ![w] = [Quiet EXCEPT !.pc = "elsewhere", !.event = e]]
    /\ UNCHANGED <<now, razorpay, sub, user, awaited, read, history, mishaps>>

CycleOf(w) == <<del[w].event.sub, del[w].event.count>>
Drops(w) == {c \in Sub \X Cycle : c = CycleOf(w) /\ Forgotten(c[1], c[2])'}
Strands(w) == {c \in Sub \X Cycle : c[1] = del[w].event.sub /\ Forgotten(c[1], c[2])'}

\* Mutant: a cycle claimed is a cycle granted.
NeverElsewhere(w) ==
    /\ del[w].pc = "elsewhere" /\ Done(w, del[w].event)
    /\ UNCHANGED <<now, razorpay, sub, user, read, grants, lost, reports, doubt, retaken,
                   undone, raced, stranded>>
    /\ dropped' = dropped \cup Drops(w)

\* The cycle is another delivery's: a 500 while that one is pending, else a 200.
PendingElsewhere(w) ==
    LET e == del[w].event
    IN  /\ del[w].pc = "elsewhere"
        /\ IF sub[e.sub].count = e.count /\ sub[e.sub].claim \in {"pending", "stale"}
             THEN Fails(w) /\ UNCHANGED mishaps ELSE Done(w, e)
        /\ UNCHANGED <<now, razorpay, sub, user, read, grants, lost, reports, doubt, retaken,
                       undone, raced, stranded>>
        /\ dropped' = dropped \cup Drops(w)

FirstMonth(w) == <<del[w].event.sub, del[w].event.count, 0>>

Paid == [plan |-> "pro", ink |-> TRUE]

\* The cycle, if its grant lands while a plan is being taken.
Racing(w) == {c \in {CycleOf(w)} : TakingPlan}

Grant(w) ==
    /\ del[w].pc = "grant" /\ Goto(w, "mark")
    /\ user' = Paid /\ grants' = [grants EXCEPT ![FirstMonth(w)] = @ + 1]
    /\ raced' = raced \cup Racing(w)
    /\ UNCHANGED <<now, razorpay, sub, read, lost, reports, doubt, retaken, undone, dropped,
                   stranded, mishaps>>

GrantThrows(w, landed) ==
    /\ del[w].pc = "grant" /\ Goto(w, "rollback")
    /\ mishaps < MaxMishaps /\ mishaps' = mishaps + 1
    /\ IF landed THEN /\ user' = Paid
                      /\ grants' = [grants EXCEPT ![FirstMonth(w)] = @ + 1]
                      /\ raced' = raced \cup Racing(w) /\ doubt' = doubt \cup {CycleOf(w)}
                 ELSE UNCHANGED <<user, grants, raced, doubt>>
    /\ UNCHANGED <<now, razorpay, sub, read, lost, reports, retaken, undone, dropped, stranded>>

\* This delivery still has the claim.
Owns(w) == sub[del[w].event.sub].token = w

\* restoreClaim: the claim and the drip as they were; not the status nor paidThrough.
Restored(w) ==
    LET s == del[w].event.sub
        b == del[w].before
        doc == [sub[s] EXCEPT !.count = b.count, !.claim = b.claim, !.token = b.token]
    IN IF s \in Yearly THEN [doc EXCEPT !.anchor = b.anchor, !.nextAt = b.nextAt,
                                        !.drips = b.drips]
                       ELSE doc

\* The cycle it undoes, if the one it goes back to is over by now.
LateCycle(w) ==
    {c \in {CycleOf(w)} : /\ c[1] \in Yearly /\ del[w].before.count < c[2]
                          /\ now > CycleEnd(c[1], del[w].before.count)}

HoldsCycle(w) == Owns(w) /\ sub[del[w].event.sub].count = del[w].event.count

Rollback(w) ==
    /\ del[w].pc = "rollback" /\ Fails(w)
    /\ IF HoldsCycle(w) THEN /\ sub' = [sub EXCEPT ![del[w].event.sub] = Restored(w)]
                            /\ undone' = undone \cup LateCycle(w) /\ UNCHANGED reports
                       ELSE reports' = reports \cup {CycleOf(w)} /\ UNCHANGED <<sub, undone>>
    /\ UNCHANGED <<now, razorpay, user, read, grants, lost, doubt, retaken, raced, dropped,
                   mishaps>>
    /\ stranded' = IF HoldsCycle(w) THEN stranded \cup Strands(w) ELSE stranded

Mark(w) ==
    LET s == del[w].event.sub
    IN  /\ del[w].pc = "mark" /\ Done(w, del[w].event)
        /\ sub' = IF Owns(w) THEN [sub EXCEPT ![s].claim = "granted"] ELSE sub
        /\ reports' = IF Owns(w) THEN reports ELSE reports \cup {CycleOf(w)}
        /\ UNCHANGED <<now, razorpay, user, read, grants, lost, doubt, retaken, undone, excused>>

\* The rollback, or every try of the mark, throws; it is reported.
UpdateThrows(w, landed) ==
    LET s == del[w].event.sub
        marking == del[w].pc = "mark"
    IN  /\ del[w].pc \in {"rollback", "mark"}
        /\ mishaps < MaxMishaps /\ mishaps' = mishaps + 1
        /\ sub' = CASE landed /\ marking /\ Owns(w) -> [sub EXCEPT ![s].claim = "granted"]
                    [] landed /\ ~ marking /\ HoldsCycle(w) -> [sub EXCEPT ![s] = Restored(w)]
                    [] OTHER -> sub
        /\ undone' = IF landed /\ ~ marking /\ HoldsCycle(w) THEN undone \cup LateCycle(w) ELSE undone
        /\ reports' = reports \cup {CycleOf(w)}
        /\ IF marking THEN Acknowledged(w) ELSE Fails(w)
        /\ UNCHANGED <<now, razorpay, user, read, grants, lost, doubt, retaken, raced, dropped>>
        /\ stranded' = IF landed /\ ~ marking /\ HoldsCycle(w) THEN stranded \cup Strands(w)
                                                            ELSE stranded

\* The process dies, or another call of the handler throws.
Die(w) ==
    /\ del[w].pc # "idle" /\ Fails(w)
    /\ mishaps < MaxMishaps /\ mishaps' = mishaps + 1
    /\ doubt' = IF del[w].pc = "mark" THEN doubt \cup {CycleOf(w)} ELSE doubt
    /\ UNCHANGED <<now, razorpay, sub, user, read, grants, lost, reports, retaken, undone, excused>>

\* CLAIM_STALE_MS goes by, rarely while the delivery with the claim is running.
GoesStale(s) ==
    LET live == \E w \in Worker : del[w].event.sub = s /\ del[w].pc \in {"grant", "mark", "rollback"}
                                  /\ sub[s].token = w
    IN  /\ sub[s].claim = "pending"
        /\ live => mishaps < MaxMishaps
        /\ mishaps' = mishaps + (IF live THEN 1 ELSE 0)
        /\ sub' = [sub EXCEPT ![s].claim = "stale"]
        /\ UNCHANGED <<now, razorpay, user, awaited, del, read, history>>

-----------------------------------------------------------------------------
(* The reads: settleYearlyDrip. *)

At(r, pc) == read' = [read EXCEPT ![r].pc = pc]
Rest(r) == read' = [read EXCEPT ![r] = Resting]

\* The newest yearly plan inside its paid year; what the drip needs is kept.  One with
\* no drip fields, its first claim undone, is passed over with all the others.
ReadPlan(r) ==
    LET dripping == {s \in Sub : Dripping(s)}
        s == Newest(dripping)
    IN  /\ Idle(r)
        /\ IF dripping = {} \/ sub[s].nextAt = None THEN At(r, "ended")
             ELSE /\ sub[s].nextAt \in 1..now /\ DripsLeft(sub[s].drips)
                  /\ read' = [read EXCEPT ![r] =
                        [pc |-> "take", sub |-> s, cycle |-> sub[s].count, n |-> sub[s].drips,
                         nextAt |-> sub[s].nextAt, anchor |-> sub[s].anchor]]
        /\ UNCHANGED <<now, razorpay, sub, user, awaited, del, history, mishaps>>

\* Mutant: on its date alone.
DripDue(r) == sub[read[r].sub].nextAt \in 1..now

\* The compare-and-set on the drip's count; a date not written matches no filter.
DripFree(r) ==
    LET s == read[r].sub
    IN sub[s].drips = read[r].n /\ sub[s].nextAt \in 1..now

TakeDrip(r) ==
    LET s == read[r].sub
    IN  /\ read[r].pc = "take"
        /\ IF DripFree(r)
             THEN /\ sub' = [sub EXCEPT ![s].drips = @ + 1,
                                        ![s].nextAt = read[r].anchor + read[r].n + 2]
                  /\ read' = [read EXCEPT ![r].pc = "set", ![r].n = @ + 1,
                                          ![r].nextAt = read[r].anchor + read[r].n + 2]
             ELSE UNCHANGED sub /\ Rest(r)
        /\ UNCHANGED <<now, razorpay, user, awaited, del, history, mishaps>>

Month(r) == <<read[r].sub, read[r].cycle, read[r].n>>

SetDrip(r) ==
    /\ read[r].pc = "set"
    /\ user' = [user EXCEPT !.ink = TRUE]
    /\ grants' = [grants EXCEPT ![Month(r)] = @ + 1]
    /\ IF read[r].nextAt <= now /\ DripsLeft(read[r].n) THEN At(r, "take") ELSE Rest(r)
    /\ UNCHANGED <<now, razorpay, sub, awaited, del, lost, reports, doubt, retaken, undone,
                   excused, mishaps>>

ReadEnded(r) ==
    /\ read[r].pc = "ended"
    /\ IF \E s \in Sub : PastEnd(s) THEN At(r, "current") ELSE Rest(r)
    /\ UNCHANGED <<now, razorpay, sub, user, awaited, del, history, mishaps>>

ReadCurrent(r) ==
    /\ read[r].pc = "current"
    /\ IF \E s \in Sub : StillPaid(s) THEN Rest(r) ELSE At(r, "zero")
    /\ UNCHANGED <<now, razorpay, sub, user, awaited, del, history, mishaps>>

TakePlan(r) ==
    /\ read[r].pc = "zero" /\ Rest(r)
    /\ user' = [plan |-> "free", ink |-> FALSE]
    /\ UNCHANGED <<now, razorpay, sub, awaited, del, history, mishaps>>

\* A call throws, or the process dies: a drip taken and not yet set is lost.
ReadStops(r) ==
    /\ read[r].pc # "idle" /\ Rest(r)
    /\ mishaps < MaxMishaps /\ mishaps' = mishaps + 1
    /\ lost' = IF read[r].pc = "set" THEN lost \cup {Month(r)} ELSE lost
    /\ UNCHANGED <<now, razorpay, sub, user, awaited, del, grants, reports, doubt, retaken,
                   undone, excused>>

-----------------------------------------------------------------------------
ClaimStep(w) == \E e \in awaited : ClaimCycle(w, e) \/ LoseClaim(w, e) \/ SaveExpired(w, e)

HandlerStep(w) ==
    \/ LookForOthers(w) \/ Downgrade(w) \/ ZeroInk(w)
    \/ PendingElsewhere(w) \/ Grant(w) \/ Rollback(w) \/ Mark(w)

ReadStep(r) ==
    \/ ReadPlan(r) \/ ReadEnded(r) \/ ReadCurrent(r) \/ TakePlan(r)
    \/ TakeDrip(r) \/ SetDrip(r)

World ==
    \/ \E s \in Sub :
         \/ Subscribe(s) \/ ExpireLapsed(s) \/ Charge(s) \/ Resume(s) \/ GoesStale(s)
         \/ \E kind \in Stopped : Halt(s, kind)
         \/ \E kind \in Terminal : Finish(s, kind)
    \/ Tick

Trouble ==
    \/ \E w \in Worker : Die(w) \/ \E landed \in BOOLEAN : GrantThrows(w, landed)
                                                          \/ UpdateThrows(w, landed)
    \/ \E r \in Reader : ReadStops(r)

Next ==
    \/ World \/ Trouble
    \/ \E e \in awaited : ApplyStatus(e)
    \/ \E w \in Worker : ClaimStep(w) \/ HandlerStep(w)
    \/ \E r \in Reader : ReadStep(r)

Spec == Init /\ [][Next]_vars

\* An event not answered yet is delivered in the end; handlers and reads go on.
\* Strong, as the places are bounded: Razorpay does not wait for a free one.
Deliver ==
    \E e \in awaited : \/ ApplyStatus(e)
                       \/ \E w \in Worker : ClaimCycle(w, e) \/ LoseClaim(w, e) \/ SaveExpired(w, e)

FairSpec ==
    /\ Spec
    /\ SF_vars(Deliver)
    /\ \A w \in Worker : WF_vars(HandlerStep(w))
    /\ \A r \in Reader : WF_vars(ReadStep(r))
    /\ \A s \in Sub : WF_vars(GoesStale(s))

-----------------------------------------------------------------------------
(* Properties. *)

\* The variables have their types.
TypeOK ==
    /\ now \in Nat
    /\ rz \in [Sub -> [start : Nat, charges : 0..MaxCharges, stop : 0..MaxCharges,
                       state : {"none", "running", "stopped", "over", "expired"}]]
    /\ sub \in [Sub -> Doc]
    /\ user \in [plan : {"free", "pro"}, ink : BOOLEAN]
    /\ awaited \subseteq Event
    /\ del \in [Worker -> [pc : {"idle", "others", "downgrade", "zero", "elsewhere", "grant",
                                "mark", "rollback"},
                          event : Event \cup {NoEvent}, before : Doc]]
    /\ read \in [Reader -> Reading]
    /\ grants \in [GrantKey -> Nat] /\ lost \subseteq GrantKey
    /\ reports \cup doubt \cup retaken \cup undone \subseteq Sub \X Cycle
    /\ raced \cup dropped \cup stranded \subseteq Sub \X Cycle
    /\ mishaps \in 0..MaxMishaps

\* A month's Ink is granted once, by its charge or by its drip, however many
\* deliveries and reads race for it; again only for a cycle whose claim was left
\* pending too long, a first month whose grant threw after it landed (the claim's
\* filter and the compare-and-set on inkDripCount), and a drip of a subscription with
\* a claim undone late, which took the count of the drips with it.
OncePerMonth ==
    \A g \in GrantKey : grants[g] > 1 =>
        \/ <<g[1], g[2]>> \in retaken
        \/ g[3] = 0 /\ <<g[1], g[2]>> \in doubt
        \/ g[3] > 0 /\ \E k \in Cycle : <<g[1], k>> \in undone

\* A cycle granted twice is reported, or is about to be, unless the attempt that
\* would report it died or could not know ("check for a double grant").
DoubleReported ==
    \A s \in Sub, k \in Cycle :
        grants[<<s, k, 0>>] > 1 =>
            \/ <<s, k>> \in reports \cup doubt
            \/ \E w \in Worker : del[w].pc = "mark" /\ CycleOf(w) = <<s, k>> /\ ~ Owns(w)

\* What is true of the grants in every state, together: a month is granted once,
\* and a cycle for which that could not be had is reported.
GrantsOK == TypeOK /\ OncePerMonth /\ DoubleReported

\* Every drip the document counts in its cycle was granted to that cycle, is being
\* granted, or was lost by a read that stopped: a renewal, a claim undone or a
\* claim taken over never makes the count speak of another cycle's drips, unless the
\* claim was undone late.
MonthsAccounted ==
    \A s \in Sub : sub[s].count > 0 /\ (\A k \in Cycle : <<s, k>> \notin undone) =>
        \A m \in 1..sub[s].drips :
            LET g == <<s, sub[s].count, m>>
            IN \/ grants[g] > 0 \/ g \in lost
               \/ \E r \in Reader : read[r].pc = "set" /\ Month(r) = g

\* A subscription is stopped only by a stop that came after the last charge it
\* granted: a halt delivered after the charge that ended it changes nothing.
StoppedSinceCharge ==
    [][\A s \in Sub : sub'[s].status \in Stopped => sub'[s].count <= rz'[s].stop]_vars

\* The user keeps the plan through every cycle that was charged and granted,
\* whatever became of the subscription, and whatever other subscriptions ended;
\* not one already written expired when its charge came.
PaidFor(s, k) ==
    grants[<<s, k, 0>>] > 0 /\ CycleEnd(s, k) >= now /\ sub[s].status # "expired"

PaidKeepsPlan == \A s \in Sub, k \in Cycle : PaidFor(s, k) => user.plan = "pro"

\* So it is in every state, but for the charge granted while a finding that nothing is
\* paid for was on its way to the plan (plan_taken), and the one that was answered for
\* by a second delivery of it while its grant threw, though the Ink had landed: an
\* earlier charge that comes after it shortens what is paid for.
PaidPlanStays ==
    \A s \in Sub, k \in Cycle :
        PaidFor(s, k) /\ <<s, k>> \notin raced \cup dropped \cup stranded => user.plan = "pro"

\* A subscription that ended stays ended, and an expired one expired, whatever
\* charges and events come late.
EndedStays ==
    [][\A s \in Sub : sub[s].status \in Terminal =>
          sub'[s].status \in Terminal /\ (sub[s].status = "expired" => sub'[s].status = "expired")]_vars

\* The stops a subscription shows are true: each came after the last charge that
\* was granted, and an end is never undone.
StopsAreTrue == StoppedSinceCharge /\ EndedStays

\* A cycle the user paid for is granted in the end, or reported for a manual
\* grant: no order of deliveries, retries, throws and deaths loses it silently, but a
\* second delivery that found it neither claimed nor granted and answered for it.
Owed ==
    \E s \in Sub : \E k \in 1..rz[s].charges :
        grants[<<s, k, 0>>] = 0 /\ <<s, k>> \notin reports \cup dropped
ChargeSettles == []<> ~ Owed

\* A user none of whose subscriptions is paid for any more, one of them ended,
\* loses the plan and its Ink in the end, by an event or by the next reads.
Unpaid ==
    /\ \E s \in Sub : sub[s].status \in Ended
    /\ \A s \in Sub : sub[s].status # "active" /\ sub[s].paidThrough < now
UnpaidEndsFree == Unpaid ~> user = [plan |-> "free", ink |-> FALSE] \/ ~ Unpaid

\* What is owed is settled in the end, to the user and by the user.
Settles == ChargeSettles /\ UnpaidEndsFree

=============================================================================
