----------------------- MODULE SubscriptionCycleProofs -----------------------
(***************************************************************************)
(* What holds of a user's subscriptions whatever Razorpay's histories, the *)
(* number of deliveries, reads, cycles and mishaps: a month's Ink is       *)
(* granted once and a cycle granted twice is reported, the drips a         *)
(* document counts are accounted for, the stops it shows are true, and a   *)
(* cycle paid for and granted keeps the plan.                              *)
(***************************************************************************)
EXTENDS SubscriptionCycle, FiniteSetTheorems, WellFoundedInduction, TLAPS

-----------------------------------------------------------------------------
(* The inductive invariant: what is sent, charged and being delivered. *)

Live(w) == del[w].pc \in {"grant", "rollback", "mark"}
OnCycle(w, s, k) == Live(w) /\ CycleOf(w) = <<s, k>>

\* An event speaks of what was charged, a stop of what was charged before it.
EventsOK ==
    \A e \in awaited :
        /\ e.count <= rz[e.sub].charges
        /\ ChargeEvent(e) => e.count > 0
        /\ e.kind = "activated" => e.count = 1
        /\ e.kind \in Stopped => e.count <= rz[e.sub].stop

\* A document counts, and a grant pays for, only what was charged.
ChargesOK ==
    /\ now > 0
    /\ \A s \in Sub :
        /\ rz[s].stop <= rz[s].charges
        /\ sub[s].count <= rz[s].charges
        /\ rz[s].charges > 0 => rz[s].start \in 1..now
        /\ \A k \in Cycle, m \in 0..YEARLY_DRIP_MAX :
              grants[<<s, k, m>>] > 0 => k <= rz[s].charges

StopOK == \A s \in Sub : sub[s].status \in Stopped => sub[s].count <= rz[s].stop

\* What a delivery knows: its claim went up, unless the claim was a stale one.
WorkerOK(w) ==
    LET e == del[w].event
    IN  /\ del[w].pc = "idle" => del[w] = Quiet
        /\ Live(w) \/ del[w].pc = "elsewhere" =>
             /\ e \in Event /\ ChargeEvent(e) /\ e.count \in 1..rz[e.sub].charges
             /\ e.kind = "activated" => e.count = 1
        /\ Live(w) =>
             /\ del[w].before.count <= e.count
             /\ del[w].before.count = e.count => CycleOf(w) \in retaken
        /\ del[w].pc \in {"others", "downgrade", "zero"} =>
             e \in Event /\ e.kind = "expired" /\ sub[e.sub].status = "expired"

\* A drip is not a first month.
ReaderOK(r) ==
    /\ read[r].pc \in {"take", "set"} =>
         /\ read[r].sub \in Yearly /\ read[r].cycle \in 1..rz[read[r].sub].charges
    /\ read[r].pc = "take" => read[r].n < YEARLY_DRIP_MAX
    /\ read[r].pc = "set" => read[r].n > 0

\* A drip's date is a cycle's.
DatesOK ==
    \A s \in Yearly :
        /\ sub[s].nextAt > 0 => sub[s].count > 0
        /\ \A w \in Worker : Live(w) /\ del[w].event.sub = s =>
             (del[w].before.nextAt > 0 => del[w].before.count > 0)

Base ==
    /\ DatesOK /\ TypeOK /\ EventsOK /\ ChargesOK /\ StopOK
    /\ \A w \in Worker : WorkerOK(w)
    /\ \A r \in Reader : ReaderOK(r)

-----------------------------------------------------------------------------
(* Types. *)

\* Of a set of subsets of a finite set, one has no smaller one in it.
LEMMA LeastSubset ==
    ASSUME NEW S, IsFiniteSet(S), NEW C \in SUBSET SUBSET S, C # {}
    PROVE  \E x \in C : \A y \in C : y \subseteq x => y = x
  <1>1. IsWellFoundedOn(StrictSubsetOrdering(S), SUBSET S)
    BY FS_StrictSubsetOrderingWellFounded, FS_FiniteSubsetsOfFinite
  <1>2. \E x \in C : \A y \in C : ~ (<<y, x>> \in StrictSubsetOrdering(S))
    BY <1>1, WFMin
  <1>3. \A x, y \in SUBSET S : y \subseteq x /\ y # x => <<y, x>> \in StrictSubsetOrdering(S)
    BY DEF StrictSubsetOrdering
  <1> QED
    BY <1>2, <1>3

\* The newest of some subscriptions is one of them.
LEMMA NewestIn ==
    ASSUME NEW S \in SUBSET Sub, S # {}
    PROVE  Newest(S) \in S
  <1>1. MaxSubs \in Nat /\ IsFiniteSet(Sub)
    BY FS_Interval, SizeAssumption DEF Sub
  <1>2. \A s \in Sub : s \in Nat /\ s <= MaxSubs
    BY <1>1 DEF Sub
  <1> DEFINE Newer == {s..MaxSubs : s \in S}
  <1>3. Newer \subseteq SUBSET Sub /\ Newer # {}
    <2>1. \A s \in S : s..MaxSubs \in SUBSET Sub
      BY <1>1, <1>2 DEF Sub
    <2> QED
      BY <2>1
  <1>4. PICK b \in Newer : \A y \in Newer : y \subseteq b => y = b
    <2> HIDE DEF Newer
    <2> QED
      BY <1>1, <1>3, LeastSubset
  <1>5. PICK s \in S : b = s..MaxSubs
    BY <1>4
  <1>6. ASSUME NEW o \in S, s < o PROVE FALSE
    <2>1. o..MaxSubs \subseteq s..MaxSubs /\ s \in s..MaxSubs /\ s \notin o..MaxSubs
      BY <1>6, <1>1, <1>2
    <2> QED
      BY <2>1, <1>4, <1>5
  <1>7. \A o \in S : o <= s
    BY <1>2, <1>6
  <1> QED
    BY <1>7 DEF Newest

LEMMA Sizes ==
    /\ MaxCharges \in Nat \ {0} /\ YearLen \in Nat \ {0} /\ MaxSubs \in Nat \ {0}
    /\ YEARLY_DRIP_MAX \in Nat /\ MaxMishaps \in Nat
    /\ Sub \subseteq Nat \ {0} /\ Cycle \subseteq Nat \ {0} /\ Yearly \subseteq Sub
    /\ None = 0
  BY SizeAssumption, BoundAssumption, PlanAssumption DEF Sub, Cycle, YEARLY_DRIP_MAX, None

LEMMA NoDocType == NoDoc \in Doc
  BY Sizes DEF NoDoc, Doc, Status, None

\* The start and the end of a cycle are months.
LEMMA CycleType ==
    ASSUME TypeOK, NEW s \in Sub, NEW k \in 1..MaxCharges
    PROVE  CycleStart(s, k) \in Nat /\ CycleEnd(s, k) \in Nat /\ Period(s) \in Nat
  <1>1. rz[s].start \in Nat
    BY DEF TypeOK
  <1>2. Period(s) \in Nat
    BY Sizes DEF Period
  <1>3. \A a, b \in Nat : a * b \in Nat
    OBVIOUS
  <1>4. (k - 1) * Period(s) \in Nat /\ k * Period(s) \in Nat
    BY <1>2, <1>3, Sizes
  <1> HIDE DEF Period
  <1> QED
    BY <1>1, <1>2, <1>4 DEF CycleStart, CycleEnd

DelRecord == [pc : {"idle", "others", "downgrade", "zero", "elsewhere", "grant",
                    "mark", "rollback"},
              event : Event \cup {NoEvent}, before : Doc]

Contract == [start : Nat, charges : 0..MaxCharges, stop : 0..MaxCharges,
             state : {"none", "running", "stopped", "over", "expired"}]

LEMMA QuietType == Quiet \in DelRecord
  BY NoDocType DEF Quiet, DelRecord

LEMMA RestingType == Resting \in Reading
  BY Sizes DEF Resting, Reading, None

LEMMA TypeInit == Init => TypeOK
  BY Sizes, NoDocType, QuietType, RestingType DEF Init, TypeOK, DelRecord, None

\* Events sent are events.
LEMMA SendType ==
    ASSUME NEW kinds \in SUBSET Kind, NEW s \in Sub, NEW n \in 0..MaxCharges,
           awaited \subseteq Event, Send(kinds, s, n)
    PROVE  awaited' \subseteq Event
  BY DEF Send, Event

\* A document with another status or another state of its claim.
LEMMA DocChanges ==
    ASSUME NEW d \in Doc
    PROVE  /\ \A x \in Status : [d EXCEPT !.status = x] \in Doc
           /\ \A x \in {"stale", "granted"} : [d EXCEPT !.claim = x] \in Doc
  BY DEF Doc

LEMMA TypeWorld ==
    ASSUME TypeOK, World
    PROVE  TypeOK'
  <1> USE Sizes
  <1>1. ASSUME NEW s \in Sub, Subscribe(s)
        PROVE  TypeOK'
    <2>1. awaited' \subseteq Event
      BY <1>1, SendType DEF Subscribe, TypeOK, Kind
    <2>2. sub' \in [Sub -> Doc]
      <3>1. [sub[s] EXCEPT !.status = "created"] \in Doc
        BY DocChanges DEF TypeOK, Status, Checkout
      <3> QED
        BY <1>1, <3>1 DEF Subscribe, TypeOK
    <2> QED
      BY <1>1, <2>1, <2>2 DEF Subscribe, TypeOK, history, excused
  <1>2. ASSUME NEW s \in Sub, ExpireLapsed(s)
        PROVE  TypeOK'
    <2>2. sub' \in [Sub -> Doc]
      <3>1. [sub[s] EXCEPT !.status = "expired"] \in Doc
        BY DocChanges DEF TypeOK, Status, Ended
      <3> QED
        BY <1>2, <3>1 DEF ExpireLapsed, TypeOK
    <2> QED
      BY <1>2, <2>2 DEF ExpireLapsed, TypeOK, history, excused
  <1>3. ASSUME NEW s \in Sub, Charge(s)
        PROVE  TypeOK'
    <2> DEFINE k == rz[s].charges + 1
    <2>1. k \in 0..MaxCharges
      BY <1>3 DEF Charge, TypeOK
    <2>2. awaited' \subseteq Event
      BY <1>3, <2>1, SendType DEF Charge, TypeOK, Kind
    <2>3. rz' \in [Sub -> [start : Nat, charges : 0..MaxCharges, stop : 0..MaxCharges,
                           state : {"none", "running", "stopped", "over", "expired"}]]
      BY <1>3, <2>1 DEF Charge, TypeOK
    <2> QED
      BY <1>3, <2>2, <2>3 DEF Charge, TypeOK, history, excused
  <1>4. ASSUME NEW s \in Sub, Resume(s)
        PROVE  TypeOK'
    <2>1. awaited' \subseteq Event
      BY <1>4, SendType DEF Resume, TypeOK, Kind
    <2> QED
      BY <1>4, <2>1 DEF Resume, TypeOK, history, excused
  <1>5. ASSUME NEW s \in Sub, GoesStale(s)
        PROVE  TypeOK'
    <2>1. sub' \in [Sub -> Doc]
      <3>1. [sub[s] EXCEPT !.claim = "stale"] \in Doc
        BY DocChanges DEF TypeOK
      <3> QED
        BY <1>5, <3>1 DEF GoesStale, TypeOK
    <2>2. mishaps' \in 0..MaxMishaps
      BY <1>5 DEF GoesStale, TypeOK
    <2> QED
      BY <1>5, <2>1, <2>2 DEF GoesStale, TypeOK, history, excused, razorpay
  <1>6. ASSUME NEW s \in Sub, NEW kind \in Stopped, Halt(s, kind)
        PROVE  TypeOK'
    <2>1. awaited' \subseteq Event
      BY <1>6, SendType DEF Halt, TypeOK, Kind, Ended, PaidThroughStatus
    <2>2. rz' \in [Sub -> Contract]
      <3>1. rz[s] \in Contract
        BY DEF TypeOK, Contract
      <3>2. [rz[s] EXCEPT !.state = "stopped", !.stop = rz[s].charges] \in Contract
        BY <3>1 DEF Contract
      <3>3. rz' = [rz EXCEPT ![s] = [rz[s] EXCEPT !.state = "stopped", !.stop = rz[s].charges]]
        BY <1>6 DEF Halt
      <3> QED
        BY <3>2, <3>3 DEF TypeOK, Contract
    <2> QED
      BY <1>6, <2>1, <2>2 DEF Halt, TypeOK, history, excused, Contract
  <1>7. ASSUME NEW s \in Sub, NEW kind \in Terminal, Finish(s, kind)
        PROVE  TypeOK'
    <2>1. awaited' \subseteq Event
      BY <1>7, SendType DEF Finish, TypeOK, Kind, Ended, PaidThroughStatus, Terminal
    <2> QED
      BY <1>7, <2>1 DEF Finish, TypeOK, history, excused
  <1>8. ASSUME Tick
        PROVE  TypeOK'
    <2>1. sub' \in [Sub -> Doc]
      <3>1. \A s \in Sub : [sub[s] EXCEPT !.claim = "stale"] \in Doc
        BY DocChanges DEF TypeOK
      <3> QED
        BY <1>8, <3>1 DEF Tick, TypeOK
    <2> QED
      BY <1>8, <2>1 DEF Tick, TypeOK, history, excused
  <1> QED
    BY <1>1, <1>2, <1>3, <1>4, <1>5, <1>6, <1>7, <1>8 DEF World

\* What a delivery leaves in Razorpay's hands.
LEMMA AnswerType ==
    ASSUME TypeOK, NEW e, Answer(e)
    PROVE  awaited' \subseteq awaited /\ mishaps' \in 0..MaxMishaps
  BY Sizes DEF Answer, TypeOK

LEMMA MoveType ==
    ASSUME TypeOK, NEW w \in Worker
    PROVE  /\ \A e : Done(w, e) => /\ del' \in [Worker -> DelRecord]
                                   /\ awaited' \subseteq Event /\ mishaps' \in 0..MaxMishaps
           /\ \A pc \in {"mark", "rollback", "downgrade", "zero"} :
                 Goto(w, pc) => del' \in [Worker -> DelRecord] /\ awaited' \subseteq Event
           /\ Fails(w) => del' \in [Worker -> DelRecord] /\ awaited' \subseteq Event
           /\ Acknowledged(w) => del' \in [Worker -> DelRecord] /\ awaited' \subseteq Event
  <1>1. del \in [Worker -> DelRecord] /\ awaited \subseteq Event
    BY DEF TypeOK, DelRecord
  <1>2. ASSUME NEW e, Done(w, e)
        PROVE  /\ del' \in [Worker -> DelRecord]
               /\ awaited' \subseteq Event /\ mishaps' \in 0..MaxMishaps
    BY <1>1, <1>2, AnswerType, QuietType DEF Done
  <1>3. ASSUME NEW pc \in {"mark", "rollback", "downgrade", "zero"}, Goto(w, pc)
        PROVE  del' \in [Worker -> DelRecord] /\ awaited' \subseteq Event
    BY <1>1, <1>3 DEF Goto, DelRecord
  <1>4. ASSUME Fails(w) PROVE del' \in [Worker -> DelRecord] /\ awaited' \subseteq Event
    BY <1>1, <1>4, QuietType DEF Fails
  <1>5. ASSUME Acknowledged(w) PROVE del' \in [Worker -> DelRecord] /\ awaited' \subseteq Event
    BY <1>1, <1>5, QuietType DEF Acknowledged
  <1> QED
    BY <1>2, <1>3, <1>4, <1>5

LEMMA RuleType ==
    ASSUME TypeOK, NEW w \in Worker, del[w].pc \in {"grant", "mark", "rollback"},
           del[w].event \in Event, del[w].event.count > 0
    PROVE  /\ CycleOf(w) \in Sub \X Cycle /\ FirstMonth(w) \in GrantKey
           /\ Restored(w) \in Doc
  <1>1. del[w].event.sub \in Sub /\ del[w].event.count \in Cycle
    BY DEF Event, Cycle
  <1>2. del[w].before \in Doc /\ sub[del[w].event.sub] \in Doc
    BY <1>1 DEF TypeOK
  <1>3. Restored(w) \in Doc
    BY <1>1, <1>2 DEF Restored, Doc
  <1> QED
    BY <1>1, <1>3, Sizes DEF CycleOf, FirstMonth, GrantKey
LEMMA ClaimType ==
    ASSUME TypeOK, EventsOK, NEW w \in Worker, NEW e \in awaited, ClaimCycle(w, e)
    PROVE  /\ e \in Event /\ e.sub \in Sub /\ e.count \in Cycle
           /\ Charged(w, e.sub, e.count) \in Doc
           /\ <<e.sub, e.count>> \in Sub \X Cycle
  <1>1. e \in Event /\ e.sub \in Sub /\ e.count \in Cycle
    BY Sizes DEF ClaimCycle, EventsOK, TypeOK, Event, Cycle
  <1>2. /\ CycleStart(e.sub, e.count) \in Nat /\ CycleEnd(e.sub, e.count) \in Nat
    BY <1>1, CycleType DEF Cycle
  <1>3. sub[e.sub] \in Doc
    BY <1>1 DEF TypeOK
  <1>4. Revived(sub[e.sub].status) \in Status
    BY <1>3 DEF Revived, Doc, Status
  <1>5. Charged(w, e.sub, e.count) \in Doc
    BY <1>1, <1>2, <1>3, <1>4, Sizes DEF Charged, Doc, Cycle
  <1> QED
    BY <1>1, <1>5

LEMMA TypeDeliver ==
    ASSUME TypeOK, EventsOK, NEW e \in awaited,
           \/ ApplyStatus(e)
           \/ \E w \in Worker : ClaimCycle(w, e) \/ LoseClaim(w, e) \/ SaveExpired(w, e)
    PROVE  TypeOK'
  <1>0. e \in Event /\ e.sub \in Sub /\ sub[e.sub] \in Doc
    BY DEF TypeOK, Event
  <1>1. ASSUME ApplyStatus(e) PROVE TypeOK'
    <2>1. awaited' \subseteq Event /\ mishaps' \in 0..MaxMishaps
      BY <1>1, AnswerType DEF ApplyStatus, TypeOK
    <2>2. \A x \in Status : [sub[e.sub] EXCEPT !.status = x] \in Doc
      BY <1>0, DocChanges
    <2>3. sub' \in [Sub -> Doc]
      <3> DEFINE x == IF e.kind = "resumed" THEN "active" ELSE e.kind
      <3>1. x \in Status
        BY <1>1 DEF ApplyStatus, Status, Ended, PaidThroughStatus, Checkout
      <3>2. sub' = sub \/ sub' = [sub EXCEPT ![e.sub] = [sub[e.sub] EXCEPT !.status = x]]
        BY <1>1 DEF ApplyStatus
      <3> HIDE DEF x
      <3> QED
        BY <2>2, <3>1, <3>2 DEF TypeOK
    <2> QED
      BY <1>1, <2>1, <2>3 DEF ApplyStatus, TypeOK, razorpay, history, excused
  <1>2. ASSUME NEW w \in Worker, ClaimCycle(w, e) PROVE TypeOK'
    <2>1. Charged(w, e.sub, e.count) \in Doc /\ <<e.sub, e.count>> \in Sub \X Cycle
      BY <1>2, ClaimType
    <2>2. sub' \in [Sub -> Doc]
      BY <1>2, <2>1 DEF ClaimCycle, TypeOK
    <2>3. del' \in [Worker -> DelRecord]
      <3>1. [pc |-> "grant", event |-> e, before |-> sub[e.sub]] \in DelRecord
        BY <1>0 DEF DelRecord
      <3> QED
        BY <1>2, <3>1 DEF ClaimCycle, TypeOK, DelRecord
    <2>4. retaken' \subseteq Sub \X Cycle
      BY <1>2, <2>1 DEF ClaimCycle, TypeOK
    <2> QED
      BY <1>2, <2>2, <2>3, <2>4 DEF ClaimCycle, TypeOK, razorpay, excused, DelRecord
  <1>3. ASSUME NEW w \in Worker, LoseClaim(w, e) PROVE TypeOK'
    <2>1. [Quiet EXCEPT !.pc = "elsewhere", !.event = e] \in DelRecord
      BY <1>0, NoDocType DEF DelRecord, Quiet
    <2>2. del' \in [Worker -> DelRecord]
      BY <1>3, <2>1 DEF LoseClaim, TypeOK, DelRecord
    <2> QED
      BY <1>3, <2>2 DEF LoseClaim, TypeOK, razorpay, history, excused, DelRecord
  <1>4. ASSUME NEW w \in Worker, SaveExpired(w, e) PROVE TypeOK'
    <2>1. [Quiet EXCEPT !.pc = "others", !.event = e] \in DelRecord
      BY <1>0, NoDocType DEF DelRecord, Quiet
    <2>2. del' \in [Worker -> DelRecord]
      BY <1>4, <2>1 DEF SaveExpired, TypeOK, DelRecord
    <2>3. [sub[e.sub] EXCEPT !.status = "expired"] \in Doc
      BY <1>0, DocChanges DEF Status, Ended
    <2>4. sub' \in [Sub -> Doc]
      BY <1>4, <2>3 DEF SaveExpired, TypeOK
    <2> QED
      BY <1>4, <2>2, <2>4 DEF SaveExpired, TypeOK, razorpay, history, excused, DelRecord
  <1> QED
    BY <1>1, <1>2, <1>3, <1>4

LEMMA TypeHandler ==
    ASSUME TypeOK, NEW w \in Worker, WorkerOK(w),
           \/ HandlerStep(w) \/ Die(w)
           \/ \E landed \in BOOLEAN : GrantThrows(w, landed) \/ UpdateThrows(w, landed)
    PROVE  TypeOK'
  <1> DEFINE s == del[w].event.sub
  <1>0. Drops(w) \cup Strands(w) \subseteq Sub \X Cycle
    BY DEF Drops, Strands
  <1>1. CASE LookForOthers(w)
    BY <1>1, MoveType DEF LookForOthers, Stays, TypeOK, razorpay, history, excused, DelRecord
  <1>2. CASE Downgrade(w)
    BY <1>2, MoveType DEF Downgrade, Stays, TypeOK, razorpay, history, excused, DelRecord
  <1>3. CASE ZeroInk(w)
    BY <1>3, MoveType DEF ZeroInk, TypeOK, razorpay, history, excused, DelRecord
  <1>4. CASE PendingElsewhere(w)
    <2>1. dropped' \subseteq Sub \X Cycle
      BY <1>0, <1>4 DEF PendingElsewhere, TypeOK
    <2>2. (Fails(w) /\ UNCHANGED mishaps) \/ Done(w, del[w].event)
      BY <1>4 DEF PendingElsewhere
    <2>3. /\ del' \in [Worker -> DelRecord] /\ awaited' \subseteq Event
          /\ mishaps' \in 0..MaxMishaps
      BY <2>2, MoveType DEF TypeOK
    <2> QED
      BY <1>4, <2>1, <2>3 DEF PendingElsewhere, TypeOK, razorpay, DelRecord
  <1>5. ASSUME Live(w)
        PROVE  /\ CycleOf(w) \in Sub \X Cycle /\ FirstMonth(w) \in GrantKey
               /\ Restored(w) \in Doc /\ s \in Sub /\ LateCycle(w) \subseteq Sub \X Cycle
               /\ [sub[s] EXCEPT !.claim = "granted"] \in Doc
    <2>1. del[w].event \in Event /\ del[w].event.count > 0 /\ s \in Sub
      BY <1>5 DEF WorkerOK, Event, TypeOK
    <2>2. /\ CycleOf(w) \in Sub \X Cycle /\ FirstMonth(w) \in GrantKey
          /\ Restored(w) \in Doc
      BY <1>5, <2>1, RuleType DEF Live
    <2>3. [sub[s] EXCEPT !.claim = "granted"] \in Doc
      BY <2>1, DocChanges DEF TypeOK
    <2> QED
      BY <2>1, <2>2, <2>3 DEF LateCycle
  <1>6. CASE Grant(w)
    <2>1. FirstMonth(w) \in GrantKey
      BY <1>5, <1>6 DEF Grant, Live
    <2>2. grants' \in [GrantKey -> Nat]
      BY <1>6, <2>1 DEF Grant, TypeOK
    <2>3. user' \in [plan : {"free", "pro"}, ink : BOOLEAN]
      BY <1>6 DEF Grant, Paid
    <2>4. raced' \subseteq Sub \X Cycle
      BY <1>5, <1>6 DEF Grant, Live, Racing, TypeOK
    <2> QED
      BY <1>6, <2>2, <2>3, <2>4, MoveType DEF Grant, TypeOK, razorpay, DelRecord
  <1>7. ASSUME NEW landed \in BOOLEAN, GrantThrows(w, landed) PROVE TypeOK'
    <2>1. FirstMonth(w) \in GrantKey /\ CycleOf(w) \in Sub \X Cycle
      BY <1>5, <1>7 DEF GrantThrows, Live
    <2>2. grants' \in [GrantKey -> Nat]
      BY <1>7, <2>1 DEF GrantThrows, TypeOK
    <2>3. user' \in [plan : {"free", "pro"}, ink : BOOLEAN]
      <3>1. user' = Paid \/ user' = user
        BY <1>7 DEF GrantThrows
      <3>2. Paid \in [plan : {"free", "pro"}, ink : BOOLEAN]
        BY DEF Paid
      <3> QED
        BY <3>1, <3>2 DEF TypeOK
    <2>4. doubt' \subseteq Sub \X Cycle /\ mishaps' \in 0..MaxMishaps
      BY <1>7, <2>1, Sizes DEF GrantThrows, TypeOK
    <2>5. raced' \subseteq Sub \X Cycle
      BY <1>7, <2>1 DEF GrantThrows, Racing, TypeOK
    <2> QED
      BY <1>7, <2>2, <2>3, <2>4, <2>5, MoveType DEF GrantThrows, TypeOK, razorpay, DelRecord
  <1>8. CASE Rollback(w)
    <2>1. Restored(w) \in Doc /\ LateCycle(w) \cup {CycleOf(w)} \subseteq Sub \X Cycle
      BY <1>5, <1>8 DEF Rollback, Live
    <2>2. sub' \in [Sub -> Doc]
      BY <1>8, <2>1 DEF Rollback, TypeOK
    <2>3. reports' \cup undone' \subseteq Sub \X Cycle
      BY <1>8, <2>1 DEF Rollback, TypeOK
    <2>4. stranded' \subseteq Sub \X Cycle
      BY <1>0, <1>8 DEF Rollback, TypeOK
    <2> QED
      BY <1>8, <2>2, <2>3, <2>4, MoveType DEF Rollback, TypeOK, razorpay, DelRecord
  <1>9. CASE Mark(w)
    <2>1. [sub[s] EXCEPT !.claim = "granted"] \in Doc /\ CycleOf(w) \in Sub \X Cycle
      BY <1>5, <1>9 DEF Mark, Live
    <2>2. sub' \in [Sub -> Doc]
      BY <1>9, <2>1 DEF Mark, TypeOK
    <2>3. reports' \subseteq Sub \X Cycle
      BY <1>9, <2>1 DEF Mark, TypeOK
    <2> QED
      BY <1>9, <2>2, <2>3, MoveType DEF Mark, TypeOK, razorpay, excused, DelRecord
  <1>10. ASSUME NEW landed \in BOOLEAN, UpdateThrows(w, landed) PROVE TypeOK'
    <2>1. /\ [sub[s] EXCEPT !.claim = "granted"] \in Doc /\ Restored(w) \in Doc
          /\ LateCycle(w) \cup {CycleOf(w)} \subseteq Sub \X Cycle
      BY <1>5, <1>10 DEF UpdateThrows, Live
    <2>2. \/ sub' = sub
          \/ sub' = [sub EXCEPT ![s] = [sub[s] EXCEPT !.claim = "granted"]]
          \/ sub' = [sub EXCEPT ![s] = Restored(w)]
      BY <1>10 DEF UpdateThrows
    <2>3. sub' \in [Sub -> Doc]
      BY <2>1, <2>2 DEF TypeOK
    <2>4. reports' \cup undone' \subseteq Sub \X Cycle
      BY <1>10, <2>1 DEF UpdateThrows, TypeOK
    <2>5. /\ del' \in [Worker -> DelRecord] /\ awaited' \subseteq Event
          /\ mishaps' \in 0..MaxMishaps
      BY <1>10, MoveType, Sizes DEF UpdateThrows, TypeOK
    <2>6. stranded' \subseteq Sub \X Cycle
      BY <1>0, <1>10 DEF UpdateThrows, TypeOK
    <2> QED
      BY <1>10, <2>3, <2>4, <2>5, <2>6 DEF UpdateThrows, TypeOK, razorpay, DelRecord
  <1>11. CASE Die(w)
    <2>1. doubt' \subseteq Sub \X Cycle /\ mishaps' \in 0..MaxMishaps
      BY <1>5, <1>11, Sizes DEF Die, TypeOK, Live
    <2> QED
      BY <1>11, <2>1, MoveType DEF Die, TypeOK, razorpay, excused, DelRecord
  <1> QED
    BY <1>1, <1>2, <1>3, <1>4, <1>6, <1>7, <1>8, <1>9, <1>10, <1>11 DEF HandlerStep

LEMMA TypeRead ==
    ASSUME TypeOK, NEW r \in Reader, ReaderOK(r), ReadStep(r) \/ ReadStops(r)
    PROVE  TypeOK'
  <1>0. read[r] \in Reading /\ Resting \in Reading
    BY RestingType DEF TypeOK
  <1>a. \A pc \in {"ended", "current", "zero", "take"} : At(r, pc) => read' \in [Reader -> Reading]
    BY <1>0 DEF At, TypeOK, Reading
  <1>b. Rest(r) => read' \in [Reader -> Reading]
    BY <1>0 DEF Rest, TypeOK
  <1>1. CASE ReadPlan(r)
    <2> DEFINE dripping == {s \in Sub : Dripping(s)}
               s == Newest(dripping)
    <2>1. CASE dripping = {} \/ sub[s].nextAt = None
      BY <1>1, <1>a, <2>1 DEF ReadPlan, TypeOK, razorpay, history, excused
    <2>2. CASE ~ (dripping = {} \/ sub[s].nextAt = None)
      <3>1. s \in Sub
        BY <2>2, NewestIn
      <3>2. sub[s] \in Doc
        BY <3>1 DEF TypeOK
      <3> DEFINE rec == [pc |-> "take", sub |-> s, cycle |-> sub[s].count, n |-> sub[s].drips,
                         nextAt |-> sub[s].nextAt, anchor |-> sub[s].anchor]
      <3>3. rec \in Reading
        <4> HIDE DEF s
        <4> QED
          BY <3>1, <3>2 DEF Reading, Doc, Sub
      <3>4. read' = [read EXCEPT ![r] = rec]
        BY <1>1, <2>2 DEF ReadPlan
      <3> HIDE DEF rec
      <3> QED
        BY <1>1, <3>3, <3>4 DEF ReadPlan, TypeOK, razorpay, history, excused
    <2> QED
      BY <2>1, <2>2
  <1>2. CASE ReadEnded(r)
    BY <1>2, <1>a, <1>b DEF ReadEnded, TypeOK, razorpay, history, excused
  <1>3. CASE ReadCurrent(r)
    BY <1>3, <1>a, <1>b DEF ReadCurrent, TypeOK, razorpay, history, excused
  <1>4. CASE TakePlan(r)
    BY <1>4, <1>b DEF TakePlan, TypeOK, razorpay, history, excused
  <1>5. CASE TakeDrip(r)
    <2> DEFINE s == read[r].sub
               next == read[r].anchor + read[r].n + 2
    <2>1. /\ s \in Sub /\ sub[s] \in Doc /\ read[r].n + 1 \in 0..YEARLY_DRIP_MAX
          /\ next \in Nat /\ read[r].pc = "take"
      BY <1>0, <1>5, Sizes DEF TakeDrip, ReaderOK, Reading, TypeOK
    <2>2. CASE DripFree(r)
      <3>1. sub[s].drips + 1 \in 0..YEARLY_DRIP_MAX
        BY <2>1, <2>2 DEF DripFree
      <3>2. [sub[s] EXCEPT !.drips = @ + 1, !.nextAt = next] \in Doc
        <4> HIDE DEF next, s
        <4> QED
          BY <2>1, <3>1 DEF Doc
      <3>3. [read[r] EXCEPT !.pc = "set", !.n = @ + 1, !.nextAt = next] \in Reading
        <4> HIDE DEF next, s
        <4> QED
          BY <1>0, <2>1 DEF Reading
      <3>4. /\ sub' = [sub EXCEPT ![s] = [sub[s] EXCEPT !.drips = @ + 1, !.nextAt = next]]
            /\ read' = [read EXCEPT ![r] = [read[r] EXCEPT !.pc = "set", !.n = @ + 1,
                                                           !.nextAt = next]]
        BY <1>5, <2>1, <2>2 DEF TakeDrip, TypeOK
      <3>5. sub' \in [Sub -> Doc] /\ read' \in [Reader -> Reading]
        BY <3>2, <3>3, <3>4 DEF TypeOK
      <3> QED
        BY <1>5, <3>5 DEF TakeDrip, TypeOK, razorpay, history, excused
    <2>3. CASE ~ DripFree(r)
      BY <1>5, <1>b, <2>3 DEF TakeDrip, TypeOK, razorpay, history, excused
    <2> QED
      BY <2>2, <2>3
  <1>6. ASSUME read[r].pc = "set" PROVE Month(r) \in GrantKey
    BY <1>0, <1>6, Sizes DEF ReaderOK, Month, GrantKey, Reading, TypeOK, Cycle
  <1>7. CASE SetDrip(r)
    <2>1. grants' \in [GrantKey -> Nat]
      BY <1>6, <1>7 DEF SetDrip, TypeOK
    <2>2. user' \in [plan : {"free", "pro"}, ink : BOOLEAN]
      BY <1>7 DEF SetDrip, TypeOK
    <2>3. read' \in [Reader -> Reading]
      BY <1>7, <1>a, <1>b DEF SetDrip
    <2> QED
      BY <1>7, <2>1, <2>2, <2>3 DEF SetDrip, TypeOK, razorpay, excused
  <1>8. CASE ReadStops(r)
    <2>1. lost' \subseteq GrantKey /\ mishaps' \in 0..MaxMishaps
      BY <1>6, <1>8, Sizes DEF ReadStops, TypeOK
    <2> QED
      BY <1>8, <1>b, <2>1 DEF ReadStops, TypeOK, razorpay, excused
  <1> QED
    BY <1>1, <1>2, <1>3, <1>4, <1>5, <1>7, <1>8 DEF ReadStep

\* Every step is one of these.
LEMMA StepKinds ==
    ASSUME [Next]_vars
    PROVE  \/ UNCHANGED vars
           \/ World
           \/ \E e \in awaited : \/ ApplyStatus(e)
                                 \/ \E w \in Worker : ClaimCycle(w, e) \/ LoseClaim(w, e)
                                                         \/ SaveExpired(w, e)
           \/ \E w \in Worker : \/ HandlerStep(w) \/ Die(w)
                                \/ \E landed \in BOOLEAN :
                                      GrantThrows(w, landed) \/ UpdateThrows(w, landed)
           \/ \E r \in Reader : ReadStep(r) \/ ReadStops(r)
  BY DEF Next, ClaimStep, Trouble

LEMMA TypeStep ==
    ASSUME Base, [Next]_vars
    PROVE  TypeOK'
  <1>1. UNCHANGED vars => TypeOK'
    BY DEF Base, TypeOK, vars
  <1> QED
    BY <1>1, StepKinds, TypeWorld, TypeDeliver, TypeHandler, TypeRead DEF Base

-----------------------------------------------------------------------------
(* What a step does to the documents and the deliveries. *)

\* All but the status and the state of the claim stay; a granted claim stays so.
DocKept(s) ==
    /\ sub'[s].count = sub[s].count /\ sub'[s].token = sub[s].token
    /\ sub'[s].paidThrough = sub[s].paidThrough /\ sub'[s].anchor = sub[s].anchor
    /\ sub'[s].nextAt = sub[s].nextAt /\ sub'[s].drips = sub[s].drips
    /\ sub[s].claim = "granted" => sub'[s].claim = "granted"

DocsKept == \A s \in Sub : DocKept(s)

LiveKept == \A w \in Worker : Live(w)' = Live(w) /\ (Live(w) => del'[w] = del[w])

\* A delivery undoes its claim.
Undoes(w) ==
    /\ del[w].pc = "rollback" /\ HoldsCycle(w)
    /\ sub' = [sub EXCEPT ![del[w].event.sub] = Restored(w)]
    /\ del' = [del EXCEPT ![w] = Quiet]
    /\ undone' = undone \cup LateCycle(w) /\ Strands(w) \subseteq stranded'
    /\ reports \subseteq reports'
    /\ UNCHANGED <<now, razorpay, user, awaited, read, grants, lost, doubt, retaken>>

\* A delivery that had a claim is over without undoing it.
Ends(w) ==
    /\ Live(w)
    /\ del' = [del EXCEPT ![w] = Quiet]
    /\ DocsKept /\ \A s \in Sub : sub'[s].status = sub[s].status
    /\ \/ del[w].pc # "mark"
       \/ CycleOf(w) \in reports' \cup doubt'
       \/ Owns(w) /\ sub'[del[w].event.sub].claim = "granted"
    /\ awaited' \subseteq awaited /\ awaited \ {del[w].event} \subseteq awaited'
    /\ del[w].pc # "mark" => awaited' = awaited
    /\ reports \subseteq reports' /\ doubt \subseteq doubt'
    /\ UNCHANGED <<now, razorpay, user, read, grants, lost, retaken, undone>>

Others ==
    /\ DocsKept /\ LiveKept
    /\ lost \subseteq lost'
    /\ UNCHANGED <<grants, reports, doubt, retaken, undone>>

LEMMA SameDocs == sub' = sub => DocsKept
  BY DEF DocsKept, DocKept

LEMMA StatusOnly ==
    ASSUME TypeOK, NEW s \in Sub, NEW x, sub' = [sub EXCEPT ![s].status = x]
    PROVE  DocsKept
  BY DEF DocsKept, DocKept, TypeOK

LEMMA SameDel == del' = del => LiveKept
  BY DEF LiveKept, Live

LEMMA WorldMoves ==
    ASSUME TypeOK, World
    PROVE  Others
  <1>1. ASSUME NEW s \in Sub, Subscribe(s) \/ ExpireLapsed(s)
        PROVE  Others
    <2>1. DocsKept
      <3>1. CASE Subscribe(s)
        BY <3>1 DEF Subscribe, DocsKept, DocKept, TypeOK
      <3>2. CASE ExpireLapsed(s)
        <4>1. sub' = sub \/ sub' = [sub EXCEPT ![s].status = "expired"]
          BY <3>2 DEF ExpireLapsed
        <4> QED
          BY <4>1, SameDocs, StatusOnly
      <3> QED
        BY <1>1, <3>1, <3>2
    <2> QED
      BY <1>1, <2>1, SameDel DEF Subscribe, ExpireLapsed, Others, history, excused
  <1>2. ASSUME NEW s \in Sub, Charge(s) \/ Resume(s) \/ (\E kind \in Stopped : Halt(s, kind))
                              \/ (\E kind \in Terminal : Finish(s, kind))
        PROVE  Others
    <2>1. sub' = sub /\ del' = del
      BY <1>2 DEF Charge, Resume, Halt, Finish
    <2> QED
      BY <1>2, <2>1, SameDocs, SameDel DEF Charge, Resume, Halt, Finish, Others, history, excused
  <1>3. ASSUME NEW s \in Sub, GoesStale(s)
        PROVE  Others
    <2>1. DocsKept
      BY <1>3 DEF GoesStale, DocsKept, DocKept, TypeOK
    <2> QED
      BY <1>3, <2>1, SameDel DEF GoesStale, Others, history, excused
  <1>4. CASE Tick
    <2>1. DocsKept
      BY <1>4 DEF Tick, DocsKept, DocKept, TypeOK
    <2> QED
      BY <1>4, <2>1, SameDel DEF Tick, Others, history, excused
  <1> QED
    BY <1>1, <1>2, <1>3, <1>4 DEF World

LEMMA DeliverMoves ==
    ASSUME Base, NEW e \in awaited,
           ApplyStatus(e) \/ \E w \in Worker : LoseClaim(w, e) \/ SaveExpired(w, e)
    PROVE  Others
  <1>0. e \in Event /\ e.sub \in Sub
    BY DEF Base, TypeOK, Event
  <1>1. CASE ApplyStatus(e)
    <2>1. DocsKept
      BY <1>0, <1>1 DEF ApplyStatus, DocsKept, DocKept, Base, TypeOK
    <2> QED
      BY <1>1, <2>1, SameDel DEF ApplyStatus, Others, history, excused
  <1>2. ASSUME NEW w \in Worker, LoseClaim(w, e) \/ SaveExpired(w, e) PROVE Others
    <2>1. DocsKept
      <3>1. sub' = sub \/ sub' = [sub EXCEPT ![e.sub].status = "expired"]
        BY <1>2 DEF LoseClaim, SaveExpired
      <3> QED
        BY <3>1, <1>0, SameDocs, StatusOnly DEF Base
    <2>2. LiveKept
      <3>1. ~ Live(w)
        BY <1>2 DEF LoseClaim, SaveExpired, Free, Live, Quiet
      <3>2. del'[w].pc \in {"elsewhere", "others"}
        <4>1. /\ [Quiet EXCEPT !.pc = "elsewhere", !.event = e].pc = "elsewhere"
              /\ [Quiet EXCEPT !.pc = "others", !.event = e].pc = "others"
          BY DEF Quiet
        <4>2. \/ del'[w] = [Quiet EXCEPT !.pc = "elsewhere", !.event = e]
              \/ del'[w] = [Quiet EXCEPT !.pc = "others", !.event = e]
          BY <1>2 DEF LoseClaim, SaveExpired, Base, TypeOK
        <4> QED
          BY <4>1, <4>2
      <3>3. \A v \in Worker : v # w => del'[v] = del[v]
        BY <1>2 DEF LoseClaim, SaveExpired, Base, TypeOK
      <3>4. ~ Live(w)'
        BY <3>2 DEF Live
      <3> QED
        BY <3>1, <3>3, <3>4 DEF LiveKept, Live
    <2> QED
      BY <1>2, <2>1, <2>2 DEF LoseClaim, SaveExpired, Others, history, excused
  <1> QED
    BY <1>1, <1>2

LEMMA HandlerMoves ==
    ASSUME Base, NEW w \in Worker,
           \/ HandlerStep(w) \/ Die(w)
           \/ \E landed \in BOOLEAN : GrantThrows(w, landed) \/ UpdateThrows(w, landed)
    PROVE  \/ Others \/ Undoes(w) \/ Ends(w) \/ Grant(w)
           \/ \E landed \in BOOLEAN : GrantThrows(w, landed)
  <1> DEFINE s == del[w].event.sub
  <1>0. ASSUME ~ Live(w), NEW d, d.pc \notin {"grant", "rollback", "mark"},
               del' = [del EXCEPT ![w] = d]
        PROVE  LiveKept
    <2>1. del'[w] = d /\ \A v \in Worker : v # w => del'[v] = del[v]
      BY <1>0 DEF Base, TypeOK
    <2>2. ~ Live(w)'
      BY <1>0, <2>1 DEF Live
    <2> QED
      BY <1>0, <2>1, <2>2 DEF LiveKept, Live
  <1>a. ASSUME ~ Live(w), del' = [del EXCEPT ![w] = Quiet] PROVE LiveKept
    BY <1>0, <1>a DEF Quiet
  <1>b. ASSUME ~ Live(w), NEW pc \in {"downgrade", "zero"}, Goto(w, pc) PROVE LiveKept
    <2>1. del' = [del EXCEPT ![w] = [del[w] EXCEPT !.pc = pc]]
      BY <1>b DEF Goto
    <2>2. [del[w] EXCEPT !.pc = pc].pc = pc
      BY DEF Base, TypeOK
    <2> QED
      BY <1>0, <1>b, <2>1, <2>2
  <1>1. CASE LookForOthers(w) \/ Downgrade(w) \/ ZeroInk(w) \/ PendingElsewhere(w)
    <2>1. sub' = sub /\ UNCHANGED <<grants, lost, reports, doubt, retaken, undone>>
      BY <1>1 DEF LookForOthers, Downgrade, ZeroInk, PendingElsewhere, history
    <2>2. ~ Live(w)
      BY <1>1 DEF LookForOthers, Downgrade, ZeroInk, PendingElsewhere, Live
    <2>3. LiveKept
      BY <1>1, <1>a, <1>b, <2>2
         DEF LookForOthers, Downgrade, ZeroInk, PendingElsewhere, Stays, Done, Fails
    <2> QED
      BY <2>1, <2>3, SameDocs DEF Others, history, excused
  <1>2. CASE Rollback(w)
    <2>1. CASE HoldsCycle(w)
      BY <1>2, <2>1 DEF Rollback, Undoes, Fails
    <2>2. CASE ~ HoldsCycle(w)
      <3>1. Ends(w)
        BY <1>2, <2>2, SameDocs DEF Rollback, Ends, Fails, Live
      <3> QED
        BY <3>1
    <2> QED
      BY <2>1, <2>2
  <1>3. CASE Mark(w)
    <2>1. s \in Sub
      BY <1>3 DEF Mark, Base, WorkerOK, Live, Event
    <2>2. CASE Owns(w)
      <3>1. DocsKept /\ (\A o \in Sub : sub'[o].status = sub[o].status)
            /\ sub'[s].claim = "granted"
        BY <1>3, <2>1, <2>2 DEF Mark, DocsKept, DocKept, Base, TypeOK
      <3>2. Ends(w)
        BY <1>3, <2>2, <3>1 DEF Mark, Ends, Done, Answer, Live
      <3> QED
        BY <3>2
    <2>3. CASE ~ Owns(w)
      <3>1. Ends(w)
        BY <1>3, <2>3, SameDocs DEF Mark, Ends, Done, Answer, Live
      <3> QED
        BY <3>1
    <2> QED
      BY <2>2, <2>3
  <1>4. ASSUME NEW landed \in BOOLEAN, UpdateThrows(w, landed)
        PROVE  Undoes(w) \/ Ends(w)
    <2>1. s \in Sub /\ Live(w)
      BY <1>4 DEF UpdateThrows, Base, WorkerOK, Live, Event
    <2>2. del' = [del EXCEPT ![w] = Quiet]
      BY <1>4 DEF UpdateThrows, Acknowledged, Fails
    <2>3. /\ CycleOf(w) \in reports' /\ reports \subseteq reports'
          /\ UNCHANGED <<now, razorpay, user, read, grants, lost, doubt, retaken>>
      BY <1>4 DEF UpdateThrows
    <2>4. CASE landed /\ del[w].pc # "mark" /\ HoldsCycle(w)
      <3>1. /\ sub' = [sub EXCEPT ![s] = Restored(w)] /\ undone' = undone \cup LateCycle(w)
            /\ Strands(w) \subseteq stranded'
        BY <1>4, <2>4 DEF UpdateThrows
      <3>2. del[w].pc = "rollback" /\ awaited' = awaited
        BY <1>4, <2>4 DEF UpdateThrows, Fails
      <3> QED
        BY <2>2, <2>3, <2>4, <3>1, <3>2 DEF Undoes
    <2>5. CASE ~(landed /\ del[w].pc # "mark" /\ HoldsCycle(w))
      <3>1. undone' = undone
        BY <1>4, <2>5 DEF UpdateThrows
      <3>2. sub' = sub \/ sub' = [sub EXCEPT ![s].claim = "granted"]
        BY <1>4, <2>5 DEF UpdateThrows
      <3>3. DocsKept /\ \A o \in Sub : sub'[o].status = sub[o].status
        <4>1. CASE sub' = sub
          BY <4>1 DEF DocsKept, DocKept
        <4>2. CASE sub' = [sub EXCEPT ![s].claim = "granted"]
          BY <2>1, <4>2 DEF DocsKept, DocKept, Base, TypeOK
        <4> QED
          BY <3>2, <4>1, <4>2
      <3>4. /\ awaited' \subseteq awaited /\ awaited \ {del[w].event} \subseteq awaited'
            /\ del[w].pc # "mark" => awaited' = awaited
        BY <1>4 DEF UpdateThrows, Acknowledged, Fails
      <3> QED
        BY <2>1, <2>2, <2>3, <3>1, <3>3, <3>4 DEF Ends
    <2> QED
      BY <2>4, <2>5
  <1>5. CASE Die(w)
    <2>1. sub' = sub /\ del' = [del EXCEPT ![w] = Quiet] /\ awaited' = awaited
      BY <1>5 DEF Die, Fails
    <2>2. CASE Live(w)
      <3>1. del[w].pc # "mark" \/ CycleOf(w) \in doubt'
        BY <1>5 DEF Die
      <3>2. doubt \subseteq doubt'
        BY <1>5 DEF Die
      <3>3. Ends(w)
        BY <1>5, <2>1, <2>2, <3>1, <3>2, SameDocs DEF Die, Ends
      <3> QED
        BY <3>3
    <2>3. CASE ~ Live(w)
      <3>1. LiveKept
        BY <1>a, <2>1, <2>3
      <3>2. doubt' = doubt
        BY <1>5, <2>3 DEF Die, Live
      <3> QED
        BY <1>5, <2>1, <3>1, <3>2, SameDocs DEF Die, Others
    <2> QED
      BY <2>2, <2>3
  <1> QED
    BY <1>1, <1>2, <1>3, <1>4, <1>5 DEF HandlerStep

LEMMA ReadMoves ==
    ASSUME NEW r \in Reader, ReadStep(r) \/ ReadStops(r)
    PROVE  Others \/ (TakeDrip(r) /\ DripFree(r)) \/ SetDrip(r)
  <1>1. ASSUME ReadPlan(r) \/ ReadEnded(r) \/ ReadCurrent(r) \/ TakePlan(r) \/ ReadStops(r)
        PROVE  Others
    <2>1. sub' = sub /\ del' = del
      BY <1>1 DEF ReadPlan, ReadEnded, ReadCurrent, TakePlan, ReadStops
    <2> QED
      BY <1>1, <2>1, SameDocs, SameDel
         DEF ReadPlan, ReadEnded, ReadCurrent, TakePlan, ReadStops, Others, history, excused
  <1>2. ASSUME TakeDrip(r), ~ DripFree(r) PROVE Others
    BY <1>2, SameDocs, SameDel DEF TakeDrip, Others, history, excused
  <1> QED
    BY <1>1, <1>2 DEF ReadStep

\* Each step claims a cycle, undoes a claim, ends a delivery, grants, takes or
\* sets a drip, or leaves all that alone.
LEMMA Moves ==
    ASSUME Base, [Next]_vars
    PROVE  \/ Others
           \/ \E w \in Worker :
                 \/ \E e \in awaited : ClaimCycle(w, e)
                 \/ Undoes(w) \/ Ends(w) \/ Grant(w)
                 \/ \E landed \in BOOLEAN : GrantThrows(w, landed)
           \/ \E r \in Reader : (TakeDrip(r) /\ DripFree(r)) \/ SetDrip(r)
  <1>1. UNCHANGED vars => Others
    BY SameDocs, SameDel DEF vars, Others
  <1> QED
    BY <1>1, StepKinds, WorldMoves, DeliverMoves, HandlerMoves, ReadMoves DEF Base

-----------------------------------------------------------------------------
(* What Razorpay does. *)

ContractsGrow ==
    /\ now' \in {now, now + 1}
    /\ \A s \in Sub : /\ rz'[s].charges \in {rz[s].charges, rz[s].charges + 1}
                      /\ rz[s].stop <= rz'[s].stop /\ rz'[s].stop <= rz'[s].charges
                      /\ rz[s].charges > 0 => rz'[s].start = rz[s].start
                      /\ rz'[s].charges > 0 => rz'[s].start \in 1..now'

\* Time passes, cycles are charged and stops get later; the first charge fixes
\* when the cycles start.
LEMMA Contracts ==
    ASSUME Base, [Next]_vars
    PROVE  ContractsGrow
  <1>0. /\ now \in Nat /\ now > 0
        /\ \A s \in Sub : /\ rz[s] \in Contract /\ rz[s].stop <= rz[s].charges
                          /\ rz[s].charges > 0 => rz[s].start \in 1..now
    BY DEF Base, TypeOK, ChargesOK, Contract
  <1>1. ASSUME UNCHANGED <<now, rz>> PROVE ContractsGrow
    BY <1>0, <1>1 DEF Contract, ContractsGrow
  <1>2. ASSUME NEW s \in Sub, Subscribe(s) \/ Resume(s) \/ \E k \in Terminal : Finish(s, k)
        PROVE  ContractsGrow
    <2>1. now' = now /\ \E x : rz' = [rz EXCEPT ![s].state = x]
      BY <1>2 DEF Subscribe, Resume, Finish
    <2>2. PICK x : rz' = [rz EXCEPT ![s].state = x]
      BY <2>1
    <2>3. \A o \in Sub : /\ rz'[o].charges = rz[o].charges /\ rz'[o].stop = rz[o].stop
                         /\ rz'[o].start = rz[o].start
      BY <2>2 DEF Base, TypeOK
    <2> QED
      BY <1>0, <2>1, <2>3 DEF Contract, ContractsGrow
  <1>3. ASSUME NEW s \in Sub, NEW kind \in Stopped, Halt(s, kind) PROVE ContractsGrow
    <2>1. \A o \in Sub : /\ rz'[o].charges = rz[o].charges /\ rz'[o].start = rz[o].start
                         /\ rz'[o].stop = IF o = s THEN rz[s].charges ELSE rz[o].stop
      BY <1>3 DEF Halt, Base, TypeOK
    <2>2. now' = now
      BY <1>3 DEF Halt
    <2> QED
      BY <1>0, <2>1, <2>2 DEF Contract, ContractsGrow
  <1>4. ASSUME NEW s \in Sub, Charge(s) PROVE ContractsGrow
    <2>1. \A o \in Sub : /\ rz'[o].charges = IF o = s THEN rz[s].charges + 1 ELSE rz[o].charges
                         /\ rz'[o].stop = rz[o].stop
                         /\ rz'[o].start = IF o = s /\ rz[s].charges + 1 = 1 THEN now
                                              ELSE rz[o].start
      BY <1>4 DEF Charge, Base, TypeOK
    <2>2. now' = now
      BY <1>4 DEF Charge
    <2> QED
      BY <1>0, <2>1, <2>2 DEF Contract, ContractsGrow
  <1>5. CASE Tick
    <2>1. now' = now + 1 /\ rz' = rz
      BY <1>5 DEF Tick
    <2> QED
      BY <1>0, <2>1 DEF Contract, ContractsGrow
  <1>6. ASSUME World PROVE ContractsGrow
    <2>1. ASSUME NEW s \in Sub, ExpireLapsed(s) \/ GoesStale(s) PROVE ContractsGrow
      BY <1>1, <2>1 DEF ExpireLapsed, GoesStale, razorpay
    <2> QED
      BY <1>2, <1>3, <1>4, <1>5, <1>6, <2>1 DEF World
  <1>7. ASSUME NEW e \in awaited,
               \/ ApplyStatus(e)
               \/ \E w \in Worker : ClaimCycle(w, e) \/ LoseClaim(w, e) \/ SaveExpired(w, e)
        PROVE  UNCHANGED <<now, rz>>
    BY <1>7 DEF ApplyStatus, ClaimCycle, LoseClaim, SaveExpired, razorpay
  <1>8. ASSUME NEW w \in Worker,
               \/ HandlerStep(w) \/ Die(w)
               \/ \E landed \in BOOLEAN : GrantThrows(w, landed) \/ UpdateThrows(w, landed)
        PROVE  UNCHANGED <<now, rz>>
    BY <1>8 DEF HandlerStep, LookForOthers, Downgrade, ZeroInk, PendingElsewhere, Grant,
                Rollback, Mark, Die, GrantThrows, UpdateThrows, razorpay
  <1>9. ASSUME NEW r \in Reader, ReadStep(r) \/ ReadStops(r)
        PROVE  UNCHANGED <<now, rz>>
    BY <1>9 DEF ReadStep, ReadPlan, ReadEnded, ReadCurrent, TakePlan, TakeDrip, SetDrip,
                ReadStops, razorpay
  <1>10. UNCHANGED vars => UNCHANGED <<now, rz>>
    BY DEF vars
  <1> QED
    BY <1>1, <1>6, <1>7, <1>8, <1>9, <1>10, StepKinds

SentNow(e) ==
    /\ e.sub \in Sub /\ e.count <= rz'[e.sub].charges
    /\ ChargeEvent(e) => /\ Charge(e.sub) /\ e.count = rz[e.sub].charges + 1
                         /\ e.kind = "activated" => e.count = 1
    /\ e.kind \in Stopped => e.count <= rz'[e.sub].stop

\* An event that is new in a step is sent by it.
LEMMA Sent ==
    ASSUME Base, [Next]_vars, NEW e \in awaited', e \notin awaited
    PROVE  SentNow(e)
  <1>0. ASSUME NEW s \in Sub PROVE rz[s] \in Contract
    BY DEF Base, TypeOK, Contract
  <1>1. ASSUME NEW s \in Sub, NEW kinds, NEW n, Send(kinds, s, n)
        PROVE  e.sub = s /\ e.kind \in kinds /\ e.count = n
    BY <1>1 DEF Send
  <1>2. ASSUME NEW s \in Sub, Subscribe(s) PROVE SentNow(e)
    <2>1. e.sub = s /\ e.kind = "authenticated" /\ e.count = 0
      BY <1>1, <1>2 DEF Subscribe
    <2>2. rz'[s].charges = rz[s].charges
      BY <1>2 DEF Subscribe, Base, TypeOK
    <2> QED
      BY <1>0, <2>1, <2>2 DEF ChargeEvent, Stopped, Contract, SentNow
  <1>3. ASSUME NEW s \in Sub, Charge(s) PROVE SentNow(e)
    <2>1. /\ e.sub = s /\ e.kind \in {"charged"} \cup {x \in {"activated"} : rz[s].charges + 1 = 1}
          /\ e.count = rz[s].charges + 1
      BY <1>1, <1>3 DEF Charge
    <2>2. rz'[s].charges = rz[s].charges + 1
      BY <1>3 DEF Charge, Base, TypeOK
    <2> QED
      BY <1>0, <1>3, <2>1, <2>2 DEF ChargeEvent, Stopped, Contract, SentNow
  <1>4. ASSUME NEW s \in Sub, Resume(s) \/ \E kind \in Terminal : Finish(s, kind) PROVE SentNow(e)
    <2>1. e.sub = s /\ e.kind \in {"resumed"} \cup Terminal /\ e.count = rz[s].charges
      BY <1>1, <1>4 DEF Resume, Finish
    <2>2. rz'[s].charges = rz[s].charges
      <3>1. \E x : rz' = [rz EXCEPT ![s].state = x]
        BY <1>4 DEF Resume, Finish
      <3>2. PICK x : rz' = [rz EXCEPT ![s].state = x]
        BY <3>1
      <3> QED
        BY <3>2 DEF Base, TypeOK
    <2> QED
      BY <1>0, <2>1, <2>2 DEF ChargeEvent, Stopped, Terminal, Contract, SentNow
  <1>5. ASSUME NEW s \in Sub, NEW kind \in Stopped, Halt(s, kind) PROVE SentNow(e)
    <2>1. e.sub = s /\ e.kind = kind /\ e.count = rz[s].charges
      BY <1>1, <1>5 DEF Halt
    <2>2. rz'[s].charges = rz[s].charges /\ rz'[s].stop = rz[s].charges
      BY <1>5 DEF Halt, Base, TypeOK
    <2> QED
      BY <1>0, <2>1, <2>2 DEF ChargeEvent, Stopped, Contract, SentNow
  <1>6. ASSUME World PROVE SentNow(e)
    <2>1. ASSUME Tick \/ \E s \in Sub : ExpireLapsed(s) \/ GoesStale(s) PROVE awaited' = awaited
      BY <2>1 DEF Tick, ExpireLapsed, GoesStale
    <2> QED
      BY <1>2, <1>3, <1>4, <1>5, <1>6, <2>1 DEF World
  <1>7. ASSUME NEW d \in awaited,
               \/ ApplyStatus(d)
               \/ \E w \in Worker : ClaimCycle(w, d) \/ LoseClaim(w, d) \/ SaveExpired(w, d)
        PROVE  awaited' \subseteq awaited
    BY <1>7 DEF ApplyStatus, Answer, ClaimCycle, LoseClaim, SaveExpired
  <1>8. ASSUME NEW w \in Worker,
               \/ HandlerStep(w) \/ Die(w)
               \/ \E landed \in BOOLEAN : GrantThrows(w, landed) \/ UpdateThrows(w, landed)
        PROVE  awaited' \subseteq awaited
    BY <1>8 DEF HandlerStep, LookForOthers, Downgrade, ZeroInk, PendingElsewhere, Grant,
                Rollback, Mark, Die, GrantThrows, UpdateThrows, Done, Answer, Fails, Goto,
                Stays, Acknowledged
  <1>9. ASSUME NEW r \in Reader, ReadStep(r) \/ ReadStops(r)
        PROVE  awaited' = awaited
    BY <1>9 DEF ReadStep, ReadPlan, ReadEnded, ReadCurrent, TakePlan, TakeDrip, SetDrip,
                ReadStops
  <1>10. UNCHANGED vars => awaited' = awaited
    BY DEF vars
  <1> QED
    BY <1>6, <1>7, <1>8, <1>9, <1>10, StepKinds

LEMMA EventsStep ==
    ASSUME Base, [Next]_vars
    PROVE  EventsOK'
  <1>1. SUFFICES ASSUME NEW e \in awaited'
                 PROVE  /\ e.count <= rz'[e.sub].charges
                        /\ ChargeEvent(e) => e.count > 0
                        /\ e.kind = "activated" => e.count = 1
                        /\ e.kind \in Stopped => e.count <= rz'[e.sub].stop
    BY DEF EventsOK, ChargeEvent
  <1>2. CASE e \in awaited
    <2>1. /\ e.sub \in Sub /\ e.count \in Nat
          /\ e.count <= rz[e.sub].charges /\ ChargeEvent(e) => e.count > 0
          /\ e.kind = "activated" => e.count = 1
          /\ e.kind \in Stopped => e.count <= rz[e.sub].stop
          /\ rz[e.sub] \in Contract /\ rz'[e.sub] \in Contract
      BY <1>2, TypeStep DEF Base, EventsOK, TypeOK, Event, Contract
    <2>2. rz[e.sub].charges <= rz'[e.sub].charges /\ rz[e.sub].stop <= rz'[e.sub].stop
      BY <2>1, Contracts DEF Contract, ContractsGrow
    <2> QED
      BY <1>2, <2>1, <2>2 DEF Contract, EventsOK, Base
  <1>3. CASE e \notin awaited
    <2>1. rz[e.sub] \in Contract
      BY <1>3, Sent DEF Base, TypeOK, Contract, SentNow
    <2> QED
      BY <1>3, <2>1, Sent DEF Contract, ChargeEvent, SentNow
  <1> QED
    BY <1>2, <1>3

-----------------------------------------------------------------------------
(* What becomes of a subscription's status. *)

StatusMoves(s) ==
    /\ sub[s].status \in Terminal => sub'[s].status \in Terminal
    /\ sub[s].status = "expired" => sub'[s].status = "expired"
    /\ sub[s].status \in {"active"} \cup Ended => sub'[s].status \in {"active"} \cup Ended
    /\ sub'[s].status \in Stopped =>
         \/ sub[s].status \in Stopped /\ sub'[s].count <= sub[s].count
         \/ /\ sub'[s].count = sub[s].count
            /\ \E e \in awaited : e.sub = s /\ e.kind \in Stopped /\ sub[s].count <= e.count

LEMMA StatusKept ==
    ASSUME TypeOK, NEW s \in Sub, sub'[s].status = sub[s].status, sub'[s].count = sub[s].count
    PROVE  StatusMoves(s)
  <1>1. sub[s].count \in Nat
    BY DEF TypeOK, Doc
  <1> QED
    BY <1>1 DEF StatusMoves

LEMMA StatusOfWorld ==
    ASSUME TypeOK, World
    PROVE  \A s \in Sub : StatusMoves(s)
  <1>0. ASSUME NEW s \in Sub, Subscribe(s) \/ ExpireLapsed(s)
        PROVE  \A o \in Sub : StatusMoves(o)
    <2>1. \A o \in Sub : sub'[o].count = sub[o].count /\ (o # s => sub'[o] = sub[o])
      <3>1. sub' = sub \/ \E x : sub' = [sub EXCEPT ![s].status = x]
        BY <1>0 DEF Subscribe, ExpireLapsed
      <3>2. ASSUME NEW x, sub' = [sub EXCEPT ![s].status = x]
            PROVE  \A o \in Sub : sub'[o].count = sub[o].count /\ (o # s => sub'[o] = sub[o])
        BY <3>2 DEF TypeOK
      <3> QED
        BY <3>1, <3>2
    <2>2. \/ sub'[s].status = sub[s].status
          \/ sub[s].status = "none" /\ sub'[s].status = "created"
          \/ sub'[s].status = "expired"
      <3>1. CASE Subscribe(s)
        <4>1. sub[s].status = "none" /\ sub' = [sub EXCEPT ![s].status = "created"]
          BY <3>1 DEF Subscribe
        <4> QED
          BY <4>1 DEF TypeOK, Doc
      <3>2. CASE ExpireLapsed(s)
        <4>1. sub' = sub \/ sub' = [sub EXCEPT ![s].status = "expired"]
          BY <3>2 DEF ExpireLapsed
        <4>2. sub' = [sub EXCEPT ![s].status = "expired"] => sub'[s].status = "expired"
          BY DEF TypeOK, Doc
        <4> QED
          BY <4>1, <4>2
      <3> QED
        BY <1>0, <3>1, <3>2
    <2>3. StatusMoves(s)
      <3>1. CASE sub[s].status = "none" /\ sub'[s].status = "created"
        BY <3>1 DEF StatusMoves, Terminal, Stopped, Ended, PaidThroughStatus
      <3>2. CASE sub'[s].status = "expired"
        BY <3>2 DEF StatusMoves, Terminal, Stopped, Ended, PaidThroughStatus
      <3> QED
        BY <2>1, <2>2, <3>1, <3>2, StatusKept
    <2> QED
      BY <2>1, <2>3, StatusKept
  <1>1. ASSUME NEW s \in Sub, GoesStale(s) PROVE \A o \in Sub : StatusMoves(o)
    <2>1. \A o \in Sub : sub'[o].status = sub[o].status /\ sub'[o].count = sub[o].count
      BY <1>1 DEF GoesStale, TypeOK
    <2> QED
      BY <2>1, StatusKept
  <1>2. ASSUME Tick PROVE \A o \in Sub : StatusMoves(o)
    <2>1. \A o \in Sub : sub'[o].status = sub[o].status /\ sub'[o].count = sub[o].count
      BY <1>2 DEF Tick, TypeOK
    <2> QED
      BY <2>1, StatusKept
  <1>3. ASSUME NEW s \in Sub, Charge(s) \/ Resume(s) \/ (\E kind \in Stopped : Halt(s, kind))
                              \/ (\E kind \in Terminal : Finish(s, kind))
        PROVE  sub' = sub
    BY <1>3 DEF Charge, Resume, Halt, Finish
  <1> QED
    BY <1>0, <1>1, <1>2, <1>3, StatusKept DEF World

LEMMA StatusOfDelivery ==
    ASSUME Base, NEW e \in awaited,
           \/ ApplyStatus(e)
           \/ \E w \in Worker : ClaimCycle(w, e) \/ LoseClaim(w, e) \/ SaveExpired(w, e)
    PROVE  \A s \in Sub : StatusMoves(s)
  <1> DEFINE d == sub[e.sub]
  <1>0. TypeOK /\ e \in Event /\ e.sub \in Sub
    BY DEF Base, TypeOK, Event
  <1>1. CASE ApplyStatus(e)
    <2>1. ASSUME Rule(e) PROVE StatusMoves(e.sub)
      <3>1. sub'[e.sub] = [d EXCEPT !.status = IF e.kind = "resumed" THEN "active" ELSE e.kind]
        BY <1>0, <1>1, <2>1 DEF ApplyStatus, TypeOK
      <3>2. /\ sub'[e.sub].status = IF e.kind = "resumed" THEN "active" ELSE e.kind
            /\ sub'[e.sub].count = d.count
        BY <1>0, <3>1 DEF TypeOK
      <3>3. CASE e.kind = "authenticated"
        <4>1. d.status = "created"
          BY <2>1, <3>3 DEF Rule, Stopped
        <4> QED
          BY <3>2, <3>3, <4>1 DEF StatusMoves, Terminal, Stopped, Ended, PaidThroughStatus
      <3>4. CASE e.kind = "resumed"
        <4>1. d.status \in Stopped
          BY <2>1, <3>4 DEF Rule, Stopped
        <4> QED
          BY <3>2, <3>4, <4>1 DEF StatusMoves, Terminal, Stopped, Ended, PaidThroughStatus
      <3>5. CASE e.kind \in Stopped
        <4>1. d.status \notin Terminal /\ d.count <= e.count
          BY <2>1, <3>5 DEF Rule, Stopped, Fresh
        <4> QED
          BY <3>2, <3>5, <4>1 DEF StatusMoves, Terminal, Stopped, Ended, PaidThroughStatus
      <3>6. CASE e.kind \in {"cancelled", "completed"}
        <4>1. d.status # "expired"
          BY <2>1, <3>6 DEF Rule, Stopped
        <4> QED
          BY <3>2, <3>6, <4>1 DEF StatusMoves, Terminal, Stopped, Ended, PaidThroughStatus
      <3> QED
        BY <1>1, <3>3, <3>4, <3>5, <3>6 DEF ApplyStatus
    <2>2. CASE Rule(e)
      <3>1. \A s \in Sub : s # e.sub => sub'[s] = sub[s]
        BY <1>0, <1>1 DEF ApplyStatus, TypeOK
      <3> QED
        BY <1>0, <2>1, <2>2, <3>1, StatusKept
    <2>3. CASE ~ Rule(e)
      BY <1>0, <1>1, <2>3, StatusKept DEF ApplyStatus
    <2> QED
      BY <2>2, <2>3
  <1>2. ASSUME NEW w \in Worker, ClaimCycle(w, e) PROVE \A s \in Sub : StatusMoves(s)
    <2>1. sub'[e.sub] = Charged(w, e.sub, e.count) /\ \A s \in Sub : s # e.sub => sub'[s] = sub[s]
      BY <1>0, <1>2 DEF ClaimCycle, TypeOK
    <2>2. sub'[e.sub].status = Revived(d.status)
      BY <2>1 DEF Charged
    <2>3. StatusMoves(e.sub)
      BY <2>2 DEF StatusMoves, Revived, Terminal, Stopped, Ended, PaidThroughStatus
    <2> QED
      BY <1>0, <2>1, <2>3, StatusKept
  <1>3. ASSUME NEW w \in Worker, LoseClaim(w, e) PROVE \A s \in Sub : StatusMoves(s)
    BY <1>0, <1>3, StatusKept DEF LoseClaim
  <1>4. ASSUME NEW w \in Worker, SaveExpired(w, e) PROVE \A s \in Sub : StatusMoves(s)
    <2>1. sub'[e.sub].status = "expired" /\ \A s \in Sub : s # e.sub => sub'[s] = sub[s]
      BY <1>0, <1>4 DEF SaveExpired, TypeOK
    <2>2. StatusMoves(e.sub)
      BY <2>1 DEF StatusMoves, Terminal, Stopped, Ended, PaidThroughStatus
    <2> QED
      BY <1>0, <2>1, <2>2, StatusKept
  <1> QED
    BY <1>1, <1>2, <1>3, <1>4

\* A claim undone: the document goes back to what the claim found.
LEMMA Undone ==
    ASSUME Base, NEW w \in Worker, Undoes(w)
    PROVE  LET s == del[w].event.sub  b == del[w].before
           IN  /\ Live(w) /\ s \in Sub /\ b \in Doc /\ b.count <= sub[s].count
               /\ sub[s].count = del[w].event.count /\ sub[s].token = w
               /\ sub'[s].count = b.count /\ sub'[s].token = b.token /\ sub'[s].claim = b.claim
               /\ sub'[s].status = sub[s].status /\ sub'[s].paidThrough = sub[s].paidThrough
               /\ s \in Yearly => /\ sub'[s].anchor = b.anchor /\ sub'[s].nextAt = b.nextAt
                                  /\ sub'[s].drips = b.drips
               /\ s \notin Yearly => sub'[s].drips = sub[s].drips
               /\ \A o \in Sub : o # s => sub'[o] = sub[o]
  <1> DEFINE s == del[w].event.sub
             b == del[w].before
  <1>1. Live(w)
    BY DEF Undoes, Live
  <1>2. s \in Sub /\ b \in Doc /\ sub[s] \in Doc /\ b.count <= del[w].event.count
    BY <1>1 DEF Base, WorkerOK, TypeOK, Event
  <1>3. sub[s].count = del[w].event.count /\ sub[s].token = w
    BY DEF Undoes, HoldsCycle, Owns
  <1>4. sub'[s] = Restored(w) /\ \A o \in Sub : o # s => sub'[o] = sub[o]
    BY <1>2 DEF Undoes, Base, TypeOK
  <1>5. /\ Restored(w).count = b.count /\ Restored(w).token = b.token
        /\ Restored(w).claim = b.claim /\ Restored(w).status = sub[s].status
        /\ Restored(w).paidThrough = sub[s].paidThrough
        /\ s \in Yearly => /\ Restored(w).anchor = b.anchor /\ Restored(w).nextAt = b.nextAt
                           /\ Restored(w).drips = b.drips
        /\ s \notin Yearly => Restored(w).drips = sub[s].drips
    BY <1>2 DEF Restored, Doc
  <1> QED
    BY <1>1, <1>2, <1>3, <1>4, <1>5

LEMMA StatusOfHandler ==
    ASSUME Base, NEW w \in Worker,
           \/ HandlerStep(w) \/ Die(w)
           \/ \E landed \in BOOLEAN : GrantThrows(w, landed) \/ UpdateThrows(w, landed)
    PROVE  \A s \in Sub : StatusMoves(s)
  <1>0. TypeOK
    BY DEF Base
  <1>1. ASSUME sub' = sub PROVE \A s \in Sub : StatusMoves(s)
    BY <1>0, <1>1, StatusKept
  <1>2. ASSUME Undoes(w) PROVE \A s \in Sub : StatusMoves(s)
    <2> DEFINE s == del[w].event.sub
    <2>1. /\ s \in Sub /\ sub'[s].status = sub[s].status
          /\ sub'[s].count <= sub[s].count
          /\ \A o \in Sub : o # s => sub'[o] = sub[o]
      BY <1>2, Undone
    <2>2. StatusMoves(s)
      BY <2>1 DEF StatusMoves
    <2> QED
      BY <1>0, <2>1, <2>2, StatusKept
  <1>3. ASSUME Ends(w) PROVE \A s \in Sub : StatusMoves(s)
    BY <1>0, <1>3, StatusKept DEF Ends, DocsKept, DocKept
  <1>4. ASSUME LookForOthers(w) \/ Downgrade(w) \/ ZeroInk(w) \/ PendingElsewhere(w) \/ Grant(w)
               \/ \E landed \in BOOLEAN : GrantThrows(w, landed)
        PROVE  sub' = sub
    BY <1>4 DEF LookForOthers, Downgrade, ZeroInk, PendingElsewhere, Grant, GrantThrows
  <1>5. CASE HandlerStep(w) /\ ~(Rollback(w) \/ Mark(w))
    BY <1>1, <1>4, <1>5 DEF HandlerStep
  <1>6. ASSUME Rollback(w) \/ Mark(w) \/ Die(w) \/ \E landed \in BOOLEAN : UpdateThrows(w, landed)
        PROVE  Undoes(w) \/ Ends(w) \/ sub' = sub
    <2>1. CASE Die(w)
      BY <2>1 DEF Die
    <2>2. CASE ~ Die(w)
      <3>1. del[w].pc \in {"rollback", "mark"} /\ del'[w] = Quiet
        BY <1>6, <2>2 DEF Rollback, Mark, UpdateThrows, Fails, Done, Acknowledged, Base, TypeOK
      <3>2. Live(w) /\ del'[w].pc # del[w].pc /\ ~ Live(w)'
        BY <3>1 DEF Live, Quiet
      <3>3. ~ Others /\ ~ Grant(w) /\ ~ \E landed \in BOOLEAN : GrantThrows(w, landed)
        BY <3>1, <3>2 DEF Others, LiveKept, Grant, GrantThrows
      <3> QED
        BY <1>6, <2>2, <3>3, HandlerMoves DEF HandlerStep
    <2> QED
      BY <2>1, <2>2
  <1> QED
    BY <1>1, <1>2, <1>3, <1>4, <1>5, <1>6

LEMMA StatusOfRead ==
    ASSUME Base, NEW r \in Reader, ReadStep(r) \/ ReadStops(r)
    PROVE  \A s \in Sub : StatusMoves(s)
  <1>0. TypeOK
    BY DEF Base
  <1>1. ASSUME NEW s \in Sub PROVE sub'[s].status = sub[s].status /\ sub'[s].count = sub[s].count
    <2>1. CASE TakeDrip(r) /\ DripFree(r)
      <3>1. \E x, y : sub' = [sub EXCEPT ![read[r].sub].drips = x, ![read[r].sub].nextAt = y]
        BY <2>1 DEF TakeDrip
      <3>2. PICK x, y : sub' = [sub EXCEPT ![read[r].sub].drips = x, ![read[r].sub].nextAt = y]
        BY <3>1
      <3> QED
        BY <1>0, <3>2 DEF TypeOK
    <2>2. CASE ~(TakeDrip(r) /\ DripFree(r))
      <3>1. sub' = sub
        BY <2>2 DEF ReadStep, ReadPlan, ReadEnded, ReadCurrent, TakePlan, TakeDrip, SetDrip,
                    ReadStops
      <3> QED
        BY <3>1
    <2> QED
      BY <2>1, <2>2
  <1> QED
    BY <1>0, <1>1, StatusKept

LEMMA StatusStep ==
    ASSUME Base, [Next]_vars
    PROVE  \A s \in Sub : StatusMoves(s)
  <1>1. TypeOK
    BY DEF Base
  <1>2. UNCHANGED vars => \A s \in Sub : StatusMoves(s)
    BY <1>1, StatusKept DEF vars
  <1> QED
    BY <1>1, <1>2, StepKinds, StatusOfWorld, StatusOfDelivery, StatusOfHandler, StatusOfRead

LEMMA StopStep ==
    ASSUME Base, [Next]_vars
    PROVE  StopOK'
  <1>1. SUFFICES ASSUME NEW s \in Sub, sub'[s].status \in Stopped
                 PROVE  sub'[s].count <= rz'[s].stop
    BY DEF StopOK
  <1>2. /\ sub[s].count \in Nat /\ sub'[s].count \in Nat
        /\ rz[s].stop \in Nat /\ rz'[s].stop \in Nat /\ rz[s].stop <= rz'[s].stop
    BY TypeStep, Contracts DEF Base, TypeOK, Doc, ContractsGrow
  <1>3. CASE sub[s].status \in Stopped /\ sub'[s].count <= sub[s].count
    BY <1>2, <1>3 DEF Base, StopOK
  <1>4. CASE /\ sub'[s].count = sub[s].count
             /\ \E e \in awaited : e.sub = s /\ e.kind \in Stopped /\ sub[s].count <= e.count
    <2>1. PICK e \in awaited : e.sub = s /\ e.kind \in Stopped /\ sub[s].count <= e.count
      BY <1>4
    <2>2. e.count \in Nat /\ e.count <= rz[s].stop
      BY <2>1 DEF Base, EventsOK, TypeOK, Event
    <2> QED
      BY <1>2, <1>4, <2>1, <2>2
  <1> QED
    BY <1>1, <1>3, <1>4, StatusStep DEF StatusMoves


-----------------------------------------------------------------------------
(* What a step does to a delivery, a grant and a read. *)

\* A delivery takes a place, goes on with what it knows, or is over.
PlaceMoves(w) ==
    \/ del'[w] = del[w] \/ del'[w] = Quiet
    \/ \E e \in awaited : ClaimCycle(w, e) \/ LoseClaim(w, e) \/ SaveExpired(w, e)
    \/ \E pc \in {"zero", "downgrade"} :
          /\ del'[w] = [del[w] EXCEPT !.pc = pc] /\ del[w].pc \in {"others", "downgrade"}
    \/ \E pc \in {"mark", "rollback"} :
          /\ del'[w] = [del[w] EXCEPT !.pc = pc] /\ del[w].pc = "grant"

LEMMA Places ==
    ASSUME TypeOK, [Next]_vars
    PROVE  \A w \in Worker : PlaceMoves(w)
  <1>1. ASSUME del' = del PROVE \A w \in Worker : PlaceMoves(w)
    BY <1>1 DEF PlaceMoves
  <1>2. World => del' = del
    BY DEF World, Subscribe, ExpireLapsed, Charge, Resume, GoesStale, Halt, Finish, Tick
  <1>3. ASSUME NEW r \in Reader, ReadStep(r) \/ ReadStops(r) PROVE del' = del
    BY <1>3 DEF ReadStep, ReadPlan, ReadEnded, ReadCurrent, TakePlan, TakeDrip, SetDrip,
                ReadStops
  <1>4. ASSUME NEW e \in awaited, ApplyStatus(e) PROVE del' = del
    BY <1>4 DEF ApplyStatus
  <1>5. ASSUME NEW e \in awaited, NEW w \in Worker,
               ClaimCycle(w, e) \/ LoseClaim(w, e) \/ SaveExpired(w, e)
        PROVE  \A v \in Worker : PlaceMoves(v)
    <2>1. \A v \in Worker : v # w => del'[v] = del[v]
      BY <1>5 DEF ClaimCycle, LoseClaim, SaveExpired, TypeOK
    <2> QED
      BY <1>5, <2>1 DEF PlaceMoves
  <1>6. ASSUME NEW w \in Worker,
               \/ HandlerStep(w) \/ Die(w)
               \/ \E landed \in BOOLEAN : GrantThrows(w, landed) \/ UpdateThrows(w, landed)
        PROVE  \A v \in Worker : PlaceMoves(v)
    <2>1. \/ del' = [del EXCEPT ![w] = Quiet]
          \/ /\ del[w].pc \in {"others", "downgrade"}
             /\ \E pc \in {"zero", "downgrade"} : del' = [del EXCEPT ![w].pc = pc]
          \/ /\ del[w].pc = "grant"
             /\ \E pc \in {"mark", "rollback"} : del' = [del EXCEPT ![w].pc = pc]
      BY <1>6 DEF HandlerStep, LookForOthers, Downgrade, ZeroInk, PendingElsewhere, Grant,
                  Rollback, Mark, Die, GrantThrows, UpdateThrows, Done, Fails, Goto, Stays,
                  Acknowledged
    <2>2. \A d : del' = [del EXCEPT ![w] = d] =>
                    del'[w] = d /\ \A v \in Worker : v # w => del'[v] = del[v]
      BY DEF TypeOK
    <2> QED
      BY <2>1, <2>2 DEF PlaceMoves
  <1>7. UNCHANGED vars => del' = del
    BY DEF vars
  <1> QED
    BY <1>1, <1>2, <1>3, <1>4, <1>5, <1>6, <1>7, StepKinds

\* A first month lands when it is granted, a drip when it is set; one at a time.
Lands(g) ==
    \/ grants'[g] = grants[g]
    \/ /\ grants'[g] = grants[g] + 1
       /\ \/ \E w \in Worker :
                /\ del[w].pc = "grant" /\ g = FirstMonth(w)
                /\ Grant(w) \/ CycleOf(w) \in doubt'
          \/ \E r \in Reader : SetDrip(r) /\ g = Month(r)

LEMMA GrantsMove ==
    ASSUME Base, [Next]_vars
    PROVE  \A g \in GrantKey : Lands(g)
  <1>0. grants \in [GrantKey -> Nat]
    BY DEF Base, TypeOK
  <1>1. ASSUME grants' = grants PROVE \A g \in GrantKey : Lands(g)
    BY <1>1 DEF Lands
  <1>2. ASSUME NEW w \in Worker, del[w].pc = "grant",
               grants' = [grants EXCEPT ![FirstMonth(w)] = @ + 1],
               Grant(w) \/ CycleOf(w) \in doubt'
        PROVE  \A g \in GrantKey : Lands(g)
    BY <1>0, <1>2 DEF Lands
  <1>3. ASSUME NEW r \in Reader, SetDrip(r) PROVE \A g \in GrantKey : Lands(g)
    <2>1. grants' = [grants EXCEPT ![Month(r)] = @ + 1]
      BY <1>3 DEF SetDrip
    <2> QED
      BY <1>0, <1>3, <2>1 DEF Lands
  <1>4. ASSUME NEW w \in Worker, Grant(w) \/ \E landed \in BOOLEAN : GrantThrows(w, landed)
        PROVE  \A g \in GrantKey : Lands(g)
    <2>1. /\ del[w].pc = "grant"
          /\ \/ grants' = grants
             \/ /\ grants' = [grants EXCEPT ![FirstMonth(w)] = @ + 1]
                /\ Grant(w) \/ CycleOf(w) \in doubt'
      BY <1>4 DEF Grant, GrantThrows
    <2> QED
      BY <1>1, <1>2, <2>1
  <1>5. ASSUME NEW w \in Worker, (\E e \in awaited : ClaimCycle(w, e)) \/ Undoes(w) \/ Ends(w)
        PROVE  grants' = grants
    BY <1>5 DEF ClaimCycle, Undoes, Ends
  <1>6. ASSUME NEW r \in Reader, TakeDrip(r) PROVE grants' = grants
    BY <1>6 DEF TakeDrip, history, excused
  <1> QED
    BY <1>1, <1>3, <1>4, <1>5, <1>6, Moves DEF Others

LEMMA CountStep ==
    ASSUME Base, [Next]_vars
    PROVE  \A s \in Sub : \/ sub'[s].count <= sub[s].count
                          \/ \E w \in Worker, e \in awaited :
                                /\ ClaimCycle(w, e) /\ e.sub = s /\ sub'[s].count = e.count
  <1>1. SUFFICES ASSUME NEW s \in Sub, sub'[s].count # sub[s].count
                 PROVE  \/ sub'[s].count <= sub[s].count
                        \/ \E w \in Worker, e \in awaited :
                              /\ ClaimCycle(w, e) /\ e.sub = s /\ sub'[s].count = e.count
    BY DEF Base, TypeOK, Doc
  <1>2. ~ Others /\ \A w \in Worker : ~ Ends(w)
    BY <1>1 DEF Others, Ends, DocsKept, DocKept
  <1>3. \A w \in Worker : ~ Grant(w) /\ \A landed \in BOOLEAN : ~ GrantThrows(w, landed)
    BY <1>1 DEF Grant, GrantThrows
  <1>4. ASSUME NEW r \in Reader, TakeDrip(r), DripFree(r) PROVE FALSE
    <2>1. \E x, y : sub' = [sub EXCEPT ![read[r].sub].drips = x, ![read[r].sub].nextAt = y]
      BY <1>4 DEF TakeDrip
    <2>2. PICK x, y : sub' = [sub EXCEPT ![read[r].sub].drips = x, ![read[r].sub].nextAt = y]
      BY <2>1
    <2> QED
      BY <1>1, <2>2 DEF Base, TypeOK
  <1>5. ASSUME NEW r \in Reader, SetDrip(r) PROVE FALSE
    BY <1>1, <1>5 DEF SetDrip
  <1>6. ASSUME NEW w \in Worker, Undoes(w) PROVE sub'[s].count <= sub[s].count
    BY <1>1, <1>6, Undone
  <1>7. ASSUME NEW w \in Worker, NEW e \in awaited, ClaimCycle(w, e)
        PROVE  e.sub = s /\ sub'[s].count = e.count
    <2>1. e.sub \in Sub /\ sub' = [sub EXCEPT ![e.sub] = Charged(w, e.sub, e.count)]
      BY <1>7 DEF ClaimCycle, Base, TypeOK, Event
    <2> QED
      BY <1>1, <2>1 DEF Charged, Base, TypeOK
  <1> QED
    BY <1>2, <1>3, <1>4, <1>5, <1>6, <1>7, Moves

LEMMA ChargesStep ==
    ASSUME Base, [Next]_vars
    PROVE  ChargesOK'
  <1>0. ContractsGrow /\ TypeOK' /\ now \in Nat /\ now > 0
        /\ \A s \in Sub : rz[s] \in Contract /\ rz'[s] \in Contract
    BY Contracts, TypeStep DEF Base, TypeOK, ChargesOK, Contract
  <1>1. ASSUME NEW s \in Sub PROVE sub'[s].count <= rz'[s].charges
    <2>1. rz[s].charges <= rz'[s].charges /\ sub[s].count <= rz[s].charges
      BY <1>0 DEF Base, ChargesOK, Contract, ContractsGrow
    <2>2. ASSUME NEW w \in Worker, NEW e \in awaited, ClaimCycle(w, e), e.sub = s
          PROVE  e.count <= rz[s].charges
      BY <2>2 DEF Base, EventsOK
    <2>3. {sub[s].count, sub'[s].count, rz[s].charges, rz'[s].charges} \subseteq Nat
      BY <1>0 DEF Base, TypeOK, Doc, Contract
    <2> QED
      BY <2>1, <2>2, <2>3, CountStep
  <1>2. ASSUME NEW s \in Sub, NEW k \in Cycle, NEW m \in 0..YEARLY_DRIP_MAX,
               grants'[<<s, k, m>>] > 0
        PROVE  k <= rz'[s].charges
    <2> DEFINE g == <<s, k, m>>
    <2>1. g \in GrantKey /\ k \in Nat
      BY Sizes DEF GrantKey
    <2>2. rz[s].charges <= rz'[s].charges /\ {rz[s].charges, rz'[s].charges} \subseteq Nat
      BY <1>0 DEF Contract, ContractsGrow
    <2>3. CASE grants[g] > 0
      BY <2>1, <2>2, <2>3 DEF Base, ChargesOK
    <2>4. CASE \E w \in Worker : del[w].pc = "grant" /\ g = FirstMonth(w)
      <3>1. PICK w \in Worker : del[w].pc = "grant" /\ g = FirstMonth(w)
        BY <2>4
      <3>2. k <= rz[s].charges
        BY <3>1 DEF FirstMonth, Base, WorkerOK, Live
      <3> QED
        BY <2>1, <2>2, <3>2
    <2>5. CASE \E r \in Reader : SetDrip(r) /\ g = Month(r)
      <3>1. PICK r \in Reader : read[r].pc = "set" /\ g = Month(r)
        BY <2>5 DEF SetDrip
      <3>2. k <= rz[s].charges
        BY <3>1 DEF Month, Base, ReaderOK
      <3> QED
        BY <2>1, <2>2, <3>2
    <2> QED
      <3>1. Lands(g)
        BY <2>1, GrantsMove
      <3>2. grants'[g] = grants[g] => grants[g] > 0
        BY <1>2
      <3> HIDE DEF g
      <3>3. \/ grants'[g] = grants[g]
            \/ \E w \in Worker : del[w].pc = "grant" /\ g = FirstMonth(w)
            \/ \E r \in Reader : SetDrip(r) /\ g = Month(r)
        BY <3>1 DEF Lands
      <3> QED
        BY <2>3, <2>4, <2>5, <3>2, <3>3
  <1>3. now' > 0 /\ \A s \in Sub : /\ rz'[s].stop <= rz'[s].charges
                                   /\ rz'[s].charges > 0 => rz'[s].start \in 1..now'
    BY <1>0 DEF ContractsGrow
  <1> QED
    BY <1>1, <1>2, <1>3 DEF ChargesOK

LEMMA RetakenGrows ==
    ASSUME [Next]_vars
    PROVE  retaken \subseteq retaken'
  BY StepKinds DEF vars, World, Subscribe, ExpireLapsed, Charge, Resume, GoesStale, Halt, Finish,
     Tick, ApplyStatus, ClaimCycle, LoseClaim, SaveExpired, HandlerStep, LookForOthers, Downgrade,
     ZeroInk, PendingElsewhere, Grant, Rollback, Mark, Die, GrantThrows, UpdateThrows, ReadStep,
     ReadPlan, ReadEnded, ReadCurrent, TakePlan, TakeDrip, SetDrip, ReadStops, history, excused

LEMMA WorkerStep ==
    ASSUME Base, [Next]_vars
    PROVE  \A w \in Worker : WorkerOK(w)'
  <1>0. SUFFICES ASSUME NEW w \in Worker PROVE WorkerOK(w)'
    OBVIOUS
  <1> DEFINE e == del[w].event
  <1>1. WorkerOK(w) /\ del[w] \in DelRecord /\ retaken \subseteq retaken'
    BY RetakenGrows DEF Base, TypeOK, DelRecord
  <1>2. \A s \in Sub : /\ rz[s].charges <= rz'[s].charges
                       /\ rz[s].charges \in Nat /\ rz'[s].charges \in Nat
                       /\ sub[s].status = "expired" => sub'[s].status = "expired"
    <2>1. \A s \in Sub : rz[s] \in Contract /\ rz'[s] \in Contract
      BY TypeStep DEF Base, TypeOK, Contract
    <2>2. \A s \in Sub : rz'[s].charges \in {rz[s].charges, rz[s].charges + 1}
      BY Contracts DEF ContractsGrow
    <2>3. \A s \in Sub : sub[s].status = "expired" => sub'[s].status = "expired"
      BY StatusStep DEF StatusMoves
    <2> QED
      BY <2>1, <2>2, <2>3 DEF Contract
  <1>3. \A d \in Event : d.sub \in Sub /\ d.count \in Nat
    BY DEF Event
  <1>4. ASSUME del'[w] = del[w] PROVE WorkerOK(w)'
    BY <1>1, <1>2, <1>3, <1>4 DEF WorkerOK, Live, ChargeEvent, CycleOf
  <1>5. ASSUME del'[w] = Quiet PROVE WorkerOK(w)'
    BY <1>5 DEF WorkerOK, Live, Quiet
  <1>6. ASSUME NEW d \in awaited, ClaimCycle(w, d) PROVE WorkerOK(w)'
    <2>1. del'[w] = [pc |-> "grant", event |-> d, before |-> sub[d.sub]]
      BY <1>6 DEF ClaimCycle, Base, TypeOK
    <2>2. /\ d \in Event /\ ChargeEvent(d) /\ d.count \in 1..rz[d.sub].charges
          /\ d.kind = "activated" => d.count = 1
      BY <1>6, <1>2, <1>3 DEF ClaimCycle, Base, EventsOK, TypeOK
    <2>3. sub[d.sub].count <= d.count /\ (sub[d.sub].count = d.count => <<d.sub, d.count>> \in retaken')
      BY <1>6, <2>2 DEF ClaimCycle, Claimable, Base, TypeOK, Event, Doc
    <2> QED
      BY <2>1, <2>2, <2>3, <1>2, <1>3 DEF WorkerOK, Live, CycleOf, ChargeEvent
  <1>7. ASSUME NEW d \in awaited, LoseClaim(w, d) PROVE WorkerOK(w)'
    <2>1. del'[w].pc = "elsewhere" /\ del'[w].event = d
      <3>1. del'[w] = [Quiet EXCEPT !.pc = "elsewhere", !.event = d]
        BY <1>7 DEF LoseClaim, Base, TypeOK
      <3> QED
        BY <3>1 DEF Quiet
    <2>2. /\ d \in Event /\ ChargeEvent(d) /\ d.count \in 1..rz[d.sub].charges
          /\ d.kind = "activated" => d.count = 1
      BY <1>7, <1>2, <1>3 DEF LoseClaim, Base, EventsOK, TypeOK
    <2> QED
      BY <2>1, <2>2, <1>2, <1>3 DEF WorkerOK, Live, ChargeEvent
  <1>8. ASSUME NEW d \in awaited, SaveExpired(w, d) PROVE WorkerOK(w)'
    <2>1. del'[w].pc = "others" /\ del'[w].event = d
      <3>1. del'[w] = [Quiet EXCEPT !.pc = "others", !.event = d]
        BY <1>8 DEF SaveExpired, Base, TypeOK
      <3> QED
        BY <3>1 DEF Quiet
    <2>2. d \in Event /\ d.kind = "expired" /\ sub'[d.sub].status = "expired"
      <3>1. d \in Event /\ d.sub \in Sub /\ sub' = [sub EXCEPT ![d.sub].status = "expired"]
        BY <1>8 DEF SaveExpired, Base, TypeOK, Event
      <3> QED
        BY <1>8, <3>1 DEF SaveExpired, Base, TypeOK, Doc
    <2> QED
      BY <2>1, <2>2 DEF WorkerOK, Live
  <1>9. ASSUME NEW pc, del'[w] = [del[w] EXCEPT !.pc = pc],
               \/ pc \in {"zero", "downgrade"} /\ del[w].pc \in {"others", "downgrade"}
               \/ pc \in {"mark", "rollback"} /\ del[w].pc = "grant"
        PROVE  WorkerOK(w)'
    <2>1. del'[w].pc = pc /\ del'[w].event = e /\ del'[w].before = del[w].before
      BY <1>1, <1>9 DEF DelRecord
    <2> QED
      BY <1>1, <1>2, <1>3, <1>9, <2>1 DEF WorkerOK, Live, ChargeEvent, CycleOf
  <1> QED
    BY <1>4, <1>5, <1>6, <1>7, <1>8, <1>9, Places DEF Base, PlaceMoves

\* A read takes what a document has, or goes on.
LEMMA ReaderStep ==
    ASSUME Base, [Next]_vars
    PROVE  \A r \in Reader : ReaderOK(r)'
  <1>0. SUFFICES ASSUME NEW r \in Reader PROVE ReaderOK(r)'
    OBVIOUS
  <1>1. ReaderOK(r) /\ read[r] \in Reading
    BY DEF Base, TypeOK
  <1>2. \A s \in Sub : /\ rz[s].charges <= rz'[s].charges
                       /\ rz[s].charges \in Nat /\ rz'[s].charges \in Nat
    BY TypeStep, Contracts DEF Base, TypeOK, ContractsGrow
  <1>3. ASSUME read'[r] = read[r] PROVE ReaderOK(r)'
    BY <1>1, <1>2, <1>3, Sizes DEF ReaderOK, Reading
  <1>4. ASSUME read'[r].pc \notin {"take", "set"} PROVE ReaderOK(r)'
    BY <1>4 DEF ReaderOK
  <1>5. ASSUME NEW q \in Reader, q # r, ReadStep(q) \/ ReadStops(q) PROVE read'[r] = read[r]
    BY <1>5 DEF ReadStep, ReadPlan, ReadEnded, ReadCurrent, TakePlan, TakeDrip, SetDrip,
                ReadStops, At, Rest, Base, TypeOK
  <1>6. ASSUME ~ \E q \in Reader : ReadStep(q) \/ ReadStops(q) PROVE read' = read
    <2>1. World => read' = read
      BY DEF World, Subscribe, ExpireLapsed, Charge, Resume, GoesStale, Halt, Finish, Tick
    <2>2. \A w \in Worker, e \in awaited :
             ApplyStatus(e) \/ ClaimCycle(w, e) \/ LoseClaim(w, e) \/ SaveExpired(w, e)
                => read' = read
      BY DEF ApplyStatus, ClaimCycle, LoseClaim, SaveExpired
    <2>3. \A w \in Worker : HandlerStep(w) \/ Die(w) => read' = read
      BY DEF HandlerStep, LookForOthers, Downgrade, ZeroInk, PendingElsewhere, Grant, Rollback,
             Mark, Die
    <2>4. \A w \in Worker, landed \in BOOLEAN :
             GrantThrows(w, landed) \/ UpdateThrows(w, landed) => read' = read
      BY DEF GrantThrows, UpdateThrows
    <2>5. \A e \in awaited : ApplyStatus(e) => read' = read
      BY DEF ApplyStatus
    <2>6. UNCHANGED vars => read' = read
      BY DEF vars
    <2> QED
      BY <1>6, <2>1, <2>2, <2>3, <2>4, <2>5, <2>6, StepKinds
  <1>a. ASSUME Rest(r) PROVE ReaderOK(r)'
    BY <1>4, <1>a DEF Rest, Base, TypeOK, Resting
  <1>b. ASSUME NEW pc \in {"ended", "current", "zero"}, At(r, pc) PROVE ReaderOK(r)'
    BY <1>4, <1>b DEF At, Base, TypeOK
  <1>7. ASSUME ReadPlan(r) PROVE ReaderOK(r)'
    <2> DEFINE dripping == {s \in Sub : Dripping(s)}
               s == Newest(dripping)
    <2>1. CASE dripping = {} \/ sub[s].nextAt = None
      BY <1>7, <1>b, <2>1 DEF ReadPlan
    <2>2. CASE ~ (dripping = {} \/ sub[s].nextAt = None)
      <3>1. s \in dripping
        BY <2>2, NewestIn
      <3>2. s \in Sub /\ s \in Yearly
        BY <3>1 DEF Dripping
      <3> HIDE DEF s
      <3>3. /\ sub[s].nextAt \in 1..now /\ DripsLeft(sub[s].drips)
            /\ read' = [read EXCEPT ![r] =
                  [pc |-> "take", sub |-> s, cycle |-> sub[s].count, n |-> sub[s].drips,
                   nextAt |-> sub[s].nextAt, anchor |-> sub[s].anchor]]
        BY <1>7, <2>2 DEF ReadPlan, s
      <3>4. read'[r].pc = "take" /\ read'[r].sub = s /\ read'[r].cycle = sub[s].count
            /\ read'[r].n = sub[s].drips
        BY <3>3 DEF Base, TypeOK
      <3>5. sub[s].count > 0 /\ sub[s].count <= rz[s].charges /\ sub[s].count \in Nat
        BY <3>2, <3>3 DEF Base, DatesOK, ChargesOK, TypeOK, Doc
      <3> QED
        BY <1>2, <3>2, <3>3, <3>4, <3>5 DEF ReaderOK, DripsLeft
    <2> QED
      BY <2>1, <2>2
  <1>8. ASSUME ReadEnded(r) \/ ReadCurrent(r) \/ TakePlan(r) \/ ReadStops(r) PROVE ReaderOK(r)'
    BY <1>8, <1>a, <1>b DEF ReadEnded, ReadCurrent, TakePlan, ReadStops
  <1>9. ASSUME TakeDrip(r) PROVE ReaderOK(r)'
    <2>1. CASE DripFree(r)
      <3>1. read'[r].pc = "set" /\ read'[r].sub = read[r].sub /\ read'[r].cycle = read[r].cycle
            /\ read'[r].n = read[r].n + 1
        BY <1>9, <2>1, <1>1 DEF TakeDrip, Base, TypeOK, Reading
      <3> QED
        BY <1>1, <1>2, <1>9, <3>1, Sizes DEF TakeDrip, ReaderOK, Reading
    <2>2. CASE ~ DripFree(r)
      BY <1>9, <1>a, <2>2 DEF TakeDrip
    <2> QED
      BY <2>1, <2>2
  <1>10. ASSUME SetDrip(r) PROVE ReaderOK(r)'
    <2>1. CASE read[r].nextAt <= now /\ DripsLeft(read[r].n)
      <3>1. read' = [read EXCEPT ![r].pc = "take"]
        BY <1>10, <2>1 DEF SetDrip, At
      <3>2. read'[r].pc = "take" /\ read'[r].sub = read[r].sub /\ read'[r].cycle = read[r].cycle
            /\ read'[r].n = read[r].n
        BY <3>1, <1>1 DEF Base, TypeOK, Reading
      <3> QED
        BY <1>1, <1>2, <1>10, <2>1, <3>2, Sizes DEF SetDrip, ReaderOK, Reading, DripsLeft
    <2>2. CASE ~ (read[r].nextAt <= now /\ DripsLeft(read[r].n))
      BY <1>10, <1>a, <2>2 DEF SetDrip
    <2> QED
      BY <2>1, <2>2
  <1>11. ASSUME ReadStep(r) PROVE ReaderOK(r)'
    BY <1>7, <1>8, <1>9, <1>10, <1>11 DEF ReadStep
  <1> QED
    BY <1>3, <1>5, <1>6, <1>8, <1>11

-----------------------------------------------------------------------------
(* What becomes of a document, and of what a claim found. *)

LEMMA CycleNat == \A k \in Cycle : k \in Nat /\ k > 0
  BY DEF Cycle

LEMMA DocMoves ==
    ASSUME Base, [Next]_vars, NEW s \in Sub
    PROVE  \/ DocKept(s)
           \/ \E w \in Worker, e \in awaited : ClaimCycle(w, e) /\ e.sub = s
           \/ \E w \in Worker : Undoes(w) /\ del[w].event.sub = s
           \/ \E r \in Reader : TakeDrip(r) /\ DripFree(r) /\ read[r].sub = s
  <1>1. sub'[s] = sub[s] => DocKept(s)
    BY DEF DocKept
  <1>2. ASSUME NEW w \in Worker, NEW e \in awaited, ClaimCycle(w, e), e.sub # s
        PROVE  sub'[s] = sub[s]
    BY <1>2 DEF ClaimCycle, Base, TypeOK
  <1>3. ASSUME NEW w \in Worker, Undoes(w), del[w].event.sub # s PROVE sub'[s] = sub[s]
    BY <1>3 DEF Undoes, Base, TypeOK
  <1>4. ASSUME NEW r \in Reader, TakeDrip(r), DripFree(r), read[r].sub # s
        PROVE  sub'[s] = sub[s]
    BY <1>4 DEF TakeDrip, Base, TypeOK
  <1>5. ASSUME NEW w \in Worker, Grant(w) \/ \E landed \in BOOLEAN : GrantThrows(w, landed)
        PROVE  sub'[s] = sub[s]
    BY <1>5 DEF Grant, GrantThrows
  <1>6. ASSUME NEW r \in Reader, SetDrip(r) PROVE sub'[s] = sub[s]
    BY <1>6 DEF SetDrip
  <1> QED
    BY <1>1, <1>2, <1>3, <1>4, <1>5, <1>6, Moves DEF Others, Ends, DocsKept

\* A delivery has a claim because it had it or takes it now.
LEMMA LiveMoves ==
    ASSUME Base, [Next]_vars, NEW w \in Worker, Live(w)'
    PROVE  \/ /\ Live(w) /\ del'[w].event = del[w].event /\ del'[w].before = del[w].before
              /\ \/ del'[w].pc = del[w].pc
                 \/ del[w].pc = "grant" /\ del'[w].pc \in {"mark", "rollback"}
           \/ \E e \in awaited : ClaimCycle(w, e)
  <1>1. del[w] \in DelRecord
    BY DEF Base, TypeOK, DelRecord
  <1>2. ASSUME del'[w] = del[w] PROVE Live(w)
    BY <1>2 DEF Live
  <1>3. del'[w] # Quiet
    BY DEF Live, Quiet
  <1>4. ASSUME NEW e \in awaited, LoseClaim(w, e) \/ SaveExpired(w, e) PROVE FALSE
    <2>1. \/ del'[w] = [Quiet EXCEPT !.pc = "elsewhere", !.event = e]
          \/ del'[w] = [Quiet EXCEPT !.pc = "others", !.event = e]
      BY <1>4 DEF LoseClaim, SaveExpired, Base, TypeOK
    <2>2. /\ [Quiet EXCEPT !.pc = "elsewhere", !.event = e].pc = "elsewhere"
          /\ [Quiet EXCEPT !.pc = "others", !.event = e].pc = "others"
      BY DEF Quiet
    <2>3. del'[w].pc \in {"elsewhere", "others"}
      BY <2>1, <2>2
    <2> QED
      BY <2>3 DEF Live
  <1>5. ASSUME NEW pc \in {"zero", "downgrade"}, del'[w] = [del[w] EXCEPT !.pc = pc] PROVE FALSE
    <2>1. del'[w].pc = pc
      BY <1>1, <1>5 DEF DelRecord
    <2> QED
      BY <2>1 DEF Live
  <1>6. ASSUME NEW pc \in {"mark", "rollback"}, del'[w] = [del[w] EXCEPT !.pc = pc],
               del[w].pc = "grant"
        PROVE  /\ Live(w) /\ del'[w].event = del[w].event /\ del'[w].before = del[w].before
               /\ del'[w].pc = pc
    BY <1>1, <1>6 DEF DelRecord, Live
  <1> QED
    BY <1>2, <1>3, <1>4, <1>5, <1>6, Places DEF Base, PlaceMoves

\* What a claim writes and keeps.
LEMMA Claimed ==
    ASSUME Base, NEW w \in Worker, NEW e \in awaited, ClaimCycle(w, e)
    PROVE  /\ e \in Event /\ e.sub \in Sub /\ e.count \in Cycle /\ ChargeEvent(e)
           /\ sub[e.sub].count <= e.count /\ sub'[e.sub] = Charged(w, e.sub, e.count)
           /\ sub'[e.sub].count = e.count /\ sub'[e.sub].token = w
           /\ sub'[e.sub].claim = "pending"
           /\ sub[e.sub].count = e.count =>
                 sub[e.sub].claim = "stale" /\ <<e.sub, e.count>> \in retaken'
           /\ \A o \in Sub : o # e.sub => sub'[o] = sub[o]
           /\ del[w] = Quiet
           /\ del'[w] = [pc |-> "grant", event |-> e, before |-> sub[e.sub]]
           /\ \A v \in Worker : v # w => del'[v] = del[v]
  <1>1. /\ e \in Event /\ e.sub \in Sub /\ e.count \in Cycle
    BY ClaimType DEF Base
  <1>2. /\ sub'[e.sub] = Charged(w, e.sub, e.count) /\ \A o \in Sub : o # e.sub => sub'[o] = sub[o]
        /\ del'[w] = [pc |-> "grant", event |-> e, before |-> sub[e.sub]]
        /\ \A v \in Worker : v # w => del'[v] = del[v]
    BY <1>1 DEF ClaimCycle, Base, TypeOK
  <1>3. /\ sub[e.sub].count <= e.count
        /\ sub[e.sub].count = e.count =>
              sub[e.sub].claim = "stale" /\ <<e.sub, e.count>> \in retaken'
    <2>1. sub[e.sub].count \in Nat /\ e.count \in Nat
      BY <1>1, CycleNat DEF Base, TypeOK, Doc
    <2>2. Claimable(e.sub, e.count)
      BY DEF ClaimCycle
    <2>3. sub[e.sub].count = e.count /\ sub[e.sub].claim = "stale"
             => <<e.sub, e.count>> \in retaken'
      BY DEF ClaimCycle
    <2> QED
      BY <2>1, <2>2, <2>3 DEF Claimable
  <1> QED
    BY <1>1, <1>2, <1>3 DEF Charged, ClaimCycle, Free

LEMMA ClaimPlace ==
    ASSUME Base, NEW w \in Worker, NEW e \in awaited, ClaimCycle(w, e)
    PROVE  /\ del[w] = Quiet /\ del[w].pc = "idle"
           /\ del'[w] = [pc |-> "grant", event |-> e, before |-> sub[e.sub]]
           /\ del'[w].pc = "grant" /\ del'[w].event = e /\ del'[w].before = sub[e.sub]
           /\ \A v \in Worker : v # w => del'[v] = del[v]
  <1>1. /\ del[w] = Quiet
        /\ del'[w] = [pc |-> "grant", event |-> e, before |-> sub[e.sub]]
        /\ \A v \in Worker : v # w => del'[v] = del[v]
    BY Claimed
  <1> QED
    BY <1>1 DEF Quiet

LEMMA ClaimDoc ==
    ASSUME Base, NEW w \in Worker, NEW e \in awaited, ClaimCycle(w, e)
    PROVE  /\ sub'[e.sub] = Charged(w, e.sub, e.count)
           /\ e.count \in Cycle /\ e.count \in Nat /\ e.count > 0
  <1>1. e.sub \in Sub /\ e.count \in Cycle
    BY ClaimType DEF Base
  <1>2. sub'[e.sub] = Charged(w, e.sub, e.count)
    BY <1>1 DEF ClaimCycle, Base, TypeOK
  <1> QED
    BY <1>1, <1>2, CycleNat

LEMMA DatesStep ==
    ASSUME Base, [Next]_vars
    PROVE  DatesOK'
  <1>1. ASSUME NEW s \in Yearly, sub'[s].nextAt > 0 PROVE sub'[s].count > 0
    <2>0. s \in Sub /\ sub[s] \in Doc /\ (sub[s].nextAt > 0 => sub[s].count > 0)
      BY Sizes DEF Base, DatesOK, TypeOK
    <2>1. CASE DocKept(s)
      BY <1>1, <2>0, <2>1 DEF DocKept
    <2>2. ASSUME NEW w \in Worker, NEW e \in awaited, ClaimCycle(w, e), e.sub = s
          PROVE  sub'[s].count > 0
      <3>1. sub'[s].count = e.count /\ e.count \in Cycle
        BY <2>2, Claimed
      <3> QED
        BY <3>1, CycleNat
    <2>3. ASSUME NEW w \in Worker, Undoes(w), del[w].event.sub = s PROVE sub'[s].count > 0
      <3>1. /\ Live(w) /\ sub'[s].count = del[w].before.count
            /\ sub'[s].nextAt = del[w].before.nextAt
        BY <2>3, Undone
      <3> QED
        BY <1>1, <2>3, <3>1 DEF Base, DatesOK
    <2>4. ASSUME NEW r \in Reader, TakeDrip(r), DripFree(r), read[r].sub = s
          PROVE  sub'[s].count > 0
      <3>1. sub[s].count > 0
        BY <2>0, <2>4 DEF DripFree, Doc
      <3>2. sub'[s].count = sub[s].count
        <4>1. \E x, y : sub' = [sub EXCEPT ![read[r].sub].drips = x, ![read[r].sub].nextAt = y]
          BY <2>4 DEF TakeDrip
        <4>2. PICK x, y : sub' = [sub EXCEPT ![s].drips = x, ![s].nextAt = y]
          BY <2>4, <4>1
        <4> QED
          BY <2>0, <4>2 DEF Base, TypeOK
      <3> QED
        BY <3>1, <3>2
    <2> QED
      BY <2>0, <2>1, <2>2, <2>3, <2>4, DocMoves
  <1>2. ASSUME NEW s \in Yearly, NEW w \in Worker, Live(w)', del'[w].event.sub = s,
               del'[w].before.nextAt > 0
        PROVE  del'[w].before.count > 0
    <2>1. ASSUME NEW e \in awaited, ClaimCycle(w, e) PROVE del'[w].before.count > 0
      <3>1. del'[w] = [pc |-> "grant", event |-> e, before |-> sub[e.sub]]
        BY <2>1, Claimed
      <3> QED
        BY <1>2, <3>1 DEF Base, DatesOK
    <2> QED
      BY <1>2, <2>1, LiveMoves DEF Base, DatesOK
  <1> QED
    BY <1>1, <1>2 DEF DatesOK, Live

\* The first inductive invariant.
LEMMA BaseInit == Init => Base
  <1> SUFFICES ASSUME Init PROVE Base
    OBVIOUS
  <1>1. TypeOK
    BY TypeInit
  <1>2. \A s \in Sub : sub[s] = NoDoc /\ rz[s].charges = 0 /\ rz[s].stop = 0
    <2>1. sub = [s \in Sub |-> NoDoc]
      BY DEF Init
    <2>2. rz = [s \in Sub |-> [start |-> None, charges |-> 0, stop |-> None, state |-> "none"]]
      BY DEF Init
    <2> QED
      BY <2>1, <2>2, Sizes
  <1>3. \A w \in Worker : del[w] = Quiet
    BY DEF Init
  <1>4. \A r \in Reader : read[r] = Resting
    BY DEF Init
  <1>5. ChargesOK
    BY <1>2, Sizes DEF Init, ChargesOK, NoDoc, GrantKey
  <1> QED
    BY <1>1, <1>2, <1>3, <1>4, <1>5, Sizes DEF Init, Base, DatesOK, EventsOK, StopOK, WorkerOK,
       ReaderOK, NoDoc, Quiet, Resting, Live, Stopped

LEMMA BaseStep == Base /\ [Next]_vars => Base'
  BY TypeStep, EventsStep, ChargesStep, StopStep, WorkerStep, ReaderStep, DatesStep DEF Base

THEOREM AlwaysBase == Spec => []Base
  BY BaseInit, BaseStep, PTL DEF Spec

\* The stops a subscription shows are true: each came after the last charge that was
\* granted, and an end is never undone (the filters of applySubscriptionEvent).
THEOREM StopsTrue == Spec => StopsAreTrue
  <1>1. Base /\ [Next]_vars =>
           [\A s \in Sub : sub'[s].status \in Stopped => sub'[s].count <= rz'[s].stop]_vars
    BY StopStep DEF StopOK
  <1>2. Base /\ [Next]_vars =>
           [\A s \in Sub : sub[s].status \in Terminal =>
              sub'[s].status \in Terminal
                /\ (sub[s].status = "expired" => sub'[s].status = "expired")]_vars
    BY StatusStep DEF StatusMoves
  <1> QED
    BY <1>1, <1>2, AlwaysBase, PTL DEF Spec, StopsAreTrue, StoppedSinceCharge, EndedStays

\* A drip taken: its count goes up, its date on.
LEMMA Taken ==
    ASSUME Base, NEW r \in Reader, TakeDrip(r), DripFree(r)
    PROVE  LET s == read[r].sub
           IN  /\ s \in Yearly /\ s \in Sub /\ sub[s].nextAt \in 1..now
               /\ sub[s].drips = read[r].n /\ sub'[s].drips = sub[s].drips + 1
               /\ sub'[s].nextAt = read[r].anchor + read[r].n + 2
               /\ sub'[s].count = sub[s].count /\ sub'[s].token = sub[s].token
               /\ sub'[s].claim = sub[s].claim /\ sub'[s].status = sub[s].status
               /\ sub'[s].paidThrough = sub[s].paidThrough /\ sub'[s].anchor = sub[s].anchor
               /\ \A o \in Sub : o # s => sub'[o] = sub[o]
  <1> DEFINE s == read[r].sub
             next == read[r].anchor + read[r].n + 2
  <1>1. s \in Yearly /\ s \in Sub
    BY Sizes DEF TakeDrip, Base, ReaderOK
  <1>2. sub[s].nextAt \in 1..now /\ sub[s].drips = read[r].n
    BY DEF DripFree
  <1>3. sub' = [sub EXCEPT ![s] = [sub[s] EXCEPT !.drips = @ + 1, !.nextAt = next]]
    BY <1>1 DEF TakeDrip, Base, TypeOK
  <1>4. sub'[s] = [sub[s] EXCEPT !.drips = @ + 1, !.nextAt = next]
        /\ \A o \in Sub : o # s => sub'[o] = sub[o]
    BY <1>1, <1>3 DEF Base, TypeOK
  <1>5. sub[s] \in Doc
    BY <1>1 DEF Base, TypeOK
  <1> HIDE DEF s, next
  <1>6. /\ sub'[s].drips = sub[s].drips + 1 /\ sub'[s].nextAt = next
        /\ sub'[s].count = sub[s].count /\ sub'[s].token = sub[s].token
        /\ sub'[s].claim = sub[s].claim /\ sub'[s].status = sub[s].status
        /\ sub'[s].paidThrough = sub[s].paidThrough /\ sub'[s].anchor = sub[s].anchor
    BY <1>4, <1>5 DEF Doc
  <1> QED
    BY <1>1, <1>2, <1>4, <1>6 DEF s, next

LEMMA DocTypes ==
    ASSUME Base, [Next]_vars
    PROVE  \A s \in Sub : sub[s] \in Doc /\ sub'[s] \in Doc
  BY TypeStep DEF Base, TypeOK

\* A delivery with a claim goes on only by granting, undoing or ending.
LEMMA Leaves ==
    ASSUME Base, [Next]_vars, NEW w \in Worker, Live(w), del'[w] # del[w]
    PROVE  \/ Undoes(w) \/ Ends(w) \/ Grant(w)
           \/ \E landed \in BOOLEAN : GrantThrows(w, landed)
  <1>1. ~ Others
    BY DEF Others, LiveKept
  <1>2. ASSUME NEW v \in Worker, NEW e \in awaited, ClaimCycle(v, e) PROVE FALSE
    BY <1>2, ClaimPlace DEF Live
  <1>3. ASSUME NEW v \in Worker, v # w,
               \/ Undoes(v) \/ Ends(v) \/ Grant(v) \/ \E landed \in BOOLEAN : GrantThrows(v, landed)
        PROVE  FALSE
    BY <1>3 DEF Undoes, Ends, Grant, GrantThrows, Goto, Base, TypeOK
  <1>4. \A r \in Reader : ~ TakeDrip(r) /\ ~ SetDrip(r)
    BY DEF TakeDrip, SetDrip
  <1> QED
    BY <1>1, <1>2, <1>3, <1>4, Moves

\* One claim at a time.
LEMMA OneClaim ==
    ASSUME Base, NEW v \in Worker, NEW w \in Worker, NEW d \in awaited, NEW e \in awaited,
           ClaimCycle(v, d), ClaimCycle(w, e)
    PROVE  v = w /\ d = e
  <1>1. del'[v].event = d /\ del'[v].pc = "grant" /\ del[v].pc = "idle"
    BY ClaimPlace
  <1>2. del'[w].event = e /\ (v # w => del'[v] = del[v])
    BY ClaimPlace
  <1> QED
    BY <1>1, <1>2

-----------------------------------------------------------------------------
(* What a subscription's count may go back to.  Each claim puts a count and a *)
(* token on a pile, each undo goes back to the one the claim found; a pile    *)
(* that no undo leaves bounds the count from below for good.                  *)

Pile == (0..MaxCharges) \X (Worker \cup {"none"})
Top(s) == <<sub[s].count, sub[s].token>>
Under(w) == <<del[w].before.count, del[w].before.token>>
Undoer(w, s) == del[w].pc \in {"grant", "rollback"} /\ del[w].event.sub = s

\* No undo, but of the claims in E, leaves the pile, and it finds a document in Q.
Kept(s, E, S, Q) ==
    /\ Top(s) \in S
    /\ \A w \in Worker :
         Undoer(w, s) /\ <<del[w].event.count, w>> \in S \ E => Under(w) \in S /\ del[w].before \in Q

ClaimedNow(s) == \E w \in Worker, e \in awaited : ClaimCycle(w, e) /\ e.sub = s

LEMMA UndoerMoves ==
    ASSUME Base, [Next]_vars, NEW w \in Worker, NEW s, Undoer(w, s)'
    PROVE  \/ /\ Undoer(w, s) /\ del'[w].event = del[w].event /\ del'[w].before = del[w].before
              /\ del[w] # Quiet
           \/ \E e \in awaited : ClaimCycle(w, e) /\ e.sub = s
  <1>1. Live(w)' /\ del'[w].pc \in {"grant", "rollback"} /\ del'[w].event.sub = s
    BY DEF Undoer, Live
  <1>2. ASSUME NEW e \in awaited, ClaimCycle(w, e) PROVE e.sub = s
    BY <1>1, <1>2, ClaimPlace
  <1> QED
    BY <1>1, <1>2, LiveMoves DEF Undoer, Live, Quiet

LEMMA KeptStays ==
    ASSUME Base, [Next]_vars, NEW s \in Sub, NEW E, NEW S, NEW Q, Kept(s, E, S, Q),
           \A w \in Worker : Undoes(w) /\ del[w].event.sub = s => Top(s) \notin E,
           ~ ClaimedNow(s)
    PROVE  Kept(s, E, S, Q)'
  <1>1. Top(s)' \in S
    <2>1. CASE DocKept(s)
      BY <2>1 DEF DocKept, Kept, Top
    <2>2. ASSUME NEW w \in Worker, Undoes(w), del[w].event.sub = s PROVE Top(s)' \in S
      <3>1. Top(s) = <<del[w].event.count, w>> /\ Top(s)' = Under(w)
        BY <2>2, Undone DEF Top, Under
      <3>2. Undoer(w, s)
        BY <2>2 DEF Undoer, Undoes
      <3> QED
        BY <2>2, <3>1, <3>2 DEF Kept
    <2>3. ASSUME NEW r \in Reader, TakeDrip(r), DripFree(r), read[r].sub = s
          PROVE  Top(s)' \in S
      BY <2>3, Taken DEF Kept, Top
    <2> QED
      BY <2>1, <2>2, <2>3, DocMoves DEF ClaimedNow
  <1>2. ASSUME NEW w \in Worker, Undoer(w, s)', <<del'[w].event.count, w>> \in S \ E
        PROVE  Under(w)' \in S /\ del'[w].before \in Q
    BY <1>2, UndoerMoves DEF Kept, ClaimedNow, Under
  <1> QED
    BY <1>1, <1>2 DEF Kept, Under, Top, Undoer

LEMMA KeptClaim ==
    ASSUME Base, [Next]_vars, NEW v \in Worker, NEW d \in awaited, ClaimCycle(v, d),
           NEW s \in Sub, s = d.sub, NEW k, k = d.count, NEW E, NEW S, NEW Q, Kept(s, E, S, Q),
           sub[s] \in Q \/ <<k, v>> \in E
    PROVE  Kept(s, E, S \cup {<<k, v>>}, Q)'
  <1> DEFINE T == S \cup {<<k, v>>}
  <1>1. Top(s)' \in T
    BY Claimed DEF Top
  <1>2. ASSUME NEW w \in Worker, Undoer(w, s)', <<del'[w].event.count, w>> \in T \ E
        PROVE  Under(w)' \in T /\ del'[w].before \in Q
    <2>1. CASE w = v
      <3>1. del'[w].event.count = k /\ del'[w].before = sub[s]
        BY <2>1, ClaimPlace
      <3>2. Under(w)' \in S
        BY <3>1 DEF Under, Kept, Top
      <3> QED
        BY <1>2, <2>1, <3>1, <3>2
    <2>2. CASE w # v
      <3>1. ~ \E e \in awaited : ClaimCycle(w, e)
        BY <2>2, OneClaim
      <3>2. Undoer(w, s) /\ del'[w].event = del[w].event /\ del'[w].before = del[w].before
        BY <1>2, <3>1, UndoerMoves
      <3>3. <<del[w].event.count, w>> \in S \ E
        BY <1>2, <2>2, <3>2
      <3> QED
        BY <3>2, <3>3 DEF Kept, Under
    <2> QED
      BY <2>1, <2>2
  <1> QED
    BY <1>1, <1>2 DEF Kept, Under, Top, Undoer

\* While a delivery has a claim, the count is at least its cycle's, and no other
\* entry of the pile is its own.
ClaimPile(w, s, k, S) ==
    /\ Kept(s, {<<k, w>>}, S, Doc)
    /\ \A p \in S : p[1] >= k /\ (p[2] = w => p[1] = k)

ClaimStays ==
    \A w \in Worker, s \in Sub, k \in Cycle :
        OnCycle(w, s, k) => \E S \in SUBSET Pile : ClaimPile(w, s, k, S)

LEMMA OnCycleMoves ==
    ASSUME Base, [Next]_vars, NEW w \in Worker, NEW s, NEW k, OnCycle(w, s, k)'
    PROVE  \/ OnCycle(w, s, k) /\ del'[w].before = del[w].before
           \/ \E e \in awaited : ClaimCycle(w, e) /\ e.sub = s /\ e.count = k
  <1>1. Live(w)' /\ del'[w].event.sub = s /\ del'[w].event.count = k
    BY DEF OnCycle, CycleOf
  <1>2. ASSUME NEW e \in awaited, ClaimCycle(w, e) PROVE e.sub = s /\ e.count = k
    BY <1>1, <1>2, ClaimPlace
  <1>3. ASSUME Live(w), del'[w].event = del[w].event PROVE OnCycle(w, s, k)
    BY <1>1, <1>3 DEF OnCycle, CycleOf
  <1> QED
    BY <1>1, <1>2, <1>3, LiveMoves

\* A claim puts on the pile what is no lower than its top.
LEMMA ClaimAbove ==
    ASSUME Base, NEW v \in Worker, NEW d \in awaited, ClaimCycle(v, d),
           NEW S \in SUBSET Pile, Top(d.sub) \in S, NEW k \in Nat, \A p \in S : p[1] >= k
    PROVE  /\ d.count \in Cycle /\ d.count >= k /\ S \cup {<<d.count, v>>} \in SUBSET Pile
  <1>1. d.count \in Cycle /\ sub[d.sub].count <= d.count
    BY Claimed
  <1>2. sub[d.sub].count \in Nat /\ sub[d.sub].count >= k
    <2>1. d.sub \in Sub
      BY Claimed
    <2> QED
      BY <2>1 DEF Top, Base, TypeOK, Doc
  <1>3. d.count \in 0..MaxCharges /\ d.count \in Nat
    BY <1>1, Sizes DEF Cycle
  <1> QED
    BY <1>1, <1>2, <1>3 DEF Pile

LEMMA ClaimStaysStep ==
    ASSUME Base, ClaimStays, [Next]_vars
    PROVE  ClaimStays'
  <1>1. SUFFICES ASSUME NEW w \in Worker, NEW s \in Sub, NEW k \in Cycle, OnCycle(w, s, k)'
                 PROVE  \E S \in SUBSET Pile : ClaimPile(w, s, k, S)'
    BY DEF ClaimStays
  <1>2. ASSUME NEW e \in awaited, ClaimCycle(w, e), e.sub = s, e.count = k
        PROVE  \E S \in SUBSET Pile : ClaimPile(w, s, k, S)'
    <2>1. Top(s)' = <<k, w>>
      BY <1>2, Claimed DEF Top
    <2>2. {<<k, w>>} \in SUBSET Pile
      BY Sizes DEF Pile, Cycle
    <2>3. k \in Nat
      BY CycleNat
    <2>4. Kept(s, {<<k, w>>}, {<<k, w>>}, Doc)'
      BY <2>1 DEF Kept, Top
    <2>5. ClaimPile(w, s, k, {<<k, w>>})'
      BY <2>3, <2>4 DEF ClaimPile
    <2> QED
      BY <2>2, <2>5
  <1>3. ASSUME OnCycle(w, s, k) PROVE \E S \in SUBSET Pile : ClaimPile(w, s, k, S)'
    <2>1. PICK S \in SUBSET Pile : ClaimPile(w, s, k, S)
      BY <1>3 DEF ClaimStays
    <2>2. Kept(s, {<<k, w>>}, S, Doc) /\ k \in Nat
          /\ \A p \in S : p[1] >= k /\ (p[2] = w => p[1] = k)
      BY <2>1, CycleNat DEF ClaimPile
    <2>3. ASSUME NEW v \in Worker, Undoes(v), del[v].event.sub = s PROVE Top(s) \notin {<<k, w>>}
      <3>1. v # w
        <4>1. del'[v] = Quiet
          BY <2>3 DEF Undoes, Base, TypeOK
        <4> QED
          BY <1>1, <4>1 DEF OnCycle, Live, Quiet
      <3>2. sub[s].token = v
        BY <2>3, Undone
      <3> QED
        BY <3>1, <3>2 DEF Top
    <2>4. CASE ~ ClaimedNow(s)
      <3>1. Kept(s, {<<k, w>>}, S, Doc)'
        BY <2>2, <2>3, <2>4, KeptStays
      <3>2. ClaimPile(w, s, k, S)'
        BY <2>2, <3>1 DEF ClaimPile
      <3> QED
        BY <3>2
    <2>5. CASE ClaimedNow(s)
      <3>1. PICK v \in Worker, d \in awaited : ClaimCycle(v, d) /\ d.sub = s
        BY <2>5 DEF ClaimedNow
      <3>2. v # w
        BY <1>3, <3>1, ClaimPlace DEF OnCycle, Live
      <3>3. PICK j : j = d.count
        OBVIOUS
      <3>4. j >= k /\ S \cup {<<j, v>>} \in SUBSET Pile
        BY <2>2, <3>1, <3>3, ClaimAbove DEF Kept
      <3>5. sub[s] \in Doc
        BY DocTypes
      <3>6. Kept(s, {<<k, w>>}, S \cup {<<j, v>>}, Doc)'
        BY <2>2, <3>1, <3>3, <3>5, KeptClaim
      <3>7. ClaimPile(w, s, k, S \cup {<<j, v>>})'
        BY <2>2, <3>2, <3>4, <3>6 DEF ClaimPile
      <3> QED
        BY <3>4, <3>7
    <2> QED
      BY <2>4, <2>5
  <1> QED
    BY <1>1, <1>2, <1>3, OnCycleMoves

\* Once a cycle is granted, and its delivery knows, the count never goes below it.
GrantedPile(s, k, S) == Kept(s, {}, S, Doc) /\ \A p \in S : p[1] >= k

GrantedStays ==
    \A s \in Sub, k \in Cycle :
        grants[<<s, k, 0>>] > 0 /\ <<s, k>> \notin doubt =>
            \E S \in SUBSET Pile : GrantedPile(s, k, S)

HistoryGrows ==
    /\ doubt \subseteq doubt' /\ reports \subseteq reports'
    /\ raced \subseteq raced' /\ dropped \subseteq dropped' /\ stranded \subseteq stranded'

LEMMA DoubtGrows ==
    ASSUME [Next]_vars
    PROVE  HistoryGrows
  <1>1. ASSUME World PROVE HistoryGrows
    BY <1>1 DEF World, Subscribe, ExpireLapsed, Charge, Resume, GoesStale, Halt, Finish, Tick,
                history, excused, HistoryGrows
  <1>2. ASSUME NEW e \in awaited,
               \/ ApplyStatus(e)
               \/ \E w \in Worker : ClaimCycle(w, e) \/ LoseClaim(w, e) \/ SaveExpired(w, e)
        PROVE  HistoryGrows
    BY <1>2 DEF ApplyStatus, ClaimCycle, LoseClaim, SaveExpired, history, excused, HistoryGrows
  <1>3. ASSUME NEW w \in Worker,
               LookForOthers(w) \/ Downgrade(w) \/ ZeroInk(w) \/ PendingElsewhere(w) \/ Mark(w)
        PROVE  HistoryGrows
    BY <1>3 DEF LookForOthers, Downgrade, ZeroInk, PendingElsewhere, Mark, history, excused,
                HistoryGrows
  <1>4. ASSUME NEW w \in Worker, Grant(w) \/ Rollback(w) \/ Die(w) PROVE HistoryGrows
    BY <1>4 DEF Grant, Rollback, Die, excused, HistoryGrows
  <1>5. ASSUME NEW w \in Worker, NEW landed \in BOOLEAN,
               GrantThrows(w, landed) \/ UpdateThrows(w, landed)
        PROVE  HistoryGrows
    BY <1>5 DEF GrantThrows, UpdateThrows, HistoryGrows
  <1>6. ASSUME NEW r \in Reader, ReadStep(r) \/ ReadStops(r) PROVE HistoryGrows
    BY <1>6 DEF ReadStep, ReadPlan, ReadEnded, ReadCurrent, TakePlan, TakeDrip, SetDrip,
                ReadStops, history, excused, HistoryGrows
  <1>7. UNCHANGED vars => HistoryGrows
    BY DEF vars, HistoryGrows
  <1> QED
    BY <1>1, <1>2, <1>3, <1>4, <1>5, <1>6, <1>7, StepKinds DEF HandlerStep

\* A first month is granted by its delivery, which knows or is in doubt.
LEMMA FirstLands ==
    ASSUME Base, [Next]_vars, NEW s \in Sub, NEW k \in Cycle, <<s, k>> \notin doubt'
    PROVE  \/ grants'[<<s, k, 0>>] = grants[<<s, k, 0>>]
           \/ /\ grants'[<<s, k, 0>>] = grants[<<s, k, 0>>] + 1
              /\ \E w \in Worker : /\ del[w].pc = "grant" /\ OnCycle(w, s, k)
                                   /\ del'[w].pc = "mark" /\ OnCycle(w, s, k)'
                                   /\ del' = [del EXCEPT ![w].pc = "mark"] /\ sub' = sub
  <1> DEFINE g == <<s, k, 0>>
  <1>1. Lands(g)
    BY GrantsMove, Sizes DEF GrantKey
  <1>2. ASSUME NEW r \in Reader, SetDrip(r) PROVE g # Month(r)
    <2>1. read[r].n > 0
      BY <1>2 DEF SetDrip, Base, ReaderOK
    <2> QED
      BY <2>1 DEF Month
  <1>3. ASSUME NEW w \in Worker, g = FirstMonth(w), del[w].pc = "grant"
        PROVE  CycleOf(w) = <<s, k>> /\ OnCycle(w, s, k)
    BY <1>3 DEF FirstMonth, CycleOf, OnCycle, Live
  <1>4. ASSUME NEW w \in Worker, Grant(w), OnCycle(w, s, k)
        PROVE  /\ del'[w].pc = "mark" /\ OnCycle(w, s, k)'
               /\ del' = [del EXCEPT ![w].pc = "mark"] /\ sub' = sub
    <2>1. del' = [del EXCEPT ![w].pc = "mark"] /\ sub' = sub
      BY <1>4 DEF Grant, Goto
    <2>2. del'[w].pc = "mark" /\ del'[w].event = del[w].event
      BY <2>1 DEF Base, TypeOK
    <2> QED
      BY <1>4, <2>1, <2>2 DEF OnCycle, Live, CycleOf
  <1> HIDE DEF g
  <1>5. ASSUME NEW w \in Worker, del[w].pc = "grant", g = FirstMonth(w),
               Grant(w) \/ CycleOf(w) \in doubt'
        PROVE  /\ del[w].pc = "grant" /\ OnCycle(w, s, k)
               /\ del'[w].pc = "mark" /\ OnCycle(w, s, k)'
               /\ del' = [del EXCEPT ![w].pc = "mark"] /\ sub' = sub
    BY <1>3, <1>4, <1>5
  <1> QED
    BY <1>1, <1>2, <1>5 DEF Lands, g

LEMMA GrantedStaysStep ==
    ASSUME Base, ClaimStays, GrantedStays, [Next]_vars
    PROVE  GrantedStays'
  <1>1. SUFFICES ASSUME NEW s \in Sub, NEW k \in Cycle,
                        grants'[<<s, k, 0>>] > 0, <<s, k>> \notin doubt'
                 PROVE  \E S \in SUBSET Pile : GrantedPile(s, k, S)'
    BY DEF GrantedStays
  <1>2. k \in Nat /\ sub[s] \in Doc
    BY DocTypes, CycleNat
  <1>3. ASSUME NEW w \in Worker, del[w].pc = "grant", OnCycle(w, s, k),
               del' = [del EXCEPT ![w].pc = "mark"], sub' = sub
        PROVE  \E S \in SUBSET Pile : GrantedPile(s, k, S)'
    <2>1. PICK S \in SUBSET Pile : ClaimPile(w, s, k, S)
      BY <1>3 DEF ClaimStays
    <2>2. del'[w].pc = "mark" /\ \A v \in Worker : v # w => del'[v] = del[v]
      BY <1>3 DEF Base, TypeOK
    <2>3. Kept(s, {}, S, Doc)'
      BY <1>3, <2>1, <2>2 DEF ClaimPile, Kept, Top, Undoer, Under
    <2>4. GrantedPile(s, k, S)'
      BY <2>1, <2>3 DEF GrantedPile, ClaimPile
    <2> QED
      BY <2>4
  <1>4. ASSUME grants[<<s, k, 0>>] > 0 PROVE \E S \in SUBSET Pile : GrantedPile(s, k, S)'
    <2>1. PICK S \in SUBSET Pile : GrantedPile(s, k, S)
      BY <1>1, <1>4, DoubtGrows DEF GrantedStays, HistoryGrows
    <2>2. Kept(s, {}, S, Doc) /\ \A p \in S : p[1] >= k
      BY <2>1 DEF GrantedPile
    <2>3. CASE ~ ClaimedNow(s)
      <3>1. Kept(s, {}, S, Doc)'
        BY <2>2, <2>3, KeptStays
      <3>2. GrantedPile(s, k, S)'
        BY <2>2, <3>1 DEF GrantedPile
      <3> QED
        BY <3>2
    <2>4. CASE ClaimedNow(s)
      <3>1. PICK v \in Worker, d \in awaited : ClaimCycle(v, d) /\ d.sub = s
        BY <2>4 DEF ClaimedNow
      <3>2. PICK j : j = d.count
        OBVIOUS
      <3>3. j >= k /\ S \cup {<<j, v>>} \in SUBSET Pile
        BY <1>2, <2>2, <3>1, <3>2, ClaimAbove DEF Kept
      <3>4. Kept(s, {}, S \cup {<<j, v>>}, Doc)'
        BY <1>2, <2>2, <3>1, <3>2, KeptClaim
      <3>5. GrantedPile(s, k, S \cup {<<j, v>>})'
        BY <2>2, <3>3, <3>4 DEF GrantedPile
      <3> QED
        BY <3>3, <3>5
    <2> QED
      BY <2>3, <2>4
  <1> QED
    BY <1>1, <1>3, <1>4, FirstLands

\* A cycle not claimed again is one delivery's, and granted once, by it.
FirstOnce ==
    \A s \in Sub, k \in Cycle :
        <<s, k>> \notin retaken \cup doubt =>
            /\ \A v, w \in Worker : OnCycle(v, s, k) /\ OnCycle(w, s, k) => v = w
            /\ \A w \in Worker : OnCycle(w, s, k) /\ del[w].pc # "mark" => grants[<<s, k, 0>>] = 0
            /\ grants[<<s, k, 0>>] <= 1

\* A cycle some delivery has, or one granted, is claimed only as a stale one.
LEMMA ClaimedAgain ==
    ASSUME Base, ClaimStays, GrantedStays, [Next]_vars,
           NEW v \in Worker, NEW e \in awaited, ClaimCycle(v, e),
           NEW s \in Sub, NEW k \in Cycle, e.sub = s, e.count = k, <<s, k>> \notin retaken' \cup doubt'
    PROVE  grants[<<s, k, 0>>] = 0 /\ \A w \in Worker : ~ OnCycle(w, s, k)
  <1>1. sub[s].count < k
    <2>1. /\ sub[e.sub].count <= e.count
          /\ sub[e.sub].count = e.count => <<e.sub, e.count>> \in retaken'
      BY Claimed
    <2>2. sub[s].count \in Nat /\ k \in Nat
      BY DocTypes, CycleNat DEF Doc
    <2> QED
      BY <2>1, <2>2
  <1>2. sub[s].count \in Nat /\ k \in Nat
    BY DocTypes, CycleNat DEF Doc
  <1>3. ASSUME NEW w \in Worker, OnCycle(w, s, k) PROVE FALSE
    <2>1. PICK S \in SUBSET Pile : ClaimPile(w, s, k, S)
      BY <1>3 DEF ClaimStays
    <2>2. sub[s].count >= k
      BY <2>1 DEF ClaimPile, Kept, Top
    <2> QED
      BY <1>1, <1>2, <2>2
  <1>4. ASSUME grants[<<s, k, 0>>] > 0 PROVE FALSE
    <2>1. PICK S \in SUBSET Pile : GrantedPile(s, k, S)
      BY <1>4, DoubtGrows DEF GrantedStays, HistoryGrows
    <2>2. sub[s].count >= k
      BY <2>1 DEF GrantedPile, Kept, Top
    <2> QED
      BY <1>1, <1>2, <2>2
  <1>5. grants[<<s, k, 0>>] \in Nat
    BY Sizes DEF Base, TypeOK, GrantKey
  <1> QED
    BY <1>3, <1>4, <1>5

LEMMA FirstOnceStep ==
    ASSUME Base, ClaimStays, GrantedStays, FirstOnce, [Next]_vars
    PROVE  FirstOnce'
  <1>1. SUFFICES ASSUME NEW s \in Sub, NEW k \in Cycle, <<s, k>> \notin retaken' \cup doubt'
                 PROVE  /\ \A v, w \in Worker : OnCycle(v, s, k)' /\ OnCycle(w, s, k)' => v = w
                        /\ \A w \in Worker : OnCycle(w, s, k)' /\ del'[w].pc # "mark"
                                                => grants'[<<s, k, 0>>] = 0
                        /\ grants'[<<s, k, 0>>] <= 1
    BY DEF FirstOnce
  <1> DEFINE g == <<s, k, 0>>
  <1>2. /\ \A v, w \in Worker : OnCycle(v, s, k) /\ OnCycle(w, s, k) => v = w
        /\ \A w \in Worker : OnCycle(w, s, k) /\ del[w].pc # "mark" => grants[g] = 0
        /\ grants[g] <= 1
    BY <1>1, DoubtGrows, RetakenGrows DEF FirstOnce, HistoryGrows
  <1>3. grants[g] \in Nat
    BY Sizes DEF Base, TypeOK, GrantKey
  <1>4. ASSUME NEW v \in Worker, NEW w \in Worker, OnCycle(v, s, k)', OnCycle(w, s, k)'
        PROVE  v = w
    <2>1. ASSUME NEW e \in awaited, NEW x \in Worker, NEW y \in Worker, ClaimCycle(x, e),
                 e.sub = s, e.count = k, OnCycle(y, s, k)
          PROVE  FALSE
      BY <1>1, <2>1, ClaimedAgain
    <2>2. CASE OnCycle(v, s, k) /\ OnCycle(w, s, k)
      BY <1>2, <2>2
    <2>3. CASE ~ OnCycle(v, s, k) /\ ~ OnCycle(w, s, k)
      BY <1>4, <2>3, OnCycleMoves, OneClaim
    <2>4. CASE OnCycle(v, s, k) /\ ~ OnCycle(w, s, k)
      BY <1>4, <2>1, <2>4, OnCycleMoves
    <2>5. CASE ~ OnCycle(v, s, k) /\ OnCycle(w, s, k)
      BY <1>4, <2>1, <2>5, OnCycleMoves
    <2> QED
      BY <2>2, <2>3, <2>4, <2>5
  <1>5. ASSUME NEW w \in Worker, OnCycle(w, s, k)', del'[w].pc # "mark" PROVE grants'[g] = 0
    <2>1. CASE \E e \in awaited : ClaimCycle(w, e) /\ e.sub = s /\ e.count = k
      <3>1. PICK e \in awaited : ClaimCycle(w, e) /\ e.sub = s /\ e.count = k
        BY <2>1
      <3>2. grants[g] = 0
        BY <1>1, <3>1, ClaimedAgain
      <3>3. grants' = grants
        BY <3>1 DEF ClaimCycle
      <3> QED
        BY <3>2, <3>3
    <2>2. CASE OnCycle(w, s, k)
      <3>1. del[w].pc # "mark"
        BY <1>5, <2>2, LiveMoves, ClaimPlace DEF OnCycle, Live
      <3>2. grants[g] = 0
        BY <1>2, <2>2, <3>1
      <3>3. grants'[g] = grants[g]
        <4>1. ASSUME NEW u \in Worker, OnCycle(u, s, k), del'[u].pc = "mark" PROVE FALSE
          BY <1>2, <1>5, <2>2, <4>1
        <4> QED
          BY <1>1, <4>1, FirstLands
      <3> QED
        BY <3>2, <3>3
    <2> QED
      BY <1>5, <2>1, <2>2, OnCycleMoves
  <1>6. grants'[g] <= 1
    <2>1. ASSUME NEW u \in Worker, OnCycle(u, s, k), del[u].pc = "grant" PROVE grants[g] = 0
      BY <1>2, <2>1
    <2>2. grants'[g] = grants[g] \/ (grants'[g] = grants[g] + 1 /\ grants[g] = 0)
      BY <1>1, <2>1, FirstLands
    <2> QED
      BY <1>2, <1>3, <2>2
  <1> QED
    BY <1>4, <1>5, <1>6

-----------------------------------------------------------------------------
(* A cycle granted twice is reported. *)

\* A count this high, or this claim marked, is not claimed for the cycle again.
GoodMark(k) == {d \in Doc : d.count > k \/ (d.count = k /\ d.claim = "granted")}

Marking(s, k) == {w \in Worker : del[w].pc = "mark" /\ CycleOf(w) = <<s, k>>}

SettledPile(s, k, S) ==
    /\ Kept(s, {}, S, GoodMark(k))
    /\ \A w \in Worker : OnCycle(w, s, k) => \A p \in S : p[2] # w

\* Marked for good, and by none of the deliveries that still have the cycle.
Settled(s, k) == sub[s] \in GoodMark(k) /\ \E S \in SUBSET Pile : SettledPile(s, k, S)

DoubleOK ==
    \A s \in Sub, k \in Cycle :
        <<s, k>> \notin reports \cup doubt =>
            /\ grants[<<s, k, 0>>] > 0 => Marking(s, k) # {} \/ Settled(s, k)
            /\ grants[<<s, k, 0>>] > 1 =>
                 \/ \E v, w \in Marking(s, k) : v # w
                 \/ Marking(s, k) # {} /\ Settled(s, k)

LEMMA SettledStays ==
    ASSUME Base, [Next]_vars, NEW s \in Sub, NEW k \in Cycle, Settled(s, k)
    PROVE  Settled(s, k)'
  <1>1. PICK S \in SUBSET Pile : SettledPile(s, k, S)
    BY DEF Settled
  <1>2. Kept(s, {}, S, GoodMark(k)) /\ \A w \in Worker : OnCycle(w, s, k) => \A p \in S : p[2] # w
    BY <1>1 DEF SettledPile
  <1>3. sub[s] \in GoodMark(k) /\ sub'[s] \in Doc /\ sub[s] \in Doc /\ k \in Nat
    BY DocTypes, CycleNat DEF Settled
  <1>4. sub[s].count \in Nat /\ (sub[s].count > k \/ (sub[s].count = k /\ sub[s].claim = "granted"))
    BY <1>3 DEF GoodMark, Doc
  <1>5. ASSUME NEW v \in Worker, NEW d \in awaited, ClaimCycle(v, d), d.sub = s
        PROVE  d.count > k /\ d.count \in Nat
    <2>1. /\ sub[d.sub].count <= d.count /\ d.count \in Cycle
          /\ sub[d.sub].count = d.count => sub[d.sub].claim = "stale"
      BY <1>5, Claimed
    <2>2. d.count \in Nat
      BY <2>1, CycleNat
    <2>3. sub[s].count <= d.count /\ (sub[s].count = d.count => sub[s].claim # "granted")
      BY <1>5, <2>1
    <2> QED
      BY <1>3, <1>4, <2>2, <2>3
  <1>6. sub'[s] \in GoodMark(k)
    <2>1. CASE DocKept(s)
      BY <1>3, <1>4, <2>1 DEF DocKept, GoodMark
    <2>2. ASSUME NEW v \in Worker, NEW d \in awaited, ClaimCycle(v, d), d.sub = s
          PROVE  sub'[s] \in GoodMark(k)
      <3>1. sub'[s].count = d.count
        BY <2>2, Claimed
      <3> QED
        BY <1>3, <1>5, <2>2, <3>1 DEF GoodMark
    <2>3. ASSUME NEW v \in Worker, Undoes(v), del[v].event.sub = s PROVE sub'[s] \in GoodMark(k)
      <3>1. /\ sub[s].count = del[v].event.count /\ sub[s].token = v
            /\ sub'[s].count = del[v].before.count /\ sub'[s].claim = del[v].before.claim
        BY <2>3, Undone
      <3>2. Undoer(v, s) /\ <<del[v].event.count, v>> = Top(s)
        BY <2>3, <3>1 DEF Undoer, Undoes, Top
      <3>3. del[v].before \in GoodMark(k)
        BY <1>2, <3>2 DEF Kept
      <3> QED
        BY <1>3, <3>1, <3>3 DEF GoodMark
    <2>4. ASSUME NEW r \in Reader, TakeDrip(r), DripFree(r), read[r].sub = s
          PROVE  sub'[s] \in GoodMark(k)
      <3>1. sub'[s].count = sub[s].count /\ sub'[s].claim = sub[s].claim
        BY <2>4, Taken
      <3> QED
        BY <1>3, <1>4, <3>1 DEF GoodMark
    <2> QED
      BY <2>1, <2>2, <2>3, <2>4, DocMoves
  <1>7. ASSUME NEW w \in Worker, OnCycle(w, s, k)' PROVE OnCycle(w, s, k)
    <2>1. ASSUME NEW e \in awaited, ClaimCycle(w, e), e.sub = s, e.count = k PROVE FALSE
      BY <1>3, <1>5, <2>1
    <2> QED
      BY <1>7, <2>1, OnCycleMoves
  <1>8. CASE ~ ClaimedNow(s)
    <2>1. Kept(s, {}, S, GoodMark(k))'
      BY <1>2, <1>8, KeptStays
    <2>2. SettledPile(s, k, S)'
      BY <1>2, <1>7, <2>1 DEF SettledPile
    <2> QED
      BY <1>6, <2>2 DEF Settled
  <1>9. CASE ClaimedNow(s)
    <2>1. PICK v \in Worker, d \in awaited : ClaimCycle(v, d) /\ d.sub = s
      BY <1>9 DEF ClaimedNow
    <2>2. PICK j : j = d.count
      OBVIOUS
    <2>3. Kept(s, {}, S \cup {<<j, v>>}, GoodMark(k))'
      BY <1>2, <1>3, <2>1, <2>2, KeptClaim
    <2>4. ASSUME NEW w \in Worker, OnCycle(w, s, k) PROVE w # v
      BY <2>1, <2>4, ClaimPlace DEF OnCycle, Live
    <2>5. SettledPile(s, k, S \cup {<<j, v>>})'
      BY <1>2, <1>7, <2>3, <2>4 DEF SettledPile
    <2>6. S \cup {<<j, v>>} \in SUBSET Pile
      <3>1. j \in Cycle
        BY <2>1, <2>2, Claimed
      <3> QED
        BY <3>1, Sizes DEF Pile, Cycle
    <2> QED
      BY <1>6, <2>5, <2>6 DEF Settled
  <1> QED
    BY <1>8, <1>9

\* A mark that was not reported settles the cycle.
LEMMA MarkSettles ==
    ASSUME Base, ClaimStays, [Next]_vars, NEW w \in Worker, NEW s \in Sub, NEW k \in Cycle,
           w \in Marking(s, k), Ends(w), <<s, k>> \notin reports' \cup doubt'
    PROVE  Settled(s, k)' /\ Owns(w)
  <1>1. del[w].pc = "mark" /\ CycleOf(w) = <<s, k>> /\ del[w].event.sub = s /\ OnCycle(w, s, k)
    BY DEF Marking, OnCycle, Live, CycleOf
  <1>2. Owns(w) /\ sub'[s].claim = "granted" /\ DocKept(s)
    BY <1>1 DEF Ends, DocsKept
  <1>3. PICK S \in SUBSET Pile : ClaimPile(w, s, k, S)
    BY <1>1 DEF ClaimStays
  <1>4. Top(s) = <<k, w>> /\ sub[s].count = k
    <2>1. sub[s].token = w /\ Top(s) \in S
      BY <1>1, <1>2, <1>3 DEF Owns, ClaimPile, Kept
    <2> QED
      BY <1>3, <2>1 DEF ClaimPile, Top
  <1>5. Top(s)' = <<k, w>> /\ sub'[s].count = k
    BY <1>2, <1>4 DEF DocKept, Top
  <1>6. sub'[s] \in GoodMark(k)
    BY <1>2, <1>5, DocTypes DEF GoodMark
  <1>7. ~ Live(w)' /\ ~ Undoer(w, s)'
    <2>1. del'[w] = Quiet
      BY DEF Ends, Base, TypeOK
    <2> QED
      BY <2>1 DEF Live, Undoer, Quiet
  <1>8. Kept(s, {}, {<<k, w>>}, GoodMark(k))'
    BY <1>5, <1>7 DEF Kept, Top, Undoer
  <1>9. SettledPile(s, k, {<<k, w>>})'
    BY <1>7, <1>8 DEF SettledPile, OnCycle
  <1>10. {<<k, w>>} \in SUBSET Pile
    BY Sizes DEF Pile, Cycle
  <1> QED
    BY <1>2, <1>6, <1>9, <1>10 DEF Settled

LEMMA MarkingMoves ==
    ASSUME Base, [Next]_vars, NEW s, NEW k, NEW w \in Marking(s, k), w \notin Marking(s, k)'
    PROVE  /\ Ends(w)
           /\ \A v \in Marking(s, k) : v # w => v \in Marking(s, k)'
           /\ grants' = grants
  <1>1. w \in Worker /\ del[w].pc = "mark" /\ Live(w) /\ CycleOf(w) = <<s, k>>
    BY DEF Marking, Live
  <1>2. del'[w] # del[w]
    BY <1>1 DEF Marking, CycleOf
  <1>3. Ends(w)
    BY <1>1, <1>2, Leaves DEF Undoes, Grant, GrantThrows
  <1>4. \A v \in Worker : v # w => del'[v] = del[v]
    BY <1>3 DEF Ends, Base, TypeOK
  <1>5. \A v \in Marking(s, k) : v # w => v \in Marking(s, k)'
    BY <1>4 DEF Marking, CycleOf
  <1> QED
    BY <1>3, <1>5 DEF Ends

LEMMA DoubleStep ==
    ASSUME Base, ClaimStays, DoubleOK, [Next]_vars
    PROVE  DoubleOK'
  <1>1. SUFFICES ASSUME NEW s \in Sub, NEW k \in Cycle, <<s, k>> \notin reports' \cup doubt'
                 PROVE  /\ grants'[<<s, k, 0>>] > 0 => Marking(s, k)' # {} \/ Settled(s, k)'
                        /\ grants'[<<s, k, 0>>] > 1 =>
                             \/ \E v, w \in Marking(s, k)' : v # w
                             \/ Marking(s, k)' # {} /\ Settled(s, k)'
    BY DEF DoubleOK
  <1> DEFINE g == <<s, k, 0>>
  <1>2. /\ grants[g] > 0 => Marking(s, k) # {} \/ Settled(s, k)
        /\ grants[g] > 1 => \/ \E v, w \in Marking(s, k) : v # w
                            \/ Marking(s, k) # {} /\ Settled(s, k)
    BY <1>1, DoubtGrows DEF DoubleOK, HistoryGrows
  <1>3. grants[g] \in Nat
    BY Sizes DEF Base, TypeOK, GrantKey
  <1>4. Settled(s, k) => Settled(s, k)'
    BY SettledStays
  <1>5. ASSUME NEW w \in Worker, w \in Marking(s, k), w \notin Marking(s, k)'
        PROVE  /\ Settled(s, k)' /\ Owns(w) /\ grants'[g] = grants[g]
               /\ \A v \in Marking(s, k) : v # w => v \in Marking(s, k)'
    BY <1>1, <1>5, MarkingMoves, MarkSettles
  <1>6. ASSUME NEW w \in Worker, w \in Marking(s, k), Settled(s, k) PROVE ~ Owns(w)
    <2>1. PICK S \in SUBSET Pile : SettledPile(s, k, S)
      BY <1>6 DEF Settled
    <2>2. OnCycle(w, s, k) /\ del[w].event.sub = s
      BY <1>6 DEF Marking, OnCycle, Live, CycleOf
    <2>3. Top(s) \in S /\ \A p \in S : p[2] # w
      BY <2>1, <2>2 DEF SettledPile, Kept
    <2> QED
      BY <2>2, <2>3 DEF Top, Owns
  <1>7. Marking(s, k) \subseteq Worker
    BY DEF Marking
  <1>8. CASE grants'[g] = grants[g]
    <2>1. ASSUME grants[g] > 0 PROVE Marking(s, k)' # {} \/ Settled(s, k)'
      BY <1>2, <1>4, <1>5, <1>7, <2>1
    <2>2. ASSUME grants[g] > 1
          PROVE  \/ \E v, w \in Marking(s, k)' : v # w
                 \/ Marking(s, k)' # {} /\ Settled(s, k)'
      <3>1. CASE \E v, w \in Marking(s, k) : v # w
        BY <1>5, <1>7, <3>1
      <3>2. CASE Marking(s, k) # {} /\ Settled(s, k)
        BY <1>4, <1>5, <1>6, <1>7, <3>2
      <3> QED
        BY <1>2, <2>2, <3>1, <3>2
    <2> QED
      BY <1>8, <2>1, <2>2
  <1>9. CASE \E w \in Worker : /\ del[w].pc = "grant" /\ OnCycle(w, s, k)
                               /\ del'[w].pc = "mark" /\ OnCycle(w, s, k)'
             /\ grants'[g] = grants[g] + 1
    <2>1. PICK w \in Worker : /\ del[w].pc = "grant" /\ del'[w].pc = "mark"
                              /\ OnCycle(w, s, k)'
      BY <1>9
    <2>2. w \in Marking(s, k)' /\ w \notin Marking(s, k)
      BY <2>1 DEF Marking, OnCycle
    <2>3. ASSUME grants[g] > 0
          PROVE  \/ \E u, v \in Marking(s, k)' : u # v
                 \/ Marking(s, k)' # {} /\ Settled(s, k)'
      <3>1. CASE Settled(s, k)
        BY <1>4, <2>2, <3>1
      <3>2. CASE Marking(s, k) # {}
        BY <1>5, <1>7, <2>2, <3>2
      <3> QED
        BY <1>2, <2>3, <3>1, <3>2
    <2>4. grants'[g] > 1 => grants[g] > 0
      BY <1>3, <1>9
    <2> QED
      BY <2>2, <2>3, <2>4
  <1> QED
    BY <1>1, <1>8, <1>9, FirstLands

Firsts == Base /\ ClaimStays /\ GrantedStays /\ FirstOnce /\ DoubleOK

LEMMA FirstsInit == Init => Firsts
  <1> SUFFICES ASSUME Init PROVE Firsts
    OBVIOUS
  <1>1. \A w \in Worker : ~ Live(w)
    BY DEF Init, Quiet, Live
  <1>2. \A s \in Sub, k \in Cycle : grants[<<s, k, 0>>] = 0
    BY Sizes DEF Init, GrantKey
  <1>3. ClaimStays
    BY <1>1 DEF ClaimStays, OnCycle
  <1>4. GrantedStays
    BY <1>2 DEF GrantedStays
  <1>5. FirstOnce
    BY <1>1, <1>2 DEF FirstOnce, OnCycle
  <1>6. DoubleOK
    BY <1>2 DEF DoubleOK
  <1> QED
    BY <1>3, <1>4, <1>5, <1>6, BaseInit DEF Firsts

LEMMA FirstsStep == Firsts /\ [Next]_vars => Firsts'
  BY BaseStep, ClaimStaysStep, GrantedStaysStep, FirstOnceStep, DoubleStep DEF Firsts

LEMMA DoubleFollows == Firsts => DoubleReported
  <1> SUFFICES ASSUME Firsts, NEW s \in Sub, NEW k \in Cycle, grants[<<s, k, 0>>] > 1,
                      <<s, k>> \notin reports \cup doubt
               PROVE  \E w \in Worker : /\ del[w].pc = "mark" /\ CycleOf(w) = <<s, k>>
                                        /\ ~ Owns(w)
    BY DEF DoubleReported
  <1>1. \A w \in Marking(s, k) : /\ w \in Worker /\ del[w].pc = "mark" /\ CycleOf(w) = <<s, k>>
                                 /\ del[w].event.sub = s /\ OnCycle(w, s, k)
    BY DEF Marking, CycleOf, OnCycle, Live
  <1>2. CASE \E v, w \in Marking(s, k) : v # w
    BY <1>1, <1>2 DEF Owns
  <1>3. CASE Marking(s, k) # {} /\ Settled(s, k)
    <2>1. PICK w : w \in Marking(s, k)
      BY <1>3
    <2>2. PICK S \in SUBSET Pile : SettledPile(s, k, S)
      BY <1>3 DEF Settled
    <2>3. Top(s) \in S /\ \A p \in S : p[2] # w
      BY <1>1, <2>1, <2>2 DEF SettledPile, Kept
    <2> QED
      BY <1>1, <2>1, <2>3 DEF Top, Owns
  <1> QED
    BY <1>2, <1>3 DEF Firsts, DoubleOK

THEOREM AlwaysFirsts == Spec => []Firsts
  BY FirstsInit, FirstsStep, PTL DEF Spec

-----------------------------------------------------------------------------
(* When cycles start and end. *)

LEMMA TimesGrow == \A a, b, c \in Nat : a <= b => a * c <= b * c
  <1> SUFFICES ASSUME NEW a \in Nat, NEW b \in Nat, NEW c \in Nat, a <= b PROVE a * c <= b * c
    OBVIOUS
  <1>1. PICK d \in Nat : b = a + d
    <2>1. b - a \in Nat /\ b = a + (b - a)
      OBVIOUS
    <2> QED
      BY <2>1
  <1>2. b * c = a * c + d * c
    BY <1>1
  <1>3. d * c \in Nat /\ a * c \in Nat
    OBVIOUS
  <1> QED
    BY <1>2, <1>3

LEMMA PeriodPositive == \A s : Period(s) \in Nat /\ Period(s) > 0
  BY Sizes DEF Period

\* A cycle ends where the next one starts.
LEMMA CycleTimes ==
    ASSUME TypeOK, NEW s \in Sub
    PROVE  /\ \A k \in Nat : k > 0 => CycleStart(s, k) \in Nat /\ CycleStart(s, k) < CycleEnd(s, k)
           /\ \A k \in Nat : CycleEnd(s, k) \in Nat /\ rz[s].start <= CycleEnd(s, k)
           /\ \A k \in Nat : CycleStart(s, k + 1) = CycleEnd(s, k)
           /\ \A j, k \in Nat : j <= k => CycleEnd(s, j) <= CycleEnd(s, k)
           /\ \A j, k \in Nat : j < k => CycleEnd(s, j) <= CycleStart(s, k)
  <1>0. rz[s].start \in Nat /\ Period(s) \in Nat /\ Period(s) > 0
    BY PeriodPositive DEF TypeOK
  <1>1. \A j, k \in Nat : j <= k => j * Period(s) <= k * Period(s)
    BY <1>0, TimesGrow
  <1>2. \A k \in Nat : k * Period(s) \in Nat
    BY <1>0
  <1>3. \A k \in Nat : (k + 1) - 1 = k
    OBVIOUS
  <1>4. \A k \in Nat : CycleStart(s, k + 1) = CycleEnd(s, k)
    BY <1>3 DEF CycleStart, CycleEnd
  <1>5. \A j, k \in Nat : j <= k => CycleEnd(s, j) <= CycleEnd(s, k)
    BY <1>0, <1>1, <1>2 DEF CycleEnd
  <1>6. \A k \in Nat : CycleEnd(s, k) \in Nat /\ rz[s].start <= CycleEnd(s, k)
    BY <1>0, <1>2 DEF CycleEnd
  <1>7. ASSUME NEW j \in Nat, NEW k \in Nat, j < k PROVE CycleEnd(s, j) <= CycleStart(s, k)
    <2>1. k - 1 \in Nat /\ j <= k - 1 /\ k = (k - 1) + 1
      BY <1>7
    <2> QED
      BY <2>1, <1>4, <1>5
  <1>8. ASSUME NEW k \in Nat, k > 0
        PROVE  CycleStart(s, k) \in Nat /\ CycleStart(s, k) < CycleEnd(s, k)
    <2>1. k - 1 \in Nat /\ k = (k - 1) + 1
      BY <1>8
    <2>2. k * Period(s) = (k - 1) * Period(s) + Period(s)
      BY <2>1, <1>0
    <2>3. (k - 1) * Period(s) \in Nat
      BY <2>1, <1>2
    <2> HIDE DEF Period
    <2> QED
      BY <1>0, <2>2, <2>3 DEF CycleStart, CycleEnd
  <1> QED
    BY <1>4, <1>5, <1>6, <1>7, <1>8

\* The first charge fixes the cycles.
LEMMA CyclesFixed ==
    ASSUME Base, [Next]_vars, NEW s \in Sub, rz[s].charges > 0
    PROVE  \A k : CycleStart(s, k)' = CycleStart(s, k) /\ CycleEnd(s, k)' = CycleEnd(s, k)
  <1>1. rz'[s].start = rz[s].start
    BY Contracts DEF ContractsGrow
  <1> QED
    BY <1>1 DEF CycleStart, CycleEnd, Period

\* What is written is paid for, and paid by what was charged.
PaidEnd ==
    \A s \in Sub :
        /\ sub[s].count > 0 => sub[s].paidThrough >= CycleEnd(s, sub[s].count)
        /\ sub[s].paidThrough > 0 =>
              /\ rz[s].charges > 0 /\ sub[s].paidThrough <= CycleEnd(s, rz[s].charges)
              /\ sub[s].status \in {"active"} \cup Ended

LEMMA PaidStep ==
    ASSUME Base, PaidEnd, [Next]_vars
    PROVE  PaidEnd'
  <1>1. SUFFICES ASSUME NEW s \in Sub
                 PROVE  /\ sub'[s].count > 0 => sub'[s].paidThrough >= CycleEnd(s, sub[s].count)'
                        /\ sub'[s].paidThrough > 0 =>
                              /\ rz'[s].charges > 0
                              /\ sub'[s].paidThrough <= CycleEnd(s, rz[s].charges)'
                              /\ sub'[s].status \in {"active"} \cup Ended
    BY DEF PaidEnd
  <1>2. TypeOK /\ sub[s] \in Doc /\ sub'[s] \in Doc /\ rz[s] \in Contract /\ rz'[s] \in Contract
        /\ sub[s].count <= rz[s].charges
    BY TypeStep DEF Base, TypeOK, Contract, ChargesOK
  <1>3. /\ sub[s].count \in Nat /\ sub'[s].count \in Nat /\ rz[s].charges \in Nat
        /\ rz'[s].charges \in Nat /\ sub[s].paidThrough \in Nat /\ sub'[s].paidThrough \in Nat
    BY <1>2 DEF Doc, Contract
  <1>4. rz[s].charges <= rz'[s].charges
    BY <1>3, Contracts DEF ContractsGrow
  <1>5. /\ sub[s].count > 0 => sub[s].paidThrough >= CycleEnd(s, sub[s].count)
        /\ sub[s].paidThrough > 0 =>
              /\ rz[s].charges > 0 /\ sub[s].paidThrough <= CycleEnd(s, rz[s].charges)
              /\ sub[s].status \in {"active"} \cup Ended
    BY DEF PaidEnd
  <1>6. ASSUME rz[s].charges > 0
        PROVE  /\ \A k \in Nat : CycleEnd(s, k)' = CycleEnd(s, k) /\ CycleEnd(s, k) \in Nat
               /\ \A j, k \in Nat : j <= k => CycleEnd(s, j) <= CycleEnd(s, k)
    BY <1>2, <1>6, CyclesFixed, CycleTimes
  <1>7. ASSUME sub'[s].count <= sub[s].count, sub'[s].paidThrough = sub[s].paidThrough
        PROVE  /\ sub'[s].count > 0 => sub'[s].paidThrough >= CycleEnd(s, sub[s].count)'
               /\ sub'[s].paidThrough > 0 =>
                     /\ rz'[s].charges > 0
                     /\ sub'[s].paidThrough <= CycleEnd(s, rz[s].charges)'
                     /\ sub'[s].status \in {"active"} \cup Ended
    <2>1. ASSUME sub'[s].count > 0
          PROVE  sub'[s].paidThrough >= CycleEnd(s, sub[s].count)'
      <3>1. rz[s].charges > 0 /\ sub[s].count > 0
        BY <1>2, <1>3, <1>7, <2>1
      <3>2. PICK j \in Nat : j = sub[s].count
        BY <1>3
      <3>3. PICK k \in Nat : k = sub'[s].count
        BY <1>3
      <3>4. k <= j /\ CycleEnd(s, k)' = CycleEnd(s, k) /\ CycleEnd(s, k) <= CycleEnd(s, j)
            /\ CycleEnd(s, k) \in Nat /\ CycleEnd(s, j) \in Nat
        BY <1>6, <1>7, <3>1, <3>2, <3>3
      <3>5. CycleEnd(s, sub[s].count)' = CycleEnd(s, k)'
        BY <3>3 DEF CycleEnd
      <3> QED
        BY <1>3, <1>5, <1>7, <3>1, <3>2, <3>4, <3>5
    <2>2. ASSUME sub'[s].paidThrough > 0
          PROVE  /\ rz'[s].charges > 0
                 /\ sub'[s].paidThrough <= CycleEnd(s, rz[s].charges)'
                 /\ sub'[s].status \in {"active"} \cup Ended
      <3>1. rz[s].charges > 0 /\ sub[s].status \in {"active"} \cup Ended
        BY <1>5, <1>7, <2>2
      <3>2. PICK j \in Nat : j = rz[s].charges
        BY <1>3
      <3>3. PICK k \in Nat : k = rz'[s].charges
        BY <1>3
      <3>4. CycleEnd(s, k)' = CycleEnd(s, k) /\ CycleEnd(s, j) <= CycleEnd(s, k)
            /\ CycleEnd(s, k) \in Nat /\ CycleEnd(s, j) \in Nat
        BY <1>4, <1>6, <3>1, <3>2, <3>3
      <3>5. CycleEnd(s, rz[s].charges)' = CycleEnd(s, k)'
        BY <3>3 DEF CycleEnd
      <3>6. sub'[s].status \in {"active"} \cup Ended
        BY <3>1, StatusStep DEF StatusMoves
      <3> QED
        BY <1>3, <1>4, <1>5, <1>7, <2>2, <3>1, <3>2, <3>4, <3>5, <3>6
    <2> QED
      BY <2>1, <2>2
  <1>8. ASSUME NEW w \in Worker, NEW e \in awaited, ClaimCycle(w, e), e.sub = s
        PROVE  /\ sub'[s].count > 0 => sub'[s].paidThrough >= CycleEnd(s, sub[s].count)'
               /\ sub'[s].paidThrough > 0 =>
                     /\ rz'[s].charges > 0
                     /\ sub'[s].paidThrough <= CycleEnd(s, rz[s].charges)'
                     /\ sub'[s].status \in {"active"} \cup Ended
    <2>1. e.count \in Cycle /\ sub'[s] = Charged(w, s, e.count)
      BY <1>8, Claimed
    <2>2. e.count \in Nat /\ e.count > 0 /\ e.count <= rz[s].charges
      BY <1>8, <2>1, CycleNat DEF Base, EventsOK
    <2>3. /\ sub'[s].count = e.count /\ sub'[s].paidThrough = CycleEnd(s, e.count)
          /\ sub'[s].status = Revived(sub[s].status)
      BY <2>1 DEF Charged
    <2>4. rz' = rz
      BY <1>8 DEF ClaimCycle, razorpay
    <2>5. \A k : CycleEnd(s, k)' = CycleEnd(s, k)
      BY <2>4 DEF CycleEnd, Period
    <2>6. CycleEnd(s, e.count) \in Nat /\ CycleEnd(s, e.count) <= CycleEnd(s, rz[s].charges)
      BY <1>3, <1>6, <2>2
    <2>7. CycleEnd(s, sub[s].count)' = CycleEnd(s, e.count)
          /\ CycleEnd(s, rz[s].charges)' = CycleEnd(s, rz[s].charges)
      BY <2>3, <2>4 DEF CycleEnd, Period
    <2>8. Revived(sub[s].status) \in {"active"} \cup Ended
      BY DEF Revived, Terminal, Ended, PaidThroughStatus
    <2> QED
      BY <1>3, <2>2, <2>3, <2>4, <2>6, <2>7, <2>8
  <1>9. ASSUME NEW w \in Worker, Undoes(w), del[w].event.sub = s
        PROVE  sub'[s].count <= sub[s].count /\ sub'[s].paidThrough = sub[s].paidThrough
    BY <1>9, Undone
  <1>10. ASSUME NEW r \in Reader, TakeDrip(r), DripFree(r), read[r].sub = s
         PROVE  sub'[s].count = sub[s].count /\ sub'[s].paidThrough = sub[s].paidThrough
    BY <1>10, Taken
  <1>11. DocKept(s) => sub'[s].count = sub[s].count /\ sub'[s].paidThrough = sub[s].paidThrough
    BY DEF DocKept
  <1>12. sub'[s].count = sub[s].count => sub'[s].count <= sub[s].count
    BY <1>3
  <1>13. CASE \E w \in Worker, e \in awaited : ClaimCycle(w, e) /\ e.sub = s
    BY <1>8, <1>13
  <1>14. CASE ~ \E w \in Worker, e \in awaited : ClaimCycle(w, e) /\ e.sub = s
    <2>1. sub'[s].count <= sub[s].count /\ sub'[s].paidThrough = sub[s].paidThrough
      BY <1>9, <1>10, <1>11, <1>12, <1>14, DocMoves
    <2> QED
      BY <1>7, <2>1
  <1> QED
    BY <1>13, <1>14

-----------------------------------------------------------------------------
(* The drips of a yearly subscription none of whose late claims was undone. *)

Clean(s) == \A k \in Cycle : <<s, k>> \notin undone

\* The drip fields are those of the cycle the document counts.
OfCycle(d, s) ==
    d.count > 0 => d.anchor = CycleStart(s, d.count) /\ d.nextAt = d.anchor + d.drips + 1

DocsOK ==
    \A s \in Yearly : Clean(s) =>
        /\ OfCycle(sub[s], s)
        /\ \A w \in Worker : Live(w) /\ del[w].event.sub = s => OfCycle(del[w].before, s)

\* Paid past the start of a cycle it does not count and still waits for, a document
\* went back over that cycle, and it has not started.
BackInTime ==
    \A s \in Yearly, k \in Cycle :
        Clean(s) /\ Waiting(s, k) /\ sub[s].count < k /\ sub[s].paidThrough > CycleStart(s, k)
            => now <= CycleStart(s, k)

\* A cycle the document counts, or may yet count.
Ahead(s, k) ==
    \/ Waiting(s, k) \/ k > rz[s].charges \/ sub[s].count = k
    \/ \E w \in Worker : /\ Live(w) /\ del[w].event.sub = s
                         /\ k \in {del[w].event.count, del[w].before.count}

\* A read that drips is in its cycle: it has begun, and no later one has that the
\* document may count.
ReadInCycle(r, s, c) ==
    /\ now > CycleStart(s, c) /\ sub[s].count >= c
    /\ read[r].anchor = CycleStart(s, c)
    /\ read[r].nextAt = read[r].anchor + read[r].n + 1
    /\ read[r].pc = "take" => read[r].nextAt <= now
    /\ \A k \in Cycle : k > c /\ Ahead(s, k) => CycleStart(s, k) >= now

ReadsOK ==
    \A r \in Reader, s \in Yearly, c \in Cycle :
        read[r].pc \in {"take", "set"} /\ read[r].sub = s /\ read[r].cycle = c /\ Clean(s)
            => ReadInCycle(r, s, c)

LEMMA DocNats ==
    ASSUME NEW d \in Doc
    PROVE  /\ d.count \in Nat /\ d.paidThrough \in Nat /\ d.anchor \in Nat /\ d.nextAt \in Nat
           /\ d.drips \in Nat /\ d.count <= MaxCharges
  <1>1. d.drips \in 0..YEARLY_DRIP_MAX /\ d.count \in 0..MaxCharges
    BY DEF Doc
  <1>2. YEARLY_DRIP_MAX \in Nat /\ MaxCharges \in Nat
    BY Sizes
  <1> QED
    BY <1>1, <1>2 DEF Doc

LEMMA CleanBack ==
    ASSUME [Next]_vars, NEW s
    PROVE  Clean(s)' => Clean(s)
  <1>1. undone \subseteq undone'
    BY StepKinds DEF vars, World, Subscribe, ExpireLapsed, Charge, Resume, GoesStale, Halt, Finish,
     Tick, ApplyStatus, ClaimCycle, LoseClaim, SaveExpired, HandlerStep, LookForOthers, Downgrade,
     ZeroInk, PendingElsewhere, Grant, Rollback, Mark, Die, GrantThrows, UpdateThrows, ReadStep,
     ReadPlan, ReadEnded, ReadCurrent, TakePlan, TakeDrip, SetDrip, ReadStops, history, excused
  <1> QED
    BY <1>1 DEF Clean

\* An undo that goes back to a cycle that is over by then is a late one.
LEMMA UndoneInTime ==
    ASSUME Base, NEW w \in Worker, Undoes(w), NEW s \in Yearly, del[w].event.sub = s, Clean(s)',
           del[w].before.count < del[w].event.count
    PROVE  now <= CycleEnd(s, del[w].before.count)
  <1>1. del[w].event.count \in Cycle
    <2>1. del[w].event.count \in 1..rz[s].charges /\ rz[s] \in Contract
      BY Sizes DEF Undoes, Base, WorkerOK, Live, TypeOK, Contract
    <2> QED
      BY <2>1, Sizes DEF Cycle, Contract
  <1>2. CycleOf(w) \notin LateCycle(w)
    BY <1>1 DEF Undoes, Clean, CycleOf
  <1>3. now \in Nat /\ CycleEnd(s, del[w].before.count) \in Nat
    <2>1. del[w].before.count \in Nat /\ TypeOK /\ s \in Sub
      BY Sizes, Undone DEF Base, Doc
    <2> QED
      BY <2>1, CycleTimes DEF TypeOK
  <1>4. CycleOf(w)[1] = s /\ CycleOf(w)[2] = del[w].event.count
    BY DEF CycleOf
  <1>5. ~ (now > CycleEnd(s, del[w].before.count))
    BY <1>2, <1>4 DEF LateCycle
  <1> QED
    BY <1>3, <1>5

\* A drip is taken of the cycle the read is in.
LEMMA TakenInCycle ==
    ASSUME Base, DocsOK, ReadsOK, NEW r \in Reader, TakeDrip(r), DripFree(r),
           NEW s \in Yearly, read[r].sub = s, Clean(s)
    PROVE  /\ read[r].cycle \in Cycle /\ sub[s].count = read[r].cycle
           /\ sub[s].anchor = read[r].anchor /\ ReadInCycle(r, s, read[r].cycle)
  <1>1. read[r].cycle \in Cycle
    <2>1. read[r].cycle \in 1..rz[s].charges /\ rz[s] \in Contract
      BY Sizes DEF TakeDrip, Base, ReaderOK, TypeOK, Contract
    <2> QED
      BY <2>1, Sizes DEF Cycle, Contract
  <1>2. PICK c \in Cycle : c = read[r].cycle
    BY <1>1
  <1>3. ReadInCycle(r, s, c)
    BY <1>2 DEF ReadsOK, TakeDrip
  <1>4. /\ s \in Sub /\ sub[s] \in Doc /\ now \in Nat /\ sub[s].nextAt \in 1..now /\ c \in Nat /\ c > 0
        /\ TypeOK
    BY Sizes, CycleNat, Taken DEF Base, TypeOK
  <1>5. PICK j \in Nat : j = sub[s].count
    BY <1>4 DEF Doc
  <1>6. j > 0 /\ sub[s].anchor = CycleStart(s, j) /\ sub[s].nextAt = sub[s].anchor + sub[s].drips + 1
    BY <1>3, <1>4, <1>5 DEF DocsOK, OfCycle, ReadInCycle
  <1>7. CycleStart(s, j) \in Nat /\ sub[s].drips \in Nat
    <2>1. CycleStart(s, j) \in Nat
      BY <1>4, <1>6, CycleTimes
    <2> QED
      BY <1>4, <2>1, DocNats
  <1>8. CycleStart(s, j) < now
    BY <1>4, <1>6, <1>7
  <1>9. j \in Cycle
    BY <1>4, <1>5, <1>6, Sizes DEF Doc, Cycle
  <1>10. j = c
    <2>1. j > c => CycleStart(s, j) >= now
      BY <1>3, <1>5, <1>9 DEF ReadInCycle, Ahead
    <2>2. j >= c
      BY <1>3, <1>5 DEF ReadInCycle
    <2> QED
      BY <1>4, <1>7, <1>8, <2>1, <2>2
  <1> QED
    BY <1>1, <1>2, <1>3, <1>5, <1>6, <1>10 DEF ReadInCycle

LEMMA DocsStep ==
    ASSUME Base, DocsOK, ReadsOK, [Next]_vars
    PROVE  DocsOK'
  <1>1. SUFFICES ASSUME NEW s \in Yearly, Clean(s)'
                 PROVE  /\ OfCycle(sub[s], s)'
                        /\ \A w \in Worker : Live(w)' /\ del'[w].event.sub = s
                                                => OfCycle(del[w].before, s)'
    BY DEF DocsOK, Clean
  <1>2. s \in Sub /\ Clean(s) /\ sub[s] \in Doc /\ sub'[s] \in Doc /\ sub[s].count <= rz[s].charges
        /\ rz[s] \in Contract
    BY <1>1, Sizes, CleanBack, DocTypes DEF Base, ChargesOK, TypeOK, Contract
  <1>3. OfCycle(sub[s], s)
        /\ \A w \in Worker : Live(w) /\ del[w].event.sub = s => OfCycle(del[w].before, s)
    BY <1>2 DEF DocsOK
  <1>4. ASSUME NEW d \in Doc, d.count <= rz[s].charges, OfCycle(d, s)
        PROVE  d.count > 0 => d.anchor = CycleStart(s, d.count)' /\ d.nextAt = d.anchor + d.drips + 1
    <2>1. d.count > 0 => rz[s].charges > 0
      BY <1>2, <1>4 DEF Doc, Contract
    <2> QED
      BY <1>2, <1>4, <2>1, CyclesFixed DEF OfCycle
  <1>5. ASSUME NEW e \in Doc, sub'[s].count = e.count, sub'[s].anchor = e.anchor,
               sub'[s].nextAt = e.nextAt, sub'[s].drips = e.drips,
               e.count > 0 => e.anchor = CycleStart(s, e.count)' /\ e.nextAt = e.anchor + e.drips + 1
        PROVE  OfCycle(sub[s], s)'
    BY <1>5 DEF OfCycle, CycleStart
  <1>6. OfCycle(sub[s], s)'
    <2>1. CASE DocKept(s)
      <3>1. PICK d \in Doc : d = sub[s]
        BY <1>2
      <3> QED
        BY <1>2, <1>3, <1>4, <1>5, <2>1, <3>1 DEF DocKept
    <2>2. ASSUME NEW w \in Worker, NEW e \in awaited, ClaimCycle(w, e), e.sub = s
          PROVE  OfCycle(sub[s], s)'
      <3>1. sub'[s] = Charged(w, s, e.count) /\ rz' = rz /\ e.count \in Nat /\ e.count > 0
        <4>1. sub'[e.sub] = Charged(w, e.sub, e.count) /\ e.count \in Cycle
          BY <2>2, ClaimDoc
        <4>2. rz' = rz
          BY <2>2 DEF ClaimCycle, razorpay
        <4> QED
          BY <2>2, <4>1, <4>2, CycleNat
      <3>2. CycleStart(s, e.count) \in Nat
        BY <1>2, <3>1, CycleTimes DEF Base
      <3>3. CycleStart(s, e.count)' = CycleStart(s, e.count)
        BY <3>1 DEF CycleStart, Period
      <3>4. /\ sub'[s].count = e.count /\ sub'[s].anchor = CycleStart(s, e.count)
            /\ sub'[s].nextAt = CycleStart(s, e.count) + 1 /\ sub'[s].drips = 0
        BY <3>1 DEF Charged
      <3>5. CycleStart(s, e.count)' = CycleStart(s, sub[s].count)'
        BY <3>4 DEF CycleStart
      <3> QED
        BY <3>2, <3>3, <3>4, <3>5 DEF OfCycle
    <2>3. ASSUME NEW w \in Worker, Undoes(w), del[w].event.sub = s PROVE OfCycle(sub[s], s)'
      <3>1. /\ Live(w) /\ del[w].before \in Doc /\ del[w].before.count <= sub[s].count
            /\ sub'[s].count = del[w].before.count /\ sub'[s].anchor = del[w].before.anchor
            /\ sub'[s].nextAt = del[w].before.nextAt /\ sub'[s].drips = del[w].before.drips
        BY <2>3, Undone
      <3>2. PICK d \in Doc : d = del[w].before
        BY <3>1
      <3>3. d.count <= rz[s].charges
        BY <1>2, <3>1, <3>2 DEF Doc, Contract
      <3>4. OfCycle(d, s)
        BY <1>3, <2>3, <3>1, <3>2
      <3> QED
        BY <1>4, <1>5, <3>1, <3>2, <3>3, <3>4
    <2>4. ASSUME NEW r \in Reader, TakeDrip(r), DripFree(r), read[r].sub = s
          PROVE  OfCycle(sub[s], s)'
      <3>1. sub[s].anchor = read[r].anchor
        BY <1>2, <2>4, TakenInCycle
      <3>2. /\ sub'[s].count = sub[s].count /\ sub'[s].anchor = sub[s].anchor
            /\ sub[s].drips = read[r].n /\ sub'[s].drips = sub[s].drips + 1
            /\ sub'[s].nextAt = read[r].anchor + read[r].n + 2
        BY <2>4, Taken
      <3>3. PICK d \in Doc : d = sub[s]
        BY <1>2
      <3>4. d.count > 0 => d.anchor = CycleStart(s, d.count)'
        BY <1>2, <1>3, <1>4, <3>3
      <3>5. CycleStart(s, d.count)' = CycleStart(s, sub[s].count)'
        BY <3>2, <3>3 DEF CycleStart
      <3>6. sub[s].anchor \in Nat /\ sub[s].drips \in Nat
        BY <1>2, Sizes DEF Doc
      <3>7. sub'[s].nextAt = sub'[s].anchor + sub'[s].drips + 1
        BY <3>1, <3>2, <3>6
      <3> QED
        BY <3>2, <3>3, <3>4, <3>5, <3>7 DEF OfCycle
    <2> QED
      BY <1>2, <2>1, <2>2, <2>3, <2>4, DocMoves
  <1>7. ASSUME NEW w \in Worker, Live(w)', del'[w].event.sub = s
        PROVE  OfCycle(del[w].before, s)'
    <2>1. ASSUME NEW d \in Doc, d.count <= rz[s].charges, OfCycle(d, s), del'[w].before = d
          PROVE  OfCycle(del[w].before, s)'
      <3>1. CycleStart(s, d.count)' = CycleStart(s, del[w].before.count)'
        BY <2>1 DEF CycleStart
      <3> QED
        BY <1>4, <2>1, <3>1 DEF OfCycle
    <2>2. CASE Live(w) /\ del'[w].event = del[w].event /\ del'[w].before = del[w].before
      <3>1. PICK d \in Doc : d = del[w].before
        BY DEF Base, TypeOK
      <3>2. d.count <= del[w].event.count /\ del[w].event.count \in 1..rz[s].charges
        BY <1>7, <2>2, <3>1 DEF Base, WorkerOK
      <3>3. d.count <= rz[s].charges
        BY <1>2, <3>2 DEF Doc, Contract
      <3>4. OfCycle(d, s)
        BY <1>3, <1>7, <2>2, <3>1
      <3> QED
        BY <2>1, <2>2, <3>1, <3>3, <3>4
    <2>3. ASSUME NEW e \in awaited, ClaimCycle(w, e) PROVE OfCycle(del[w].before, s)'
      <3>1. del'[w].before = sub[s]
        BY <1>7, <2>3, ClaimPlace
      <3>2. PICK d \in Doc : d = sub[s]
        BY <1>2
      <3> QED
        BY <1>2, <1>3, <2>1, <3>1, <3>2
    <2> QED
      BY <1>7, <2>2, <2>3, LiveMoves
  <1> QED
    BY <1>6, <1>7

\* What is sent to be charged is sent when it is due, at the start of its cycle or
\* after.
LEMMA WaitingMoves ==
    ASSUME Base, [Next]_vars, NEW s \in Sub, NEW k \in Cycle, Waiting(s, k)', ~ Waiting(s, k)
    PROVE  /\ k = rz[s].charges + 1 /\ rz'[s].charges = k /\ sub' = sub /\ now' = now
           /\ k > 1 => rz[s].charges > 0
           /\ now \in CycleStart(s, k)'..CycleEnd(s, k)'
  <1>1. PICK e \in awaited' : ChargeEvent(e)' /\ e.sub = s /\ e.count = k
    BY DEF Waiting
  <1>2. ChargeEvent(e) /\ e \notin awaited
    BY <1>1 DEF Waiting, ChargeEvent
  <1>3. ASSUME NEW o \in Sub, Subscribe(o) \/ Resume(o) \/ (\E x \in Stopped : Halt(o, x))
                              \/ (\E x \in Terminal : Finish(o, x))
        PROVE  FALSE
    <2>1. e.kind \in {"authenticated", "resumed"} \cup Stopped \cup Terminal
      <3>1. Subscribe(o) => e.kind = "authenticated"
        BY <1>1, <1>2 DEF Subscribe, Send
      <3>2. Resume(o) => e.kind = "resumed"
        BY <1>1, <1>2 DEF Resume, Send
      <3>3. ASSUME NEW x, Halt(o, x) PROVE e.kind = x
        BY <1>1, <1>2, <3>3 DEF Halt, Send
      <3>4. ASSUME NEW x, Finish(o, x) PROVE e.kind = x
        <4>1. Send({x}, o, rz[o].charges)
          BY <3>4 DEF Finish
        <4> QED
          BY <1>1, <1>2, <4>1 DEF Send
      <3> QED
        BY <1>3, <3>1, <3>2, <3>3, <3>4
    <2> QED
      BY <1>2, <2>1 DEF ChargeEvent, Stopped, Terminal
  <1>4. ASSUME NEW o \in Sub, Charge(o)
        PROVE  /\ k = rz[s].charges + 1 /\ rz'[s].charges = k /\ sub' = sub /\ now' = now
               /\ k > 1 => rz[s].charges > 0
               /\ now \in CycleStart(s, k)'..CycleEnd(s, k)'
    <2>1. o = s /\ k = rz[s].charges + 1
      BY <1>1, <1>2, <1>4 DEF Charge, Send
    <2> DEFINE start == IF k = 1 THEN now ELSE rz[s].start
    <2>2. now \in start + (k - 1) * Period(s)..start + (k - 1) * Period(s) + Period(s)
      BY <1>4, <2>1 DEF Charge
    <2>3. rz' = [rz EXCEPT ![s].start = start, ![s].charges = k, ![s].state = "running"]
      BY <1>4, <2>1 DEF Charge
    <2>4. rz'[s].start = start /\ rz'[s].charges = k
      <3> HIDE DEF start
      <3> QED
        BY <2>3 DEF Base, TypeOK
    <2>5. k \in Nat /\ k > 0 /\ Period(s) \in Nat /\ start \in Nat
      BY CycleNat, PeriodPositive DEF Base, TypeOK
    <2>6. (k - 1) * Period(s) + Period(s) = k * Period(s)
      <3>1. PICK p \in Nat : p = Period(s)
        BY <2>5
      <3>2. (k - 1) * p + p = k * p
        BY <2>5
      <3> QED
        BY <3>1, <3>2
    <2>7. (k - 1) * Period(s) \in Nat /\ k * Period(s) \in Nat
      <3>1. PICK p \in Nat : p = Period(s)
        BY <2>5
      <3>2. k - 1 \in Nat
        BY <2>5
      <3>3. (k - 1) * p \in Nat /\ k * p \in Nat
        BY <2>5, <3>2
      <3> QED
        BY <3>1, <3>3
    <2>8. CycleStart(s, k)' = start + (k - 1) * Period(s) /\ CycleEnd(s, k)' = start + k * Period(s)
      BY <2>4 DEF CycleStart, CycleEnd, Period
    <2>9. now \in CycleStart(s, k)'..CycleEnd(s, k)'
      <3> HIDE DEF start
      <3> QED
        BY <2>2, <2>5, <2>6, <2>7, <2>8
    <2>10. rz[s].charges \in Nat
      BY DEF Base, TypeOK
    <2> QED
      BY <1>4, <2>1, <2>4, <2>5, <2>9, <2>10 DEF Charge
  <1>5. World
    <2>1. ASSUME NEW d \in awaited,
                 \/ ApplyStatus(d)
                 \/ \E w \in Worker : ClaimCycle(w, d) \/ LoseClaim(w, d) \/ SaveExpired(w, d)
          PROVE  awaited' \subseteq awaited
      BY <2>1 DEF ApplyStatus, Answer, ClaimCycle, LoseClaim, SaveExpired
    <2>2. ASSUME NEW w \in Worker,
                 \/ HandlerStep(w) \/ Die(w)
                 \/ \E landed \in BOOLEAN : GrantThrows(w, landed) \/ UpdateThrows(w, landed)
          PROVE  awaited' \subseteq awaited
      BY <2>2 DEF HandlerStep, LookForOthers, Downgrade, ZeroInk, PendingElsewhere, Grant,
                  Rollback, Mark, Die, GrantThrows, UpdateThrows, Done, Answer, Fails, Goto,
                  Stays, Acknowledged
    <2>3. ASSUME NEW r \in Reader, ReadStep(r) \/ ReadStops(r)
          PROVE  awaited' = awaited
      BY <2>3 DEF ReadStep, ReadPlan, ReadEnded, ReadCurrent, TakePlan, TakeDrip, SetDrip,
                  ReadStops
    <2>4. UNCHANGED vars => awaited' = awaited
      BY DEF vars
    <2> QED
      BY <1>2, <2>1, <2>2, <2>3, <2>4, StepKinds
  <1>6. ~ Tick /\ \A o \in Sub : ~ ExpireLapsed(o) /\ ~ GoesStale(o)
    BY <1>2 DEF Tick, ExpireLapsed, GoesStale
  <1> QED
    BY <1>3, <1>4, <1>5, <1>6 DEF World

\* The month passes only while nothing runs and nothing waits.
LEMMA NowMoves ==
    ASSUME [Next]_vars, now' # now
    PROVE  /\ awaited = {} /\ awaited' = {} /\ \A w \in Worker : del[w] = Quiet
           /\ \A r \in Reader : read[r] = Resting
           /\ read' = read /\ del' = del /\ rz' = rz /\ now' = now + 1
  <1>1. Tick
    BY StepKinds DEF vars, World, Subscribe, ExpireLapsed, Charge, Resume, GoesStale, Halt, Finish,
     ApplyStatus, ClaimCycle, LoseClaim, SaveExpired, HandlerStep, LookForOthers, Downgrade,
     ZeroInk, PendingElsewhere, Grant, Rollback, Mark, Die, GrantThrows, UpdateThrows, ReadStep,
     ReadPlan, ReadEnded, ReadCurrent, TakePlan, TakeDrip, SetDrip, ReadStops
  <1> QED
    BY <1>1 DEF Tick

LEMMA BackStep ==
    ASSUME Base, PaidEnd, BackInTime, [Next]_vars
    PROVE  BackInTime'
  <1>1. SUFFICES ASSUME NEW s \in Yearly, NEW k \in Cycle, Clean(s)', Waiting(s, k)',
                        sub'[s].count < k, sub'[s].paidThrough > CycleStart(s, k)'
                 PROVE  now' <= CycleStart(s, k)'
    BY DEF BackInTime
  <1>2. s \in Sub /\ Clean(s) /\ sub[s] \in Doc /\ sub'[s] \in Doc /\ k \in Nat /\ k > 0
        /\ TypeOK /\ rz[s].charges \in Nat /\ now \in Nat
    BY <1>1, Sizes, CleanBack, DocTypes, CycleNat DEF Base, TypeOK
  <1>3. ASSUME now' # now PROVE FALSE
    BY <1>1, <1>3, NowMoves DEF Waiting
  <1>4. ASSUME ~ Waiting(s, k) PROVE FALSE
    <2>1. k = rz[s].charges + 1 /\ sub' = sub /\ now \in CycleStart(s, k)'..CycleEnd(s, k)'
      BY <1>1, <1>2, <1>4, WaitingMoves
    <2>2. PICK j \in Nat : j = rz[s].charges
      BY <1>2
    <2>3. sub[s].paidThrough \in Nat /\ CycleStart(s, k)' \in Nat
      <3>1. TypeOK'
        BY TypeStep
      <3>2. rz'[s].start \in Nat /\ (k - 1) \in Nat /\ Period(s) \in Nat
        BY <1>2, <3>1, PeriodPositive DEF TypeOK
      <3>3. (k - 1) * Period(s) \in Nat
        <4>1. PICK p \in Nat : p = Period(s)
          BY <3>2
        <4>2. PICK q \in Nat : q = k - 1
          BY <3>2
        <4>3. q * p \in Nat
          OBVIOUS
        <4> QED
          BY <4>1, <4>2, <4>3
      <3> QED
        BY <1>2, <3>2, <3>3, DocNats DEF CycleStart, Period
    <2>4. sub[s].paidThrough > 0
      BY <1>1, <2>1, <2>3
    <2>5. j > 0 /\ sub[s].paidThrough <= CycleEnd(s, j)
      BY <1>2, <2>2, <2>4 DEF PaidEnd
    <2>6. CycleStart(s, k)' = CycleEnd(s, j) /\ CycleEnd(s, j) \in Nat
      BY <1>2, <2>1, <2>2, <2>5, CyclesFixed, CycleTimes
    <2> QED
      BY <1>1, <2>1, <2>3, <2>5, <2>6
  <1>5. rz[s].charges > 0 /\ k <= rz[s].charges
    <2>1. Waiting(s, k)
      BY <1>4
    <2>2. PICK e \in awaited : e.sub = s /\ e.count = k
      BY <2>1 DEF Waiting
    <2> QED
      BY <1>2, <2>2 DEF Base, EventsOK
  <1>6. CycleStart(s, k)' = CycleStart(s, k) /\ CycleStart(s, k) \in Nat
        /\ \A j \in Nat : j < k => CycleEnd(s, j) <= CycleStart(s, k) /\ CycleEnd(s, j) \in Nat
    BY <1>2, <1>5, CyclesFixed, CycleTimes
  <1>7. ASSUME sub[s].count < k, sub'[s].paidThrough = sub[s].paidThrough
        PROVE  now <= CycleStart(s, k)
    BY <1>1, <1>2, <1>4, <1>6, <1>7 DEF BackInTime
  <1>8. now <= CycleStart(s, k)
    <2>1. CASE DocKept(s)
      BY <1>1, <1>7, <2>1 DEF DocKept
    <2>2. ASSUME NEW w \in Worker, NEW e \in awaited, ClaimCycle(w, e), e.sub = s PROVE FALSE
      <3>1. sub'[s] = Charged(w, s, e.count) /\ e.count \in Cycle
        BY <2>2, Claimed
      <3>2. sub'[s].count = e.count /\ sub'[s].paidThrough = CycleEnd(s, e.count)
        BY <3>1 DEF Charged
      <3>3. e.count \in Nat /\ e.count < k
        BY <1>1, <3>1, <3>2, CycleNat
      <3>4. CycleEnd(s, e.count) <= CycleStart(s, k) /\ CycleEnd(s, e.count) \in Nat
        BY <1>6, <3>3
      <3> QED
        BY <1>1, <1>6, <3>2, <3>4
    <2>3. ASSUME NEW w \in Worker, Undoes(w), del[w].event.sub = s
          PROVE  now <= CycleStart(s, k)
      <3>1. /\ sub[s].count = del[w].event.count /\ sub'[s].count = del[w].before.count
            /\ sub'[s].paidThrough = sub[s].paidThrough /\ del[w].before \in Doc
        BY <2>3, Undone
      <3>2. PICK j \in Nat : j = del[w].before.count
        BY <3>1, DocNats
      <3>3. j < k
        BY <1>1, <3>1, <3>2
      <3>4. CASE sub[s].count < k
        BY <1>7, <3>1, <3>4
      <3>5. CASE ~ (sub[s].count < k)
        <4>1. del[w].before.count < del[w].event.count
          BY <1>2, <3>1, <3>2, <3>3, <3>5, DocNats
        <4>2. now <= CycleEnd(s, j)
          BY <1>1, <2>3, <3>2, <4>1, UndoneInTime
        <4> QED
          BY <1>2, <1>6, <3>3, <4>2
      <3> QED
        BY <3>4, <3>5
    <2>4. ASSUME NEW r \in Reader, TakeDrip(r), DripFree(r), read[r].sub = s
          PROVE  now <= CycleStart(s, k)
      <3>1. sub'[s].count = sub[s].count /\ sub'[s].paidThrough = sub[s].paidThrough
        BY <2>4, Taken
      <3> QED
        BY <1>1, <1>7, <3>1
    <2> QED
      BY <1>2, <2>1, <2>2, <2>3, <2>4, DocMoves
  <1> QED
    BY <1>3, <1>6, <1>8

LEMMA AheadBack ==
    ASSUME Base, [Next]_vars, NEW s \in Sub, NEW k \in Cycle, Ahead(s, k)'
    PROVE  Ahead(s, k)
  <1>1. rz[s].charges \in Nat /\ rz'[s].charges \in Nat /\ rz[s].charges <= rz'[s].charges
        /\ k \in Nat
    BY TypeStep, Contracts, CycleNat DEF Base, TypeOK, ContractsGrow
  <1>2. ASSUME Waiting(s, k)' PROVE Ahead(s, k)
    BY <1>1, <1>2, WaitingMoves DEF Ahead
  <1>3. ASSUME k > rz'[s].charges PROVE Ahead(s, k)
    BY <1>1, <1>3 DEF Ahead
  <1>4. ASSUME NEW w \in Worker, NEW e \in awaited, ClaimCycle(w, e), e.sub = s, e.count = k
        PROVE  Ahead(s, k)
    BY <1>4 DEF Ahead, Waiting, ClaimCycle
  <1>5. ASSUME sub'[s].count = k PROVE Ahead(s, k)
    <2>1. ASSUME sub'[s].count = sub[s].count PROVE Ahead(s, k)
      BY <1>5, <2>1 DEF Ahead
    <2>2. ASSUME NEW w \in Worker, NEW e \in awaited, ClaimCycle(w, e), e.sub = s
          PROVE  Ahead(s, k)
      <3>1. sub'[s].count = e.count
        BY <2>2, Claimed
      <3> QED
        BY <1>4, <1>5, <2>2, <3>1
    <2>3. ASSUME NEW w \in Worker, Undoes(w), del[w].event.sub = s PROVE Ahead(s, k)
      <3>1. Live(w) /\ sub'[s].count = del[w].before.count
        BY <2>3, Undone
      <3> QED
        BY <1>5, <2>3, <3>1 DEF Ahead
    <2>4. ASSUME NEW r \in Reader, TakeDrip(r), DripFree(r), read[r].sub = s
          PROVE  Ahead(s, k)
      <3>1. sub'[s].count = sub[s].count
        BY <2>4, Taken
      <3> QED
        BY <2>1, <3>1
    <2>5. DocKept(s) => sub'[s].count = sub[s].count
      BY DEF DocKept
    <2> QED
      BY <2>1, <2>2, <2>3, <2>4, <2>5, DocMoves
  <1>6. ASSUME NEW w \in Worker, Live(w)', del'[w].event.sub = s,
               k \in {del'[w].event.count, del'[w].before.count}
        PROVE  Ahead(s, k)
    <2>1. ASSUME NEW e \in awaited, ClaimCycle(w, e) PROVE Ahead(s, k)
      <3>1. del'[w].event = e /\ del'[w].before = sub[e.sub]
        BY <2>1, ClaimPlace
      <3>2. k = e.count \/ k = sub[s].count
        BY <1>6, <3>1
      <3> QED
        BY <1>4, <1>6, <2>1, <3>1, <3>2 DEF Ahead
    <2>2. CASE Live(w) /\ del'[w].event = del[w].event /\ del'[w].before = del[w].before
      BY <1>6, <2>2 DEF Ahead
    <2> QED
      BY <1>6, <2>1, <2>2, LiveMoves
  <1> QED
    BY <1>2, <1>3, <1>5, <1>6 DEF Ahead, Live

\* A read that finds a yearly plan in its paid year is in the document's cycle.
LEMMA PlanInCycle ==
    ASSUME Base, ClaimStays, PaidEnd, DocsOK, BackInTime,
           NEW s \in Yearly, Clean(s), Dripping(s), sub[s].nextAt \in 1..now
    PROVE  /\ sub[s].count \in Cycle /\ now > CycleStart(s, sub[s].count)
           /\ sub[s].anchor = CycleStart(s, sub[s].count)
           /\ sub[s].nextAt = sub[s].anchor + sub[s].drips + 1
           /\ \A k \in Cycle : k > sub[s].count /\ Ahead(s, k) => CycleStart(s, k) >= now
  <1>1. s \in Sub /\ TypeOK /\ sub[s] \in Doc /\ now \in Nat /\ rz[s].charges \in Nat
    BY Sizes DEF Base, TypeOK
  <1>2. sub[s].count > 0 /\ sub[s].paidThrough >= now /\ now > 0
    BY <1>1 DEF Base, DatesOK, ChargesOK, Dripping, Doc
  <1>3. PICK c \in Nat : c = sub[s].count
    BY <1>1, DocNats
  <1>4. c \in Cycle
    BY <1>1, <1>2, <1>3, DocNats, Sizes DEF Cycle
  <1>5. /\ sub[s].anchor = CycleStart(s, c) /\ sub[s].nextAt = sub[s].anchor + sub[s].drips + 1
    BY <1>2, <1>3 DEF DocsOK, OfCycle
  <1>6. CycleStart(s, c) \in Nat
    BY <1>1, <1>2, <1>3, CycleTimes
  <1>7. now > CycleStart(s, c)
    BY <1>1, <1>5, <1>6, DocNats
  <1>8. ASSUME NEW k \in Cycle, k > c, Ahead(s, k) PROVE CycleStart(s, k) >= now
    <2>0. k \in Nat /\ k > 0 /\ CycleStart(s, k) \in Nat /\ sub[s].paidThrough \in Nat
      BY <1>1, CycleNat, CycleTimes, DocNats
    <2>1. CASE Waiting(s, k)
      BY <1>1, <1>2, <1>3, <1>8, <2>0, <2>1 DEF BackInTime
    <2>2. CASE k > rz[s].charges
      <3>1. PICK j \in Nat : j = rz[s].charges
        BY <1>1
      <3>2. sub[s].paidThrough <= CycleEnd(s, j)
        BY <1>1, <1>2, <2>0, <3>1 DEF PaidEnd
      <3>3. CycleEnd(s, j) <= CycleStart(s, k) /\ CycleEnd(s, j) \in Nat
        BY <1>1, <2>0, <2>2, <3>1, CycleTimes
      <3> QED
        BY <1>1, <1>2, <2>0, <3>2, <3>3
    <2>3. CASE sub[s].count = k
      BY <1>3, <1>8, <2>0, <2>3
    <2>4. ASSUME NEW w \in Worker, Live(w), del[w].event.sub = s,
                 k \in {del[w].event.count, del[w].before.count}
          PROVE  FALSE
      <3>1. del[w].event.count \in Cycle /\ del[w].before.count <= del[w].event.count
        <4>1. del[w].event.count \in 1..rz[s].charges /\ rz[s] \in Contract
          BY <1>1, <2>4 DEF Base, WorkerOK, TypeOK, Contract
        <4> QED
          BY <2>4, <4>1, Sizes DEF Cycle, Contract, Base, WorkerOK
      <3>2. PICK j \in Cycle : j = del[w].event.count
        BY <3>1
      <3>3. OnCycle(w, s, j)
        BY <2>4, <3>2 DEF OnCycle, CycleOf
      <3>4. PICK S \in SUBSET Pile : ClaimPile(w, s, j, S)
        BY <1>1, <3>3 DEF ClaimStays
      <3>5. c >= j
        BY <1>3, <3>4 DEF ClaimPile, Kept, Top
      <3>6. del[w].before.count \in Nat /\ j \in Nat
        <4>1. del[w].before \in Doc
          BY DEF Base, TypeOK
        <4> QED
          BY <4>1, DocNats, CycleNat
      <3> QED
        BY <1>3, <1>8, <2>0, <2>4, <3>1, <3>2, <3>5, <3>6
    <2> QED
      BY <1>8, <2>1, <2>2, <2>3, <2>4 DEF Ahead
  <1> QED
    BY <1>3, <1>4, <1>5, <1>7, <1>8

\* How a read comes to drip.
ReadMoved(r) ==
    \/ read'[r] = read[r]
    \/ \E s \in Yearly :
          /\ Dripping(s) /\ sub[s].nextAt \in 1..now /\ ReadPlan(r)
          /\ read'[r].sub = s /\ read'[r].cycle = sub[s].count /\ read'[r].n = sub[s].drips
          /\ read'[r].nextAt = sub[s].nextAt /\ read'[r].anchor = sub[s].anchor
          /\ read'[r].pc = "take"
    \/ /\ TakeDrip(r) /\ DripFree(r) /\ read[r].pc = "take" /\ read'[r].pc = "set"
       /\ read'[r].sub = read[r].sub /\ read'[r].cycle = read[r].cycle
       /\ read'[r].n = read[r].n + 1 /\ read'[r].anchor = read[r].anchor
       /\ read'[r].nextAt = read[r].anchor + read[r].n + 2
    \/ /\ SetDrip(r) /\ read[r].pc = "set" /\ read'[r].pc = "take" /\ read[r].nextAt <= now
       /\ read'[r].sub = read[r].sub /\ read'[r].cycle = read[r].cycle
       /\ read'[r].n = read[r].n /\ read'[r].anchor = read[r].anchor
       /\ read'[r].nextAt = read[r].nextAt

\* A read stands still while another one, or none, moves.
LEMMA OtherReads ==
    ASSUME Base, [Next]_vars, NEW r \in Reader, ~ (ReadStep(r) \/ ReadStops(r))
    PROVE  read'[r] = read[r]
  <1>1. ASSUME NEW q \in Reader, q # r, ReadStep(q) \/ ReadStops(q) PROVE read'[r] = read[r]
    BY <1>1 DEF ReadStep, ReadPlan, ReadEnded, ReadCurrent, TakePlan, TakeDrip, SetDrip,
                ReadStops, At, Rest, Base, TypeOK
  <1>2. ASSUME ~ \E q \in Reader : ReadStep(q) \/ ReadStops(q) PROVE read' = read
    <2>1. World => read' = read
      BY DEF World, Subscribe, ExpireLapsed, Charge, Resume, GoesStale, Halt, Finish, Tick
    <2>2. \A w \in Worker, e \in awaited :
             ApplyStatus(e) \/ ClaimCycle(w, e) \/ LoseClaim(w, e) \/ SaveExpired(w, e)
                => read' = read
      BY DEF ApplyStatus, ClaimCycle, LoseClaim, SaveExpired
    <2>3. \A w \in Worker : HandlerStep(w) \/ Die(w) => read' = read
      BY DEF HandlerStep, LookForOthers, Downgrade, ZeroInk, PendingElsewhere, Grant, Rollback,
             Mark, Die
    <2>4. \A w \in Worker, landed \in BOOLEAN :
             GrantThrows(w, landed) \/ UpdateThrows(w, landed) => read' = read
      BY DEF GrantThrows, UpdateThrows
    <2>5. \A e \in awaited : ApplyStatus(e) => read' = read
      BY DEF ApplyStatus
    <2>6. UNCHANGED vars => read' = read
      BY DEF vars
    <2> QED
      BY <1>2, <2>1, <2>2, <2>3, <2>4, <2>5, <2>6, StepKinds
  <1> QED
    BY <1>1, <1>2

LEMMA ReadsMoved ==
    ASSUME Base, [Next]_vars, NEW r \in Reader, read'[r].pc \in {"take", "set"}
    PROVE  ReadMoved(r)
  <1>0. read[r] \in Reading
    BY DEF Base, TypeOK
  <1>1. ASSUME Rest(r) PROVE FALSE
    BY <1>1 DEF Rest, Base, TypeOK, Resting
  <1>2. ASSUME NEW pc \in {"ended", "current", "zero"}, At(r, pc) PROVE FALSE
    BY <1>2 DEF At, Base, TypeOK
  <1>3. CASE ReadEnded(r) \/ ReadCurrent(r) \/ TakePlan(r) \/ ReadStops(r)
    BY <1>1, <1>2, <1>3 DEF ReadEnded, ReadCurrent, TakePlan, ReadStops
  <1>4. CASE ReadPlan(r)
    <2> DEFINE dripping == {s \in Sub : Dripping(s)}
               s == Newest(dripping)
    <2>1. CASE dripping = {} \/ sub[s].nextAt = None
      BY <1>2, <1>4, <2>1 DEF ReadPlan
    <2>2. CASE ~ (dripping = {} \/ sub[s].nextAt = None)
      <3>1. s \in dripping
        BY <2>2, NewestIn
      <3>2. s \in Yearly /\ Dripping(s)
        BY <3>1 DEF Dripping
      <3> HIDE DEF s
      <3>3. /\ sub[s].nextAt \in 1..now
            /\ read' = [read EXCEPT ![r] =
                  [pc |-> "take", sub |-> s, cycle |-> sub[s].count, n |-> sub[s].drips,
                   nextAt |-> sub[s].nextAt, anchor |-> sub[s].anchor]]
        BY <1>4, <2>2 DEF ReadPlan, s
      <3>4. read'[r] = [pc |-> "take", sub |-> s, cycle |-> sub[s].count, n |-> sub[s].drips,
                        nextAt |-> sub[s].nextAt, anchor |-> sub[s].anchor]
        BY <3>3 DEF Base, TypeOK
      <3> QED
        BY <1>4, <3>2, <3>3, <3>4 DEF ReadMoved
    <2> QED
      BY <2>1, <2>2
  <1>5. CASE TakeDrip(r)
    <2>1. DripFree(r)
      BY <1>1, <1>5 DEF TakeDrip
    <2>2. read' = [read EXCEPT ![r] = [read[r] EXCEPT !.pc = "set", !.n = read[r].n + 1,
                                         !.nextAt = read[r].anchor + read[r].n + 2]]
      BY <1>5, <2>1 DEF TakeDrip, Base, TypeOK
    <2>3. read'[r] = [read[r] EXCEPT !.pc = "set", !.n = read[r].n + 1,
                                     !.nextAt = read[r].anchor + read[r].n + 2]
      BY <2>2 DEF Base, TypeOK
    <2>4. /\ read'[r].sub = read[r].sub /\ read'[r].cycle = read[r].cycle /\ read'[r].pc = "set"
          /\ read'[r].n = read[r].n + 1 /\ read'[r].anchor = read[r].anchor
          /\ read'[r].nextAt = read[r].anchor + read[r].n + 2
      BY <1>0, <2>3 DEF Reading
    <2> QED
      BY <1>5, <2>1, <2>4 DEF ReadMoved, TakeDrip
  <1>6. CASE SetDrip(r)
    <2>1. read[r].nextAt <= now /\ read' = [read EXCEPT ![r].pc = "take"]
      BY <1>1, <1>6 DEF SetDrip, At
    <2>2. read'[r] = [read[r] EXCEPT !.pc = "take"]
      BY <2>1 DEF Base, TypeOK
    <2>3. /\ read'[r].pc = "take" /\ read'[r].sub = read[r].sub /\ read'[r].cycle = read[r].cycle
          /\ read'[r].n = read[r].n /\ read'[r].anchor = read[r].anchor
          /\ read'[r].nextAt = read[r].nextAt
      BY <1>0, <2>2 DEF Reading
    <2> QED
      BY <1>6, <2>1, <2>3 DEF ReadMoved, SetDrip
  <1> QED
    BY <1>3, <1>4, <1>5, <1>6, OtherReads DEF ReadStep, ReadMoved

\* The count does not go below the cycle of a read.
LEMMA CountAbove ==
    ASSUME Base, DocsOK, ReadsOK, [Next]_vars, NEW s \in Yearly, NEW c \in Cycle, Clean(s)',
           sub[s].count >= c, now > CycleStart(s, c)
    PROVE  sub'[s].count >= c
  <1>1. s \in Sub /\ TypeOK /\ sub[s] \in Doc /\ sub'[s] \in Doc /\ now \in Nat /\ c \in Nat /\ c > 0
    BY Sizes, CycleNat, DocTypes DEF Base, TypeOK
  <1>2. DocKept(s) => sub'[s].count >= c
    BY DEF DocKept
  <1>3. ASSUME NEW w \in Worker, NEW e \in awaited, ClaimCycle(w, e), e.sub = s
        PROVE  sub'[s].count >= c
    <2>1. sub'[s].count = e.count /\ sub[s].count <= e.count
      BY <1>3, Claimed
    <2> QED
      BY <1>1, <2>1, DocNats
  <1>4. ASSUME NEW w \in Worker, Undoes(w), del[w].event.sub = s, ~ (sub'[s].count >= c) PROVE FALSE
    <2>1. /\ sub'[s].count = del[w].before.count /\ sub[s].count = del[w].event.count
      BY <1>4, Undone
    <2>2. PICK j \in Nat : j = sub'[s].count
      BY <1>1, DocNats
    <2>3. j < c /\ del[w].before.count < del[w].event.count
      BY <1>1, <1>4, <2>1, <2>2, DocNats
    <2>4. now <= CycleEnd(s, j)
      BY <1>4, <2>1, <2>2, <2>3, UndoneInTime
    <2>5. CycleEnd(s, j) <= CycleStart(s, c) /\ CycleEnd(s, j) \in Nat /\ CycleStart(s, c) \in Nat
      BY <1>1, <2>2, <2>3, CycleTimes
    <2> QED
      BY <1>1, <2>4, <2>5
  <1>5. ASSUME NEW r \in Reader, TakeDrip(r), DripFree(r), read[r].sub = s
        PROVE  sub'[s].count >= c
    BY <1>5, Taken
  <1> QED
    BY <1>1, <1>2, <1>3, <1>4, <1>5, DocMoves

LEMMA ReadsStep ==
    ASSUME Base, ClaimStays, PaidEnd, DocsOK, BackInTime, ReadsOK, [Next]_vars
    PROVE  ReadsOK'
  <1>1. SUFFICES ASSUME NEW r \in Reader, NEW s \in Yearly, NEW c \in Cycle,
                        read'[r].pc \in {"take", "set"}, read'[r].sub = s, read'[r].cycle = c,
                        Clean(s)'
                 PROVE  ReadInCycle(r, s, c)'
    BY DEF ReadsOK, Clean
  <1>2. s \in Sub /\ Clean(s) /\ read[r] \in Reading /\ c \in Nat /\ c > 0 /\ now \in Nat
        /\ rz[s].charges \in Nat
    BY <1>1, Sizes, CleanBack, CycleNat DEF Base, TypeOK
  <1>3. \A k \in Cycle : Ahead(s, k)' => Ahead(s, k)
    BY <1>2, AheadBack
  <1>4. ASSUME NEW t \in Yearly, t = s, Dripping(t), sub[t].nextAt \in 1..now, ReadPlan(r),
               read'[r].cycle = sub[t].count, read'[r].n = sub[t].drips,
               read'[r].nextAt = sub[t].nextAt, read'[r].anchor = sub[t].anchor,
               read'[r].pc = "take"
        PROVE  ReadInCycle(r, s, c)'
    <2>1. /\ now > CycleStart(s, sub[s].count)
          /\ sub[s].anchor = CycleStart(s, sub[s].count)
          /\ sub[s].nextAt = sub[s].anchor + sub[s].drips + 1
          /\ \A k \in Cycle : k > sub[s].count /\ Ahead(s, k) => CycleStart(s, k) >= now
      BY <1>2, <1>4, PlanInCycle
    <2>2. c = sub[s].count
      BY <1>1, <1>4
    <2>3. sub' = sub /\ now' = now /\ rz' = rz
      BY <1>4 DEF ReadPlan, razorpay
    <2>4. \A k : CycleStart(s, k)' = CycleStart(s, k)
      BY <2>3 DEF CycleStart, Period
    <2>5. read'[r].nextAt <= now /\ sub'[s].count >= c
      BY <1>2, <1>4, <2>2, <2>3
    <2> QED
      BY <1>3, <1>4, <2>1, <2>2, <2>3, <2>4, <2>5 DEF ReadInCycle
  <1>5. ASSUME read[r].pc \in {"take", "set"}, read[r].sub = s, read[r].cycle = c
        PROVE  /\ ReadInCycle(r, s, c) /\ now' = now /\ rz[s].charges > 0
               /\ \A k : CycleStart(s, k)' = CycleStart(s, k)
               /\ sub'[s].count >= c
    <2>1. ReadInCycle(r, s, c)
      BY <1>2, <1>5 DEF ReadsOK
    <2>2. now' = now
      BY <1>5, NowMoves DEF Resting
    <2>3. rz[s].charges > 0
      BY <1>2, <1>5 DEF Base, ReaderOK
    <2>4. \A k : CycleStart(s, k)' = CycleStart(s, k)
      BY <1>2, <2>3, CyclesFixed
    <2>5. sub'[s].count >= c
      BY <1>1, <2>1, CountAbove DEF ReadInCycle
    <2> QED
      BY <2>1, <2>2, <2>3, <2>4, <2>5
  <1>6. CASE read'[r] = read[r]
    BY <1>1, <1>3, <1>5, <1>6 DEF ReadInCycle
  <1>7. CASE /\ TakeDrip(r) /\ DripFree(r) /\ read[r].pc = "take" /\ read'[r].pc = "set"
             /\ read'[r].sub = read[r].sub /\ read'[r].cycle = read[r].cycle
             /\ read'[r].n = read[r].n + 1 /\ read'[r].anchor = read[r].anchor
             /\ read'[r].nextAt = read[r].anchor + read[r].n + 2
    <2>1. read'[r].nextAt = read'[r].anchor + read'[r].n + 1
      <3>1. read[r].n \in Nat /\ read[r].anchor \in Nat
        BY <1>2, Sizes DEF Reading
      <3> QED
        BY <1>7, <3>1
    <2> QED
      BY <1>1, <1>3, <1>5, <1>7, <2>1 DEF ReadInCycle
  <1>8. CASE /\ SetDrip(r) /\ read[r].pc = "set" /\ read'[r].pc = "take" /\ read[r].nextAt <= now
             /\ read'[r].sub = read[r].sub /\ read'[r].cycle = read[r].cycle
             /\ read'[r].n = read[r].n /\ read'[r].anchor = read[r].anchor
             /\ read'[r].nextAt = read[r].nextAt
    BY <1>1, <1>3, <1>5, <1>8 DEF ReadInCycle
  <1>9. ReadMoved(r)
    BY <1>1, ReadsMoved
  <1> QED
    BY <1>1, <1>4, <1>6, <1>7, <1>8, <1>9 DEF ReadMoved

-----------------------------------------------------------------------------
(* A drip is taken once, and the drips a document counts are accounted for. *)

\* Past this drip of the cycle.
Dripped(k, m) == {d \in Doc : d.count > k \/ (d.count = k /\ d.drips >= m)}

Setting(g) == {r \in Reader : read[r].pc = "set" /\ Month(r) = g}

Claims(k) == {k} \X (Worker \cup {"none"})

\* The drip is counted for good: no undo that could still come goes back before it.
Counted(s, k, m) ==
    /\ now > CycleStart(s, k) /\ sub[s] \in Dripped(k, m)
    /\ \E S \in SUBSET Pile : Kept(s, Claims(k), S, Dripped(k, m))

DripOnce ==
    \A s \in Yearly, k \in Cycle, m \in 1..YEARLY_DRIP_MAX :
        Clean(s) /\ <<s, k>> \notin retaken =>
            /\ grants[<<s, k, m>>] <= 1
            /\ Setting(<<s, k, m>>) # {} => grants[<<s, k, m>>] = 0
            /\ \A q, r \in Setting(<<s, k, m>>) : q = r
            /\ grants[<<s, k, m>>] > 0 \/ Setting(<<s, k, m>>) # {} => Counted(s, k, m)

\* The claim of a cycle under way is undone only if it was a stale one's.
LEMMA NoUndo ==
    ASSUME Base, NEW w \in Worker, Undoes(w), NEW s \in Yearly, del[w].event.sub = s, Clean(s)',
           NEW k \in Cycle, <<s, k>> \notin retaken, now > CycleStart(s, k)
    PROVE  sub[s].count # k
  <1>1. SUFFICES ASSUME sub[s].count = k PROVE FALSE
    OBVIOUS
  <1>2. /\ Live(w) /\ del[w].before \in Doc /\ sub[s].count = del[w].event.count /\ s \in Sub
    BY Undone
  <1>3. CycleOf(w) = <<s, k>>
    BY <1>1, <1>2 DEF CycleOf
  <1>4. PICK j \in Nat : j = del[w].before.count
    BY <1>2, DocNats
  <1>5. j < k /\ k \in Nat /\ now \in Nat
    <2>1. j <= k /\ j # k
      BY <1>1, <1>2, <1>3, <1>4 DEF Base, WorkerOK
    <2>2. k \in Nat /\ now \in Nat
      BY CycleNat DEF Base, TypeOK
    <2> QED
      BY <2>1, <2>2, <1>4
  <1>6. now <= CycleEnd(s, j)
    BY <1>1, <1>2, <1>4, <1>5, UndoneInTime
  <1>7. CycleEnd(s, j) <= CycleStart(s, k) /\ CycleEnd(s, j) \in Nat /\ CycleStart(s, k) \in Nat
    BY <1>2, <1>4, <1>5, CycleTimes, CycleNat DEF Base
  <1> QED
    BY <1>5, <1>6, <1>7

\* A claim goes up, unless it is of a stale one's cycle.
LEMMA ClaimCounts ==
    ASSUME Base, NEW w \in Worker, NEW e \in awaited, ClaimCycle(w, e), NEW s \in Sub, s = e.sub
    PROVE  /\ e.count \in Cycle /\ sub[s].count <= e.count /\ sub'[s].count = e.count
           /\ sub[s].count = e.count => <<s, e.count>> \in retaken'
  <1>1. sub[e.sub].count <= e.count
    BY Claimed
  <1>0. sub'[e.sub].count = e.count
    <2>1. sub'[e.sub] = Charged(w, e.sub, e.count)
      BY ClaimDoc
    <2> QED
      BY <2>1 DEF Charged
  <1>2. sub[e.sub].count = e.count => <<e.sub, e.count>> \in retaken'
    BY Claimed
  <1>3. e.count \in Cycle
    BY ClaimDoc
  <1> QED
    BY <1>0, <1>1, <1>2, <1>3

LEMMA CountedStays ==
    ASSUME Base, DocsOK, ReadsOK, [Next]_vars, NEW s \in Yearly, NEW k \in Cycle,
           NEW m \in 1..YEARLY_DRIP_MAX, Clean(s)', <<s, k>> \notin retaken', Counted(s, k, m)
    PROVE  Counted(s, k, m)'
  <1>1. /\ s \in Sub /\ TypeOK /\ sub[s] \in Doc /\ sub'[s] \in Doc /\ now \in Nat /\ now' \in Nat
        /\ k \in Nat /\ k > 0 /\ <<s, k>> \notin retaken /\ m \in Nat
    BY Sizes, CycleNat, DocTypes, RetakenGrows, Contracts DEF Base, TypeOK, ContractsGrow
  <1>2. sub[s] \in Dripped(k, m) /\ now > CycleStart(s, k)
    BY DEF Counted
  <1>3. PICK S \in SUBSET Pile : Kept(s, Claims(k), S, Dripped(k, m))
    BY DEF Counted
  <1>4. CycleStart(s, k)' = CycleStart(s, k) /\ CycleStart(s, k) \in Nat
    <2>1. sub[s].count >= k /\ sub[s].count <= rz[s].charges /\ rz[s].charges \in Nat
      BY <1>1, <1>2, DocNats DEF Dripped, Base, ChargesOK, TypeOK
    <2>2. rz[s].charges > 0
      BY <1>1, <2>1, DocNats
    <2> QED
      BY <1>1, <2>2, CyclesFixed, CycleTimes
  <1>5. now' > CycleStart(s, k)'
    BY <1>1, <1>2, <1>4, Contracts DEF ContractsGrow
  <1>6. ASSUME NEW w \in Worker, Undoes(w), del[w].event.sub = s
        PROVE  Top(s) \notin Claims(k)
    <2>1. sub[s].count # k
      BY <1>1, <1>2, <1>6, NoUndo
    <2> QED
      BY <2>1 DEF Top, Claims
  <1>7. sub'[s] \in Dripped(k, m)
    <2>1. CASE DocKept(s)
      BY <1>1, <1>2, <2>1 DEF DocKept, Dripped
    <2>2. ASSUME NEW w \in Worker, NEW e \in awaited, ClaimCycle(w, e), e.sub = s
          PROVE  sub'[s] \in Dripped(k, m)
      <3>1. PICK j \in Cycle : j = e.count
        BY <1>1, <2>2, ClaimCounts
      <3>2. sub[s].count <= j /\ sub'[s].count = j /\ (sub[s].count = j => <<s, j>> \in retaken')
        BY <1>1, <2>2, <3>1, ClaimCounts
      <3>3. PICK i \in Nat : i = sub[s].count
        BY <1>1, DocNats
      <3>4. i >= k /\ i <= j /\ j \in Nat /\ (i = j => j # k)
        <4>1. i >= k
          BY <1>1, <1>2, <3>3 DEF Dripped
        <4>2. i <= j /\ (i = j => j # k)
          BY <3>2, <3>3
        <4> QED
          BY <4>1, <4>2, CycleNat
      <3>5. j > k
        BY <1>1, <3>3, <3>4
      <3> QED
        BY <1>1, <3>2, <3>4, <3>5 DEF Dripped
    <2>3. ASSUME NEW w \in Worker, Undoes(w), del[w].event.sub = s
          PROVE  sub'[s] \in Dripped(k, m)
      <3>1. /\ sub[s].count = del[w].event.count /\ sub[s].token = w
            /\ sub'[s].count = del[w].before.count /\ sub'[s].drips = del[w].before.drips
        BY <2>3, Undone
      <3>2. Top(s) = <<del[w].event.count, w>> /\ Top(s) \in S
        BY <1>3, <3>1 DEF Top, Kept
      <3>3. Undoer(w, s)
        BY <2>3 DEF Undoer, Undoes
      <3>4. del[w].before \in Dripped(k, m)
        BY <1>3, <1>6, <2>3, <3>2, <3>3 DEF Kept
      <3> QED
        BY <1>1, <3>1, <3>4 DEF Dripped
    <2>4. ASSUME NEW r \in Reader, TakeDrip(r), DripFree(r), read[r].sub = s
          PROVE  sub'[s] \in Dripped(k, m)
      <3>1. sub'[s].count = sub[s].count /\ sub'[s].drips = sub[s].drips + 1
        BY <2>4, Taken
      <3>2. sub[s].drips \in Nat
        BY <1>1, DocNats
      <3>3. sub[s].drips >= m => sub'[s].drips >= m
        BY <1>1, <3>1, <3>2
      <3> QED
        BY <1>1, <1>2, <3>1, <3>3 DEF Dripped
    <2> QED
      BY <1>1, <2>1, <2>2, <2>3, <2>4, DocMoves
  <1>8. \E T \in SUBSET Pile : Kept(s, Claims(k), T, Dripped(k, m))'
    <2>1. CASE ~ ClaimedNow(s)
      <3> DEFINE E == Claims(k)
                 Q == Dripped(k, m)
      <3>1. Kept(s, E, S, Q)
        BY <1>3
      <3>2. \A w \in Worker : Undoes(w) /\ del[w].event.sub = s => Top(s) \notin E
        BY <1>6
      <3>3. E' = E /\ Q' = Q
        BY DEF Claims, Dripped, Doc
      <3> HIDE DEF E, Q
      <3>4. Kept(s, E, S, Q)'
        BY <1>1, <2>1, <3>1, <3>2, <3>3, KeptStays
      <3> USE DEF E, Q
      <3> QED
        BY <3>4
    <2>2. ASSUME NEW v \in Worker, NEW d \in awaited, ClaimCycle(v, d), d.sub = s
          PROVE  \E T \in SUBSET Pile : Kept(s, Claims(k), T, Dripped(k, m))'
      <3>1. PICK j : j = d.count
        OBVIOUS
      <3>2. Kept(s, Claims(k), S \cup {<<j, v>>}, Dripped(k, m))'
        BY <1>1, <1>2, <1>3, <2>2, <3>1, KeptClaim
      <3>3. Top(d.sub) \in S /\ \A p \in S : p[1] >= 0
        <4>1. \A p \in Pile : p[1] \in 0..MaxCharges
          BY DEF Pile
        <4> QED
          BY <1>3, <2>2, <4>1, Sizes DEF Kept
      <3>4. S \cup {<<j, v>>} \in SUBSET Pile
        BY <2>2, <3>1, <3>3, ClaimAbove
      <3> QED
        BY <3>2, <3>4
    <2> QED
      BY <2>1, <2>2 DEF ClaimedNow
  <1> QED
    BY <1>5, <1>7, <1>8 DEF Counted, Dripped, Doc

\* A drip is being given because its read was giving it, or takes it now.
LEMMA SettingMoves ==
    ASSUME Base, [Next]_vars, NEW g, NEW r \in Setting(g)', r \notin Setting(g)
    PROVE  /\ TakeDrip(r) /\ DripFree(r) /\ g = <<read[r].sub, read[r].cycle, read[r].n + 1>>
           /\ read[r].sub \in Yearly
  <1>1. r \in Reader /\ read'[r].pc = "set" /\ <<read'[r].sub, read'[r].cycle, read'[r].n>> = g
    BY DEF Setting, Month
  <1>2. ReadMoved(r)
    BY <1>1, ReadsMoved
  <1>3. read'[r] # read[r]
    BY <1>1 DEF Setting, Month
  <1>4. TakeDrip(r) /\ DripFree(r) /\ g = <<read[r].sub, read[r].cycle, read[r].n + 1>>
    BY <1>1, <1>2, <1>3 DEF ReadMoved
  <1> QED
    BY <1>1, <1>4, Taken

\* A drip lands when its read gives it, which is done then.
LEMMA DripLands ==
    ASSUME Base, [Next]_vars, NEW s \in Sub, NEW k \in Cycle, NEW m \in 1..YEARLY_DRIP_MAX
    PROVE  \/ grants'[<<s, k, m>>] = grants[<<s, k, m>>]
           \/ /\ grants'[<<s, k, m>>] = grants[<<s, k, m>>] + 1
              /\ \E r \in Setting(<<s, k, m>>) : SetDrip(r) /\ r \notin Setting(<<s, k, m>>)'
  <1> DEFINE g == <<s, k, m>>
  <1>1. g \in GrantKey /\ m # 0
    BY Sizes DEF GrantKey, YEARLY_DRIP_MAX
  <1>2. Lands(g)
    BY <1>1, GrantsMove
  <1>3. \A w \in Worker : g # FirstMonth(w)
    BY <1>1 DEF FirstMonth
  <1>4. ASSUME NEW r \in Reader, SetDrip(r), g = Month(r)
        PROVE  r \in Setting(g) /\ r \notin Setting(g)'
    <2>1. r \in Setting(g)
      BY <1>4 DEF Setting, SetDrip
    <2>2. At(r, "take") \/ Rest(r)
      BY <1>4 DEF SetDrip
    <2>3. read'[r].pc # "set"
      <3>1. At(r, "take") => read'[r].pc = "take"
        BY <1>4 DEF At, Base, TypeOK
      <3>2. Rest(r) => read'[r].pc = "idle"
        BY <1>4 DEF Rest, Resting, Base, TypeOK
      <3> QED
        BY <2>2, <3>1, <3>2
    <2> QED
      BY <2>1, <2>3 DEF Setting
  <1> HIDE DEF g
  <1>5. \/ grants'[g] = grants[g]
        \/ grants'[g] = grants[g] + 1 /\ \E r \in Setting(g) : SetDrip(r) /\ r \notin Setting(g)'
    BY <1>2, <1>3, <1>4 DEF Lands
  <1> QED
    BY <1>5 DEF g

LEMMA DripOnceStep ==
    ASSUME Base, DocsOK, ReadsOK, DripOnce, [Next]_vars
    PROVE  DripOnce'
  <1>1. SUFFICES ASSUME NEW s \in Yearly, NEW k \in Cycle, NEW m \in 1..YEARLY_DRIP_MAX, NEW g,
                        g = <<s, k, m>>, Clean(s)', <<s, k>> \notin retaken'
                 PROVE  /\ grants'[g] <= 1
                        /\ Setting(g)' # {} => grants'[g] = 0
                        /\ \A q, r \in Setting(g)' : q = r
                        /\ grants'[g] > 0 \/ Setting(g)' # {} => Counted(s, k, m)'
    BY Sizes DEF DripOnce, Clean, Setting, Month
  <1>2. /\ s \in Sub /\ Clean(s) /\ <<s, k>> \notin retaken /\ k \in Nat /\ k > 0 /\ m \in Nat /\ m > 0
        /\ sub[s] \in Doc /\ sub'[s] \in Doc /\ g \in GrantKey /\ m \in 0..YEARLY_DRIP_MAX
    BY <1>1, Sizes, CleanBack, RetakenGrows, CycleNat, DocTypes DEF GrantKey, YEARLY_DRIP_MAX
  <1>3. /\ grants[g] <= 1 /\ grants[g] \in Nat /\ grants'[g] \in Nat
        /\ Setting(g) # {} => grants[g] = 0
        /\ \A q, r \in Setting(g) : q = r
        /\ grants[g] > 0 \/ Setting(g) # {} => Counted(s, k, m)
    <2>1. grants[g] \in Nat /\ grants'[g] \in Nat
      BY <1>2, BaseStep DEF Base, TypeOK
    <2> QED
      BY <1>1, <1>2, <2>1 DEF DripOnce
  <1>4. ASSUME NEW r \in Reader, TakeDrip(r), DripFree(r),
               g = <<read[r].sub, read[r].cycle, read[r].n + 1>>
        PROVE  /\ grants'[g] <= 1
               /\ Setting(g)' # {} => grants'[g] = 0
               /\ \A p, q \in Setting(g)' : p = q
               /\ grants'[g] > 0 \/ Setting(g)' # {} => Counted(s, k, m)'
    <2>1. read[r].sub = s /\ read[r].cycle = k /\ read[r].n + 1 = m
      BY <1>1, <1>4
    <2>2. sub[s].count = k /\ ReadInCycle(r, s, k)
      BY <1>2, <1>4, <2>1, TakenInCycle
    <2>3. /\ sub[s].drips = read[r].n /\ sub'[s].drips = sub[s].drips + 1
          /\ sub'[s].count = sub[s].count
      BY <1>4, <2>1, Taken
    <2>4. read[r].n \in Nat
      BY <1>2, <2>3, DocNats
    <2>5. sub[s] \notin Dripped(k, m) /\ sub'[s] \in Dripped(k, m)
      BY <1>2, <2>1, <2>2, <2>3, <2>4 DEF Dripped
    <2>6. grants[g] = 0 /\ Setting(g) = {}
      BY <1>3, <2>5 DEF Counted
    <2>7. grants' = grants /\ now' = now /\ rz' = rz
      BY <1>4 DEF TakeDrip, history, excused, razorpay
    <2>8. \A q \in Setting(g)' : q = r
      <3>1. SUFFICES ASSUME NEW q \in Setting(g)', q # r PROVE FALSE
        OBVIOUS
      <3>2. TakeDrip(q) /\ q \in Reader
        BY <2>6, <3>1, SettingMoves DEF Setting
      <3>3. read'[q].pc = "set" /\ read[q].pc = "take"
        BY <3>1, <3>2 DEF Setting, TakeDrip
      <3>4. read' = [read EXCEPT ![r] = [read[r] EXCEPT !.pc = "set", !.n = read[r].n + 1,
                                           !.nextAt = read[r].anchor + read[r].n + 2]]
        BY <1>4 DEF TakeDrip, Base, TypeOK
      <3>5. read'[q] = read[q]
        BY <3>1, <3>2, <3>4 DEF Base, TypeOK
      <3> QED
        BY <3>3, <3>5
    <2>9. now' > CycleStart(s, k)'
      BY <2>2, <2>7 DEF ReadInCycle, CycleStart, Period
    <2>10. \E S \in SUBSET Pile : Kept(s, Claims(k), S, Dripped(k, m))'
      <3>1. PICK x : x = sub'[s].token
        OBVIOUS
      <3>2. <<k, x>> \in Pile /\ <<k, x>> \in Claims(k) /\ Top(s)' = <<k, x>>
        BY <1>2, <2>2, <2>3, <3>1, Sizes DEF Pile, Claims, Top, Doc, Cycle
      <3>3. PICK S : S = {<<k, x>>}
        OBVIOUS
      <3>4. S \in SUBSET Pile /\ S \ Claims(k) = {}
        BY <3>2, <3>3
      <3>5. (S \ Claims(k))' = S \ Claims(k)
        BY DEF Claims
      <3>6. Kept(s, Claims(k), S, Dripped(k, m))'
        BY <3>2, <3>3, <3>4, <3>5 DEF Kept
      <3> QED
        BY <3>4, <3>6
    <2>11. Counted(s, k, m)'
      BY <2>5, <2>9, <2>10 DEF Counted, Dripped, Doc
    <2> QED
      BY <1>3, <2>6, <2>7, <2>8, <2>11
  <1>5. ASSUME \A r \in Reader : ~ (/\ TakeDrip(r) /\ DripFree(r)
                                    /\ g = <<read[r].sub, read[r].cycle, read[r].n + 1>>)
        PROVE  /\ grants'[g] <= 1
               /\ Setting(g)' # {} => grants'[g] = 0
               /\ \A p, q \in Setting(g)' : p = q
               /\ grants'[g] > 0 \/ Setting(g)' # {} => Counted(s, k, m)'
    <2>1. Setting(g)' \subseteq Setting(g)
      <3>1. SUFFICES ASSUME NEW q \in Setting(g)', q \notin Setting(g) PROVE FALSE
        OBVIOUS
      <3> QED
        BY <1>5, <3>1, SettingMoves DEF Setting
    <2>2. Counted(s, k, m) => Counted(s, k, m)'
      BY <1>1, CountedStays
    <2>3. CASE grants'[g] = grants[g]
      BY <1>3, <2>1, <2>2, <2>3
    <2>4. ASSUME NEW r \in Setting(g), r \notin Setting(g)', grants'[g] = grants[g] + 1
          PROVE  grants'[g] = 1 /\ Setting(g)' = {}
      BY <1>3, <2>1, <2>4
    <2>5. \/ grants'[g] = grants[g]
          \/ /\ grants'[g] = grants[g] + 1
             /\ \E r \in Setting(g) : r \notin Setting(g)'
      BY <1>1, <1>2, DripLands
    <2> QED
      BY <1>3, <2>1, <2>2, <2>3, <2>4, <2>5
  <1> QED
    BY <1>4, <1>5

\* A monthly subscription has no drips.
MonthlyNone ==
    \A s \in Sub \ Yearly :
        sub[s].drips = 0 /\ \A k \in Cycle, m \in 1..YEARLY_DRIP_MAX : grants[<<s, k, m>>] = 0

LEMMA MonthlyStep ==
    ASSUME Base, MonthlyNone, [Next]_vars
    PROVE  MonthlyNone'
  <1>1. SUFFICES ASSUME NEW s \in Sub \ Yearly
                 PROVE  /\ sub'[s].drips = 0
                        /\ \A k \in Cycle, m \in 1..YEARLY_DRIP_MAX : grants'[<<s, k, m>>] = 0
    BY DEF MonthlyNone
  <1>2. /\ sub[s].drips = 0
        /\ \A k \in Cycle, m \in 1..YEARLY_DRIP_MAX : grants[<<s, k, m>>] = 0
    BY DEF MonthlyNone
  <1>3. sub'[s].drips = 0
    <2>1. ASSUME NEW w \in Worker, NEW e \in awaited, ClaimCycle(w, e), e.sub = s
          PROVE  sub'[s].drips = 0
      <3>1. sub'[e.sub] = Charged(w, e.sub, e.count)
        BY <2>1, ClaimDoc
      <3> QED
        BY <1>1, <1>2, <2>1, <3>1 DEF Charged
    <2>2. ASSUME NEW w \in Worker, Undoes(w), del[w].event.sub = s PROVE sub'[s].drips = 0
      <3>1. sub'[s].drips = sub[s].drips
        BY <1>1, <2>2, Undone
      <3> QED
        BY <1>2, <3>1
    <2>3. \A r \in Reader : ~ (TakeDrip(r) /\ DripFree(r) /\ read[r].sub = s)
      BY <1>1, Taken
    <2>4. DocKept(s) => sub'[s].drips = 0
      BY <1>2 DEF DocKept
    <2> QED
      BY <2>1, <2>2, <2>3, <2>4, DocMoves
  <1>4. ASSUME NEW k \in Cycle, NEW m \in 1..YEARLY_DRIP_MAX PROVE grants'[<<s, k, m>>] = 0
    <2>1. SUFFICES ASSUME NEW r \in Setting(<<s, k, m>>) PROVE FALSE
      BY <1>2, DripLands
    <2>2. read[r].sub = s /\ read[r].pc = "set" /\ r \in Reader
      BY <2>1 DEF Setting, Month
    <2> QED
      BY <1>1, <2>2 DEF Base, ReaderOK
  <1> QED
    BY <1>3, <1>4

\* A drip the document counts was granted, is being granted or was lost.
Met(g) == grants[g] > 0 \/ g \in lost \/ Setting(g) # {}

Accounted(s, d) == d.count > 0 => \A m \in 1..d.drips : Met(<<s, d.count, m>>)

AccountsOK ==
    \A s \in Yearly : Clean(s) =>
        /\ Accounted(s, sub[s])
        /\ \A w \in Worker : Live(w) /\ del[w].event.sub = s => Accounted(s, del[w].before)

LEMMA LostGrows ==
    ASSUME [Next]_vars
    PROVE  lost \subseteq lost'
  BY StepKinds DEF vars, World, Subscribe, ExpireLapsed, Charge, Resume, GoesStale, Halt, Finish,
     Tick, ApplyStatus, ClaimCycle, LoseClaim, SaveExpired, HandlerStep, LookForOthers, Downgrade,
     ZeroInk, PendingElsewhere, Grant, Rollback, Mark, Die, GrantThrows, UpdateThrows, ReadStep,
     ReadPlan, ReadEnded, ReadCurrent, TakePlan, TakeDrip, SetDrip, ReadStops, history, excused

LEMMA MetStays ==
    ASSUME Base, [Next]_vars, NEW g \in GrantKey, Met(g)
    PROVE  Met(g)'
  <1>1. CASE grants[g] > 0
    <2>1. grants[g] \in Nat
      BY DEF Base, TypeOK
    <2>2. grants'[g] > 0
      BY <1>1, <2>1, GrantsMove DEF Lands
    <2> QED
      BY <2>2 DEF Met
  <1>2. CASE g \in lost
    BY <1>2, LostGrows DEF Met
  <1>3. ASSUME NEW r \in Setting(g) PROVE Met(g)'
    <2>1. r \in Reader /\ read[r].pc = "set" /\ Month(r) = g
      BY <1>3 DEF Setting
    <2>2. CASE SetDrip(r)
      <3>1. grants[g] \in Nat
        BY DEF Base, TypeOK
      <3>2. grants'[g] = grants[g] + 1
        BY <2>1, <2>2 DEF SetDrip, Base, TypeOK
      <3> QED
        BY <3>1, <3>2 DEF Met
    <2>3. CASE ReadStops(r)
      BY <2>1, <2>3 DEF ReadStops, Met
    <2>4. CASE ~ (ReadStep(r) \/ ReadStops(r))
      <3>1. read'[r] = read[r]
        BY <2>1, <2>4, OtherReads
      <3> QED
        BY <2>1, <3>1 DEF Met, Setting, Month
    <2>5. ReadStep(r) => SetDrip(r)
      BY <2>1 DEF ReadStep, ReadPlan, Idle, Resting, ReadEnded, ReadCurrent, TakePlan, TakeDrip
    <2> QED
      BY <2>2, <2>3, <2>4, <2>5
  <1> QED
    BY <1>1, <1>2, <1>3 DEF Met

LEMMA AccountedStays ==
    ASSUME Base, [Next]_vars, NEW s \in Sub, NEW d \in Doc, NEW c, NEW n, Accounted(s, d),
           c = d.count, n = d.drips, c > 0, NEW m \in 1..n
    PROVE  Met(<<s, c, m>>)'
  <1>1. c \in Cycle /\ n \in 0..YEARLY_DRIP_MAX
    BY Sizes DEF Doc, Cycle
  <1>2. m \in 0..YEARLY_DRIP_MAX
    BY <1>1, Sizes DEF YEARLY_DRIP_MAX
  <1>3. <<s, c, m>> \in GrantKey
    BY <1>1, <1>2 DEF GrantKey
  <1>4. Met(<<s, c, m>>)
    BY DEF Accounted
  <1> QED
    BY <1>3, <1>4, MetStays

LEMMA AccountsStep ==
    ASSUME Base, DocsOK, ReadsOK, AccountsOK, [Next]_vars
    PROVE  AccountsOK'
  <1>1. SUFFICES ASSUME NEW s \in Yearly, Clean(s)'
                 PROVE  /\ Accounted(s, sub[s])'
                        /\ \A w \in Worker : Live(w)' /\ del'[w].event.sub = s
                                                => Accounted(s, del[w].before)'
    BY DEF AccountsOK, Clean
  <1>2. s \in Sub /\ Clean(s) /\ sub[s] \in Doc /\ sub'[s] \in Doc
    BY <1>1, Sizes, CleanBack, DocTypes
  <1>3. /\ Accounted(s, sub[s])
        /\ \A w \in Worker : Live(w) /\ del[w].event.sub = s => Accounted(s, del[w].before)
    BY <1>2 DEF AccountsOK
  <1>4. ASSUME NEW d \in Doc, Accounted(s, d), sub'[s].count = d.count, sub'[s].drips = d.drips
        PROVE  Accounted(s, sub[s])'
    <2>1. \A m \in 1..d.drips : d.count > 0 => Met(<<s, d.count, m>>)'
      BY <1>2, <1>4, AccountedStays
    <2> QED
      BY <1>4, <2>1 DEF Accounted, Met, Setting, Month
  <1>5. ASSUME NEW d \in Doc, Accounted(s, d), NEW w \in Worker, del'[w].before = d
        PROVE  Accounted(s, del[w].before)'
    <2>1. \A m \in 1..d.drips : d.count > 0 => Met(<<s, d.count, m>>)'
      BY <1>2, <1>5, AccountedStays
    <2> QED
      BY <1>5, <2>1 DEF Accounted, Met, Setting, Month
  <1>6. Accounted(s, sub[s])'
    <2>1. CASE DocKept(s)
      BY <1>2, <1>3, <1>4, <2>1 DEF DocKept
    <2>2. ASSUME NEW w \in Worker, NEW e \in awaited, ClaimCycle(w, e), e.sub = s
          PROVE  Accounted(s, sub[s])'
      <3>1. sub'[s].drips = 0
        <4>1. sub'[e.sub] = Charged(w, e.sub, e.count)
          BY <2>2, ClaimDoc
        <4> QED
          BY <2>2, <4>1 DEF Charged
      <3> QED
        BY <3>1 DEF Accounted
    <2>3. ASSUME NEW w \in Worker, Undoes(w), del[w].event.sub = s PROVE Accounted(s, sub[s])'
      <3>1. /\ Live(w) /\ del[w].before \in Doc /\ sub'[s].count = del[w].before.count
            /\ sub'[s].drips = del[w].before.drips
        BY <2>3, Undone
      <3> QED
        BY <1>3, <1>4, <2>3, <3>1
    <2>4. ASSUME NEW r \in Reader, TakeDrip(r), DripFree(r), read[r].sub = s
          PROVE  Accounted(s, sub[s])'
      <3>1. sub[s].count = read[r].cycle /\ read[r].cycle \in Cycle
        BY <1>2, <2>4, TakenInCycle
      <3>2. /\ sub[s].drips = read[r].n /\ sub'[s].drips = sub[s].drips + 1
            /\ sub'[s].count = sub[s].count
        BY <2>4, Taken
      <3>3. PICK c, n : c = sub[s].count /\ n = sub[s].drips
        OBVIOUS
      <3>4. n \in Nat /\ c > 0
        BY <1>2, <3>1, <3>3, DocNats, CycleNat
      <3>5. ASSUME NEW m \in 1..n PROVE Met(<<s, c, m>>)'
        BY <1>2, <1>3, <3>3, <3>4, <3>5, AccountedStays
      <3>6. Met(<<s, c, n + 1>>)'
        <4>1. read' = [read EXCEPT ![r] = [read[r] EXCEPT !.pc = "set", !.n = read[r].n + 1,
                                             !.nextAt = read[r].anchor + read[r].n + 2]]
          BY <2>4 DEF TakeDrip, Base, TypeOK
        <4>2. read'[r] = [read[r] EXCEPT !.pc = "set", !.n = read[r].n + 1,
                                         !.nextAt = read[r].anchor + read[r].n + 2]
          BY <4>1 DEF Base, TypeOK
        <4>3. read[r] \in Reading
          BY DEF Base, TypeOK
        <4>4. /\ read'[r].pc = "set" /\ read'[r].sub = s /\ read'[r].cycle = c
              /\ read'[r].n = n + 1
          BY <2>4, <3>1, <3>2, <3>3, <4>2, <4>3 DEF Reading
        <4>5. r \in Setting(<<s, c, n + 1>>)'
          BY <4>4 DEF Setting, Month
        <4> QED
          BY <4>5 DEF Met
      <3>7. sub'[s].count = c /\ sub'[s].drips = n + 1
        BY <3>2, <3>3
      <3>8. \A m \in 1..n + 1 : m \in 1..n \/ m = n + 1
        BY <3>4
      <3>9. \A m \in 1..n + 1 : Met(<<s, c, m>>)'
        BY <3>5, <3>6, <3>8 DEF Met, Setting, Month
      <3> QED
        BY <3>7, <3>9 DEF Accounted, Met, Setting, Month
    <2> QED
      BY <1>2, <2>1, <2>2, <2>3, <2>4, DocMoves
  <1>7. ASSUME NEW w \in Worker, Live(w)', del'[w].event.sub = s
        PROVE  Accounted(s, del[w].before)'
    <2>1. CASE Live(w) /\ del'[w].event = del[w].event /\ del'[w].before = del[w].before
      <3>1. del[w].before \in Doc
        BY DEF Base, TypeOK
      <3> QED
        BY <1>3, <1>5, <1>7, <2>1, <3>1
    <2>2. ASSUME NEW e \in awaited, ClaimCycle(w, e) PROVE Accounted(s, del[w].before)'
      <3>1. del'[w].before = sub[s]
        BY <1>7, <2>2, ClaimPlace
      <3> QED
        BY <1>2, <1>3, <1>5, <3>1
    <2> QED
      BY <1>7, <2>1, <2>2, LiveMoves
  <1> QED
    BY <1>6, <1>7

-----------------------------------------------------------------------------
(* The whole invariant of the grants. *)

Drips ==
    /\ PaidEnd /\ DocsOK /\ BackInTime /\ ReadsOK
    /\ DripOnce /\ MonthlyNone /\ AccountsOK

LEMMA DripsInit == Init => Drips
  <1> SUFFICES ASSUME Init PROVE Drips
    OBVIOUS
  <1>1. \A s \in Sub : sub[s] = NoDoc /\ sub[s].count = 0 /\ sub[s].drips = 0 /\ sub[s].paidThrough = 0
    BY DEF Init, NoDoc, None
  <1>2. \A w \in Worker : ~ Live(w)
    BY DEF Init, Quiet, Live
  <1>3. \A r \in Reader : read[r].pc = "idle"
    BY DEF Init, Resting
  <1>4. \A s \in Sub, k \in Cycle, m \in 0..YEARLY_DRIP_MAX : grants[<<s, k, m>>] = 0
    BY DEF Init, GrantKey
  <1>5. \A g : Setting(g) = {}
    BY <1>3 DEF Setting
  <1>6. PaidEnd
    BY <1>1 DEF PaidEnd
  <1>7. DocsOK
    BY <1>1, <1>2, Sizes DEF DocsOK, OfCycle
  <1>8. BackInTime
    BY DEF BackInTime, Waiting, Init
  <1>9. ReadsOK
    BY <1>3 DEF ReadsOK
  <1>10. \A m \in 1..YEARLY_DRIP_MAX : m \in 0..YEARLY_DRIP_MAX
    BY Sizes DEF YEARLY_DRIP_MAX
  <1>11. DripOnce
    <2>1. ASSUME NEW s \in Yearly, NEW k \in Cycle, NEW m \in 1..YEARLY_DRIP_MAX
          PROVE  grants[<<s, k, m>>] = 0 /\ Setting(<<s, k, m>>) = {}
      <3>1. s \in Sub
        BY Sizes
      <3> QED
        BY <1>4, <1>5, <1>10, <2>1, <3>1
    <2> QED
      BY <2>1 DEF DripOnce
  <1>12. MonthlyNone
    BY <1>1, <1>4, <1>10 DEF MonthlyNone
  <1>13. AccountsOK
    <2>1. ASSUME NEW s \in Yearly PROVE Accounted(s, sub[s])
      <3>1. s \in Sub
        BY Sizes
      <3>2. ~ (sub[s].count > 0)
        BY <1>1, <3>1
      <3> QED
        BY <3>2 DEF Accounted
    <2> QED
      BY <1>2, <2>1 DEF AccountsOK
  <1> QED
    BY <1>6, <1>7, <1>8, <1>9, <1>11, <1>12, <1>13 DEF Drips

LEMMA DripsStep == Firsts /\ Drips /\ [Next]_vars => Drips'
  BY PaidStep, DocsStep, BackStep, ReadsStep, DripOnceStep, MonthlyStep, AccountsStep
     DEF Drips, Firsts

\* The inductive invariant of the grants.
THEOREM AlwaysDrips == Spec => [](Firsts /\ Drips)
  <1>1. Init => Firsts /\ Drips
    BY FirstsInit, DripsInit
  <1>2. Firsts /\ Drips /\ [Next]_vars => (Firsts /\ Drips)'
    BY FirstsStep, DripsStep
  <1> QED
    BY <1>1, <1>2, PTL DEF Spec

LEMMA OnceFollows == Firsts /\ Drips => OncePerMonth
  <1>1. SUFFICES ASSUME Firsts, Drips, NEW s \in Sub, NEW k \in Cycle,
                        NEW m \in 0..YEARLY_DRIP_MAX, grants[<<s, k, m>>] > 1, <<s, k>> \notin retaken
                 PROVE  \/ m = 0 /\ <<s, k>> \in doubt
                        \/ m > 0 /\ \E c \in Cycle : <<s, c>> \in undone
    BY DEF OncePerMonth, GrantKey
  <1>2. CASE m = 0
    <2>1. grants[<<s, k, 0>>] \in Nat
      BY <1>1, <1>2 DEF Firsts, Base, TypeOK, GrantKey
    <2> QED
      BY <1>1, <1>2, <2>1 DEF Firsts, FirstOnce
  <1>3. CASE m > 0
    <2>1. m \in 1..YEARLY_DRIP_MAX /\ grants[<<s, k, m>>] \in Nat
      BY <1>1, <1>3, Sizes DEF YEARLY_DRIP_MAX, Firsts, Base, TypeOK, GrantKey
    <2>2. s \in Yearly
      BY <1>1, <2>1 DEF Drips, MonthlyNone
    <2>3. ~ Clean(s)
      BY <1>1, <2>1, <2>2 DEF Drips, DripOnce
    <2> QED
      BY <1>3, <2>3 DEF Clean
  <1>4. m = 0 \/ m > 0
    BY Sizes DEF YEARLY_DRIP_MAX
  <1> QED
    BY <1>2, <1>3, <1>4

\* Whatever deliveries and reads race, throw, die and go stale: a month's Ink is
\* granted once, again only for a cycle claimed again or in doubt (the claim's filter,
\* the compare-and-set of the drip), and a cycle granted twice is reported.
THEOREM GrantsRight == Spec => []GrantsOK
  <1>1. Firsts /\ Drips => GrantsOK
    BY OnceFollows, DoubleFollows DEF GrantsOK, Firsts, Base
  <1> QED
    BY <1>1, AlwaysDrips, PTL

LEMMA AccountsFollow == Firsts /\ Drips => MonthsAccounted
  <1>1. SUFFICES ASSUME Firsts, Drips, NEW s \in Sub, sub[s].count > 0, Clean(s),
                        NEW m \in 1..sub[s].drips, NEW g, g = <<s, sub[s].count, m>>
                 PROVE  grants[g] > 0 \/ g \in lost \/ \E r \in Reader : read[r].pc = "set" /\ Month(r) = g
    BY DEF MonthsAccounted, Clean
  <1>2. s \in Yearly
    <2>1. s \notin Yearly => sub[s].drips = 0
      BY <1>1 DEF Drips, MonthlyNone
    <2> QED
      BY <1>1, <2>1
  <1> QED
    BY <1>1, <1>2 DEF Drips, AccountsOK, Accounted, Met, Setting

\* Every drip a document counts in its cycle was granted to it, is being granted or
\* was lost by a read that stopped: no renewal, undo or takeover makes the count speak
\* of another cycle's drips (the claim's reset and restoreClaim).
THEOREM MonthsRight == Spec => []MonthsAccounted
  BY AccountsFollow, AlwaysDrips, PTL

-----------------------------------------------------------------------------
(* The plan of a user with a cycle paid for: who answers for a charge, how long it  *)
(* waits, and what its grant leaves on the document.                                *)

\* An event is answered by its update, or by the delivery that has it, which is over.
LEMMA Answered ==
    ASSUME Base, [Next]_vars, NEW e \in awaited, e \notin awaited'
    PROVE  \/ ApplyStatus(e)
           \/ \E w \in Worker : /\ del[w].event = e /\ del'[w] = Quiet /\ del[w].pc # "idle"
                                /\ del[w].pc = "elsewhere" => PendingElsewhere(w)
                                /\ Live(w) => Ends(w)
  <1>1. ASSUME World PROVE FALSE
    BY <1>1 DEF World, Subscribe, ExpireLapsed, Charge, Resume, GoesStale, Halt, Finish, Tick, Send
  <1>2. ASSUME NEW d \in awaited,
               \/ ApplyStatus(d)
               \/ \E w \in Worker : ClaimCycle(w, d) \/ LoseClaim(w, d) \/ SaveExpired(w, d)
        PROVE  ApplyStatus(e)
    BY <1>2 DEF ApplyStatus, Answer, ClaimCycle, LoseClaim, SaveExpired
  <1>3. ASSUME NEW w \in Worker,
               \/ HandlerStep(w) \/ Die(w)
               \/ \E landed \in BOOLEAN : GrantThrows(w, landed) \/ UpdateThrows(w, landed)
        PROVE  /\ del[w].event = e /\ del'[w] = Quiet /\ del[w].pc # "idle"
               /\ del[w].pc = "elsewhere" => PendingElsewhere(w)
               /\ Live(w) => Ends(w)
    <2>1. /\ awaited' = awaited \ {del[w].event} /\ del' = [del EXCEPT ![w] = Quiet]
          /\ del[w].pc # "idle" /\ (del[w].pc = "elsewhere" => PendingElsewhere(w))
      <3>1. CASE LookForOthers(w) \/ Downgrade(w) \/ ZeroInk(w) \/ PendingElsewhere(w)
        BY <3>1 DEF LookForOthers, Downgrade, ZeroInk, PendingElsewhere, Done, Answer, Fails,
                    Stays, Goto
      <3>2. CASE Grant(w) \/ Rollback(w) \/ Mark(w) \/ Die(w)
        BY <3>2 DEF Grant, Rollback, Mark, Die, Done, Answer, Fails, Goto
      <3>3. ASSUME NEW landed \in BOOLEAN, GrantThrows(w, landed) PROVE FALSE
        BY <3>3 DEF GrantThrows, Goto
      <3>4. ASSUME NEW landed \in BOOLEAN, UpdateThrows(w, landed)
            PROVE  /\ awaited' = awaited \ {del[w].event} /\ del' = [del EXCEPT ![w] = Quiet]
                   /\ del[w].pc = "mark"
        BY <3>4 DEF UpdateThrows, Acknowledged, Fails
      <3> QED
        BY <1>3, <3>1, <3>2, <3>3, <3>4 DEF HandlerStep
    <2>2. del'[w] = Quiet
      BY <2>1 DEF Base, TypeOK
    <2>3. del[w].event = e
      BY <2>1
    <2>4. ASSUME Live(w) PROVE Ends(w)
      <3>1. Others => FALSE
        <4>1. Others => Live(w)'
          BY <2>4 DEF Others, LiveKept
        <4>2. ~ Live(w)'
          BY <2>2 DEF Live, Quiet
        <4> QED
          BY <4>1, <4>2
      <3>2. Undoes(w) => FALSE
        BY DEF Undoes
      <3>3. Grant(w) => FALSE
        BY DEF Grant, Goto
      <3>4. (\E landed \in BOOLEAN : GrantThrows(w, landed)) => FALSE
        BY DEF GrantThrows, Goto
      <3> QED
        BY <1>3, <3>1, <3>2, <3>3, <3>4, HandlerMoves
    <2> QED
      BY <2>1, <2>2, <2>3, <2>4
  <1>4. ASSUME NEW r \in Reader, ReadStep(r) \/ ReadStops(r) PROVE FALSE
    BY <1>4 DEF ReadStep, ReadPlan, ReadEnded, ReadCurrent, TakePlan, TakeDrip, SetDrip, ReadStops
  <1>5. UNCHANGED vars => FALSE
    BY DEF vars
  <1> QED
    BY <1>1, <1>2, <1>3, <1>4, <1>5, StepKinds

\* A charge waits for its delivery within its cycle.
EventTime ==
    \A s \in Sub, k \in Cycle : Waiting(s, k) => now \in CycleStart(s, k)..CycleEnd(s, k)

LEMMA WaitingCharged ==
    ASSUME Base, NEW s \in Sub, NEW k \in Cycle, Waiting(s, k)
    PROVE  rz[s].charges > 0 /\ k <= rz[s].charges /\ rz[s].charges \in Nat
  <1>1. PICK e \in awaited : e.sub = s /\ e.count = k
    BY DEF Waiting
  <1>2. k <= rz[s].charges /\ rz[s].charges \in Nat
    BY <1>1 DEF Base, EventsOK, TypeOK
  <1> QED
    BY <1>2, CycleNat

LEMMA EventTimeStep ==
    ASSUME Base, EventTime, [Next]_vars
    PROVE  EventTime'
  <1>1. SUFFICES ASSUME NEW s \in Sub, NEW k \in Cycle, Waiting(s, k)'
                 PROVE  now' \in CycleStart(s, k)'..CycleEnd(s, k)'
    BY DEF EventTime
  <1>2. now' = now
    BY <1>1, NowMoves DEF Waiting
  <1>3. CASE ~ Waiting(s, k)
    BY <1>1, <1>2, <1>3, WaitingMoves
  <1>4. CASE Waiting(s, k)
    <2>1. now \in CycleStart(s, k)..CycleEnd(s, k)
      BY <1>4 DEF EventTime
    <2>2. CycleStart(s, k)' = CycleStart(s, k) /\ CycleEnd(s, k)' = CycleEnd(s, k)
      BY <1>4, WaitingCharged, CyclesFixed
    <2> QED
      BY <1>2, <2>1, <2>2
  <1> QED
    BY <1>3, <1>4

LEMMA LiveCount ==
    ASSUME ClaimStays, NEW w \in Worker, NEW s \in Sub, NEW k \in Cycle, OnCycle(w, s, k)
    PROVE  sub[s].count >= k
  <1>1. PICK S \in SUBSET Pile : ClaimPile(w, s, k, S)
    BY DEF ClaimStays
  <1> QED
    BY <1>1 DEF ClaimPile, Kept, Top

\* A document at a cycle, or past it, is paid past its end.
LEMMA PaidAbove ==
    ASSUME Base, PaidEnd, NEW s \in Sub, NEW k \in Cycle, sub[s].count >= k
    PROVE  sub[s].paidThrough >= CycleEnd(s, k)
  <1>1. sub[s] \in Doc /\ k \in Nat /\ k > 0 /\ TypeOK
    BY CycleNat DEF Base, TypeOK
  <1>2. PICK c \in Nat : c = sub[s].count
    BY <1>1, DocNats
  <1>3. sub[s].paidThrough >= CycleEnd(s, c) /\ sub[s].paidThrough \in Nat
    BY <1>1, <1>2, DocNats DEF PaidEnd
  <1>4. CycleEnd(s, k) <= CycleEnd(s, c) /\ CycleEnd(s, k) \in Nat /\ CycleEnd(s, c) \in Nat
    BY <1>1, <1>2, CycleTimes
  <1> QED
    BY <1>3, <1>4

\* A charge is answered for good when its cycle is granted, or passed; else by a
\* delivery that found it claimed, which a claim undone since has dropped.
LEMMA WaitingEnds ==
    ASSUME Base, ClaimStays, [Next]_vars, NEW s \in Sub, NEW k \in Cycle,
           Waiting(s, k), ~ Waiting(s, k)', <<s, k>> \notin dropped'
    PROVE  sub[s].count >= k /\ DocKept(s)
  <1>1. PICK e \in awaited : ChargeEvent(e) /\ e.sub = s /\ e.count = k
    BY DEF Waiting
  <1>2. e \notin awaited'
    BY <1>1 DEF Waiting, ChargeEvent
  <1>3. ~ ApplyStatus(e)
    BY <1>1 DEF ApplyStatus, ChargeEvent, Stopped
  <1>4. PICK w \in Worker : /\ del[w].event = e /\ del[w].pc # "idle"
                            /\ del[w].pc = "elsewhere" => PendingElsewhere(w)
                            /\ Live(w) => Ends(w)
    BY <1>2, <1>3, Answered
  <1>5. CycleOf(w) = <<s, k>>
    BY <1>1, <1>4 DEF CycleOf
  <1>6. del[w].pc = "elsewhere" \/ Live(w)
    <2>1. del[w].pc \notin {"others", "downgrade", "zero"}
      BY <1>1, <1>4 DEF Base, WorkerOK, ChargeEvent
    <2>2. del[w].pc \in {"idle", "others", "downgrade", "zero", "elsewhere", "grant", "mark",
                         "rollback"}
      BY DEF Base, TypeOK
    <2> QED
      BY <1>4, <2>1, <2>2 DEF Live
  <1>7. CASE Live(w)
    <2>1. DocKept(s)
      BY <1>4, <1>7 DEF Ends, DocsKept
    <2>2. OnCycle(w, s, k)
      BY <1>5, <1>7 DEF OnCycle
    <2> QED
      BY <2>1, <2>2, LiveCount
  <1>8. CASE del[w].pc = "elsewhere"
    <2>1. sub' = sub /\ rz' = rz /\ dropped' = dropped \cup Drops(w)
      BY <1>4, <1>8 DEF PendingElsewhere, razorpay
    <2>2. DocKept(s)
      BY <2>1 DEF DocKept
    <2>3. k <= rz'[s].charges
      BY <2>1, WaitingCharged
    <2>4. ASSUME ~ (sub[s].count >= k) PROVE FALSE
      <3>1. Forgotten(s, k)'
        BY <2>1, <2>3, <2>4 DEF Forgotten
      <3>2. <<s, k>> \in Drops(w)
        BY <1>5, <3>1 DEF Drops
      <3> QED
        BY <2>1, <3>2
    <2> QED
      BY <2>2, <2>4
  <1> QED
    BY <1>6, <1>7, <1>8

Got(s, k) == grants[<<s, k, 0>>] > 0

\* A first month lands by the delivery that has its cycle.
LEMMA GotMoves ==
    ASSUME Base, [Next]_vars, NEW s \in Sub, NEW k \in Cycle, Got(s, k)', ~ Got(s, k)
    PROVE  \E w \in Worker : /\ OnCycle(w, s, k) /\ del[w].pc = "grant"
                             /\ sub' = sub /\ Racing(w) \subseteq raced' /\ CycleOf(w) = <<s, k>>
  <1> DEFINE g == <<s, k, 0>>
  <1>1. g \in GrantKey /\ grants'[g] # grants[g]
    BY Sizes DEF GrantKey, YEARLY_DRIP_MAX, Got
  <1>2. ASSUME grants' = grants PROVE FALSE
    BY <1>1, <1>2
  <1>3. ASSUME NEW w \in Worker, Grant(w) \/ \E landed \in BOOLEAN : GrantThrows(w, landed)
        PROVE  /\ del[w].pc = "grant" /\ sub' = sub /\ Racing(w) \subseteq raced'
               /\ grants' = [grants EXCEPT ![FirstMonth(w)] = @ + 1]
    BY <1>2, <1>3 DEF Grant, GrantThrows
  <1>4. ASSUME NEW w \in Worker, Grant(w) \/ \E landed \in BOOLEAN : GrantThrows(w, landed)
        PROVE  /\ OnCycle(w, s, k) /\ del[w].pc = "grant" /\ sub' = sub
               /\ Racing(w) \subseteq raced' /\ CycleOf(w) = <<s, k>>
    <2>1. g = FirstMonth(w)
      <3> HIDE DEF g
      <3> QED
        BY <1>1, <1>3, <1>4 DEF Base, TypeOK
    <2> QED
      BY <1>3, <1>4, <2>1 DEF FirstMonth, OnCycle, CycleOf, Live
  <1>5. ASSUME NEW w \in Worker, (\E e \in awaited : ClaimCycle(w, e)) \/ Undoes(w) \/ Ends(w)
        PROVE  FALSE
    BY <1>2, <1>5 DEF ClaimCycle, Undoes, Ends
  <1>6. ASSUME NEW r \in Reader, TakeDrip(r) PROVE FALSE
    BY <1>2, <1>6 DEF TakeDrip, history
  <1>7. ASSUME NEW r \in Reader, SetDrip(r) PROVE FALSE
    <2>1. grants' = [grants EXCEPT ![Month(r)] = @ + 1] /\ read[r].n > 0
      BY <1>7 DEF SetDrip, Base, ReaderOK
    <2>2. g # Month(r)
      BY <2>1 DEF Month
    <2> HIDE DEF g
    <2> QED
      BY <1>1, <2>1, <2>2 DEF Base, TypeOK
  <1>8. ~ Others
    BY <1>2 DEF Others
  <1> QED
    BY <1>4, <1>5, <1>6, <1>7, <1>8, Moves

\* What is granted was charged, so its times are fixed.
LEMMA GotCharged ==
    ASSUME Base, NEW s \in Sub, NEW k \in Cycle, Got(s, k)
    PROVE  k <= rz[s].charges /\ rz[s].charges > 0
  <1>1. k \in Nat /\ k > 0 /\ rz[s].charges \in Nat
    BY CycleNat DEF Base, TypeOK
  <1>2. k <= rz[s].charges
    BY Sizes DEF Got, Base, ChargesOK
  <1> QED
    BY <1>1, <1>2

\* Answered for while no claim of it stood.
Gone(s, k) == <<s, k>> \in dropped \cup stranded

\* The document leaves a cycle that is granted and answered for, only by an undo.
LEMMA CountFalls ==
    ASSUME Base, [Next]_vars, NEW s \in Sub, NEW k \in Cycle, sub[s].count >= k,
           ~ (sub'[s].count >= k)
    PROVE  \E w \in Worker : Undoes(w) /\ del[w].event.sub = s
  <1>1. sub[s] \in Doc /\ sub'[s] \in Doc /\ k \in Nat
    BY DocTypes, CycleNat
  <1>2. ~ DocKept(s)
    BY DEF DocKept
  <1>3. ASSUME NEW w \in Worker, NEW e \in awaited, ClaimCycle(w, e), e.sub = s PROVE FALSE
    <2>1. sub[s].count <= e.count /\ sub'[s].count = e.count
      BY <1>3, ClaimCounts
    <2> QED
      BY <1>1, <2>1, DocNats
  <1>4. ASSUME NEW r \in Reader, TakeDrip(r), DripFree(r), read[r].sub = s PROVE FALSE
    BY <1>4, Taken
  <1> QED
    BY <1>2, <1>3, <1>4, DocMoves

\* A cycle granted, and answered for while its claim stood, is the document's or an
\* earlier one.
GotSeen ==
    \A s \in Sub, k \in Cycle :
        Got(s, k) /\ ~ Waiting(s, k) /\ ~ Gone(s, k) => sub[s].count >= k

LEMMA GotSeenStep ==
    ASSUME Base, ClaimStays, GotSeen, [Next]_vars
    PROVE  GotSeen'
  <1>1. SUFFICES ASSUME NEW s \in Sub, NEW k \in Cycle, Got(s, k)', ~ Waiting(s, k)', ~ Gone(s, k)',
                        ~ (sub'[s].count >= k)
                 PROVE  FALSE
    BY DEF GotSeen
  <1>2. ~ Gone(s, k) /\ <<s, k>> \notin dropped' /\ <<s, k>> \notin stranded'
    BY <1>1, DoubtGrows DEF Gone, HistoryGrows
  <1>3. Got(s, k)
    <2>1. SUFFICES ASSUME ~ Got(s, k) PROVE FALSE
      OBVIOUS
    <2>2. PICK w \in Worker : OnCycle(w, s, k) /\ sub' = sub
      BY <1>1, <2>1, GotMoves
    <2> QED
      BY <1>1, <2>2, LiveCount
  <1>4. ~ Waiting(s, k)
    <2>1. SUFFICES ASSUME Waiting(s, k) PROVE FALSE
      OBVIOUS
    <2>2. sub[s].count >= k /\ DocKept(s)
      BY <1>1, <1>2, <2>1, WaitingEnds
    <2> QED
      BY <1>1, <2>2 DEF DocKept
  <1>5. sub[s].count >= k
    BY <1>2, <1>3, <1>4 DEF GotSeen
  <1>6. PICK w \in Worker : Undoes(w) /\ del[w].event.sub = s
    BY <1>1, <1>5, CountFalls
  <1>7. rz' = rz /\ Strands(w) \subseteq stranded'
    BY <1>6 DEF Undoes, razorpay
  <1>8. Forgotten(s, k)'
    BY <1>1, <1>3, <1>7, GotCharged DEF Forgotten
  <1>9. <<s, k>> \in Strands(w)
    BY <1>6, <1>8 DEF Strands
  <1> QED
    BY <1>2, <1>7, <1>9

\* A claim writes the end of its cycle; nothing else writes a paid period.
LEMMA ClaimPays ==
    ASSUME Base, NEW w \in Worker, NEW e \in awaited, ClaimCycle(w, e), NEW s \in Sub, s = e.sub
    PROVE  /\ sub'[s].paidThrough = CycleEnd(s, e.count)
           /\ \A k : CycleEnd(s, k)' = CycleEnd(s, k)
           /\ awaited' = awaited /\ now' = now
  <1>1. sub'[e.sub] = Charged(w, e.sub, e.count)
    BY ClaimDoc
  <1>2. sub'[s].paidThrough = CycleEnd(s, e.count)
    BY <1>1 DEF Charged
  <1>3. rz' = rz /\ awaited' = awaited /\ now' = now
    BY DEF ClaimCycle, razorpay
  <1> QED
    BY <1>2, <1>3 DEF CycleEnd, Period

LEMMA ClaimedPaid ==
    ASSUME Base, [Next]_vars, NEW s \in Sub
    PROVE  \/ sub'[s].paidThrough = sub[s].paidThrough
           \/ \E w \in Worker, e \in awaited : ClaimCycle(w, e) /\ e.sub = s
  <1>2. ASSUME NEW w \in Worker, Undoes(w), del[w].event.sub = s
        PROVE  sub'[s].paidThrough = sub[s].paidThrough
    BY <1>2, Undone
  <1>3. ASSUME NEW r \in Reader, TakeDrip(r), DripFree(r), read[r].sub = s
        PROVE  sub'[s].paidThrough = sub[s].paidThrough
    BY <1>3, Taken
  <1>4. DocKept(s) => sub'[s].paidThrough = sub[s].paidThrough
    BY DEF DocKept
  <1> QED
    BY <1>2, <1>3, <1>4, DocMoves

\* A cycle granted is paid for to its end, or to now while its charge is to be
\* delivered again.
PaidOn ==
    \A s \in Sub, k \in Cycle : Got(s, k) /\ ~ Gone(s, k) =>
        \/ sub[s].paidThrough >= CycleEnd(s, k)
        \/ Waiting(s, k) /\ sub[s].paidThrough >= now

LEMMA PaidOnStep ==
    ASSUME Base, ClaimStays, PaidEnd, EventTime, GotSeen, PaidOn, [Next]_vars
    PROVE  PaidOn'
  <1>1. SUFFICES ASSUME NEW s \in Sub, NEW k \in Cycle, Got(s, k)', ~ Gone(s, k)'
                 PROVE  \/ sub'[s].paidThrough >= CycleEnd(s, k)'
                        \/ Waiting(s, k)' /\ sub'[s].paidThrough >= now'
    BY DEF PaidOn
  <1>2. /\ sub[s] \in Doc /\ k \in Nat /\ k > 0 /\ now \in Nat /\ TypeOK
        /\ \A n \in Cycle : CycleEnd(s, n) \in Nat
    BY CycleNat, CycleTimes DEF Base, TypeOK
  <1>3. ~ Gone(s, k) /\ <<s, k>> \notin dropped'
    BY <1>1, DoubtGrows DEF Gone, HistoryGrows
  <1>4. CASE ~ Got(s, k)
    <2>1. PICK w \in Worker : OnCycle(w, s, k) /\ sub' = sub
      BY <1>1, <1>4, GotMoves
    <2>2. sub[s].paidThrough >= CycleEnd(s, k)
      BY <2>1, LiveCount, PaidAbove
    <2>3. rz[s].charges > 0
      <3>1. del[w].event.sub = s /\ del[w].event.count \in 1..rz[del[w].event.sub].charges
        BY <2>1 DEF OnCycle, CycleOf, Base, WorkerOK
      <3>2. rz[s].charges \in Nat
        BY DEF Base, TypeOK
      <3> QED
        BY <3>1, <3>2
    <2>4. CycleEnd(s, k)' = CycleEnd(s, k)
      BY <2>3, CyclesFixed
    <2> QED
      BY <2>1, <2>2, <2>4
  <1>5. CASE Got(s, k)
    <2>1. CycleEnd(s, k)' = CycleEnd(s, k)
      BY <1>5, GotCharged, CyclesFixed
    <2>2. CASE sub'[s].paidThrough = sub[s].paidThrough /\ sub[s].paidThrough >= CycleEnd(s, k)
      BY <2>1, <2>2
    <2>3. CASE sub'[s].paidThrough = sub[s].paidThrough /\ ~ (sub[s].paidThrough >= CycleEnd(s, k))
      <3>1. Waiting(s, k) /\ sub[s].paidThrough >= now
        BY <1>3, <1>5, <2>3 DEF PaidOn
      <3>2. now' = now
        BY <3>1, NowMoves DEF Waiting
      <3>3. ~ (sub[s].count >= k)
        BY <2>3, PaidAbove
      <3>4. Waiting(s, k)'
        BY <1>3, <3>1, <3>3, WaitingEnds
      <3> QED
        BY <2>3, <3>1, <3>2, <3>4
    <2>4. ASSUME NEW w \in Worker, NEW e \in awaited, ClaimCycle(w, e), e.sub = s
          PROVE  \/ sub'[s].paidThrough >= CycleEnd(s, k)'
                 \/ Waiting(s, k)' /\ sub'[s].paidThrough >= now'
      <3>1. PICK n \in Cycle : n = e.count
        BY <2>4, ClaimCounts
      <3>2. /\ sub'[s].paidThrough = CycleEnd(s, n) /\ sub[s].count <= n
            /\ awaited' = awaited /\ now' = now /\ Waiting(s, n) /\ n \in Nat
        <4>1. Waiting(s, n)
          BY <2>4, <3>1 DEF Waiting, ClaimCycle
        <4> QED
          BY <2>4, <3>1, <4>1, ClaimPays, ClaimCounts, CycleNat
      <3>3. CASE k <= n
        <4>1. CycleEnd(s, k) <= CycleEnd(s, n)
          BY <1>2, <3>2, <3>3, CycleTimes
        <4> QED
          BY <1>2, <2>1, <3>1, <3>2, <4>1
      <3>4. CASE n < k
        <4>1. ~ (sub[s].count >= k)
          BY <1>2, <3>2, <3>4, DocNats
        <4>2. Waiting(s, k)
          BY <1>3, <1>5, <4>1 DEF GotSeen
        <4>3. Waiting(s, k)'
          BY <3>2, <4>2 DEF Waiting, ChargeEvent
        <4>4. CycleEnd(s, n) >= now
          <5>1. now \in CycleStart(s, n)..CycleEnd(s, n)
            BY <3>1, <3>2 DEF EventTime
          <5> QED
            BY <1>2, <5>1
        <4> QED
          BY <3>2, <4>3, <4>4
      <3> QED
        BY <1>2, <3>2, <3>3, <3>4
    <2> QED
      BY <2>2, <2>3, <2>4, ClaimedPaid
  <1> QED
    BY <1>4, <1>5

-----------------------------------------------------------------------------
(* The plan stays, and no finding that nothing is paid for is on its way to it. *)

PlanOK ==
    \A s \in Sub, k \in Cycle :
        sub[s].status # "expired" /\ CycleEnd(s, k) >= now =>
            (Got(s, k) /\ ~ Gone(s, k) /\ <<s, k>> \notin raced =>
                user.plan = "pro" /\ ~ TakingPlan)

\* Such a subscription is found to be still paid for.
LEMMA GotPaid ==
    ASSUME Base, PaidEnd, PaidOn, NEW s \in Sub, NEW k \in Cycle, Got(s, k), ~ Gone(s, k),
           sub[s].status # "expired", CycleEnd(s, k) >= now
    PROVE  StillPaid(s)
  <1>1. sub[s] \in Doc /\ k \in Nat /\ k > 0 /\ now \in Nat /\ now > 0 /\ CycleEnd(s, k) \in Nat
    BY CycleNat, CycleTimes DEF Base, TypeOK, ChargesOK
  <1>2. sub[s].paidThrough >= now /\ sub[s].paidThrough > 0
    <2>1. PICK p \in Nat : p = sub[s].paidThrough
      BY <1>1, DocNats
    <2>2. p >= CycleEnd(s, k) \/ p >= now
      BY <2>1 DEF PaidOn
    <2> QED
      BY <1>1, <2>1, <2>2
  <1>3. sub[s].status \in {"active"} \cup Ended
    BY <1>2 DEF PaidEnd
  <1> QED
    BY <1>2, <1>3 DEF StillPaid, Ended

\* A plan starts to be taken when no subscription, or no other one, is found paid for.
LEMMA TakingMoves ==
    ASSUME Base, [Next]_vars, TakingPlan', ~ TakingPlan
    PROVE  \/ \E w \in Worker : /\ LookForOthers(w)
                                /\ ~ \E o \in Sub \ {del[w].event.sub} : StillPaid(o)
           \/ \E r \in Reader : ReadCurrent(r) /\ ~ \E s \in Sub : StillPaid(s)
  <1>1. ASSUME NEW w \in Worker, NEW d, del' = [del EXCEPT ![w] = d],
               d.pc # "downgrade", read' = read
        PROVE  FALSE
    <2>1. del'[w] = d /\ \A v \in Worker : v # w => del'[v] = del[v]
      BY <1>1 DEF Base, TypeOK
    <2> QED
      BY <1>1, <2>1 DEF TakingPlan
  <1>2. ASSUME NEW r \in Reader, NEW d, read' = [read EXCEPT ![r] = d], d.pc # "zero", del' = del
        PROVE  FALSE
    <2>1. read'[r] = d /\ \A q \in Reader : q # r => read'[q] = read[q]
      BY <1>2 DEF Base, TypeOK
    <2> QED
      BY <1>2, <2>1 DEF TakingPlan
  <1>3. ~ (del' = del /\ read' = read)
    BY DEF TakingPlan
  <1>4. ASSUME World PROVE FALSE
    BY <1>3, <1>4 DEF World, Subscribe, ExpireLapsed, Charge, Resume, GoesStale, Halt, Finish, Tick
  <1>5. ASSUME NEW e \in awaited, ApplyStatus(e) PROVE FALSE
    BY <1>3, <1>5 DEF ApplyStatus
  <1>6. ASSUME NEW w \in Worker, NEW e \in awaited,
               ClaimCycle(w, e) \/ LoseClaim(w, e) \/ SaveExpired(w, e)
        PROVE  FALSE
    <2>1. PICK d : del' = [del EXCEPT ![w] = d] /\ d.pc # "downgrade"
      <3>1. CASE ClaimCycle(w, e)
        <4>1. PICK d : d = [pc |-> "grant", event |-> e, before |-> sub[e.sub]]
          OBVIOUS
        <4>2. del' = [del EXCEPT ![w] = d] /\ d.pc = "grant"
          BY <3>1, <4>1 DEF ClaimCycle
        <4> QED
          BY <4>2
      <3>2. CASE LoseClaim(w, e)
        <4>1. PICK d : d = [Quiet EXCEPT !.pc = "elsewhere", !.event = e]
          OBVIOUS
        <4>2. del' = [del EXCEPT ![w] = d] /\ d.pc = "elsewhere"
          BY <3>2, <4>1 DEF LoseClaim, Quiet
        <4> QED
          BY <4>2
      <3>3. CASE SaveExpired(w, e)
        <4>1. PICK d : d = [Quiet EXCEPT !.pc = "others", !.event = e]
          OBVIOUS
        <4>2. del' = [del EXCEPT ![w] = d] /\ d.pc = "others"
          BY <3>3, <4>1 DEF SaveExpired, Quiet
        <4> QED
          BY <4>2
      <3> QED
        BY <1>6, <3>1, <3>2, <3>3
    <2>2. read' = read
      BY <1>6 DEF ClaimCycle, LoseClaim, SaveExpired
    <2> QED
      BY <1>1, <2>1, <2>2
  <1>7. ASSUME NEW w \in Worker, Fails(w) \/ Acknowledged(w) \/ Done(w, del[w].event), read' = read
        PROVE  FALSE
    <2>1. del' = [del EXCEPT ![w] = Quiet] /\ Quiet.pc = "idle"
      BY <1>7 DEF Fails, Acknowledged, Done, Quiet
    <2> QED
      BY <1>1, <1>7, <2>1
  <1>8. ASSUME NEW w \in Worker, NEW pc \in {"mark", "rollback"}, Goto(w, pc), read' = read
        PROVE  FALSE
    <2>1. del' = [del EXCEPT ![w] = [del[w] EXCEPT !.pc = pc]]
      BY <1>8 DEF Goto, Base, TypeOK
    <2>2. [del[w] EXCEPT !.pc = pc].pc = pc
      BY DEF Base, TypeOK
    <2> QED
      BY <1>1, <1>8, <2>1, <2>2
  <1>9. ASSUME NEW w \in Worker,
               \/ PendingElsewhere(w) \/ Grant(w) \/ Rollback(w) \/ Mark(w) \/ Die(w)
               \/ \E landed \in BOOLEAN : GrantThrows(w, landed) \/ UpdateThrows(w, landed)
        PROVE  FALSE
    <2>1. CASE PendingElsewhere(w) \/ Rollback(w) \/ Mark(w) \/ Die(w)
      BY <1>7, <2>1 DEF PendingElsewhere, Rollback, Mark, Die
    <2>2. ASSUME NEW landed \in BOOLEAN, UpdateThrows(w, landed) PROVE FALSE
      BY <1>7, <2>2 DEF UpdateThrows
    <2>3. ASSUME NEW landed \in BOOLEAN, GrantThrows(w, landed) PROVE FALSE
      BY <1>8, <2>3 DEF GrantThrows
    <2>4. CASE Grant(w)
      BY <1>8, <2>4 DEF Grant
    <2> QED
      BY <1>9, <2>1, <2>2, <2>3, <2>4
  <1>10. ASSUME NEW w \in Worker, Downgrade(w) \/ ZeroInk(w) PROVE FALSE
    <2>1. CASE Downgrade(w)
      BY <2>1 DEF Downgrade, TakingPlan
    <2>2. CASE ZeroInk(w)
      BY <1>7, <2>2 DEF ZeroInk
    <2> QED
      BY <1>10, <2>1, <2>2
  <1>11. ASSUME NEW w \in Worker, LookForOthers(w), \E o \in Sub \ {del[w].event.sub} : StillPaid(o)
         PROVE  FALSE
    BY <1>7, <1>11 DEF LookForOthers
  <1>12. ASSUME NEW r \in Reader, Rest(r), del' = del PROVE FALSE
    <2>1. Resting.pc = "idle"
      BY DEF Resting
    <2> QED
      BY <1>2, <1>12, <2>1 DEF Rest
  <1>13. ASSUME NEW r \in Reader, NEW pc \in {"ended", "current", "take"}, At(r, pc), del' = del
         PROVE  FALSE
    <2>1. read' = [read EXCEPT ![r] = [read[r] EXCEPT !.pc = pc]]
      BY <1>13 DEF At, Base, TypeOK
    <2>2. [read[r] EXCEPT !.pc = pc].pc = pc
      BY DEF Base, TypeOK, Reading
    <2> QED
      BY <1>2, <1>13, <2>1, <2>2
  <1>14. ASSUME NEW r \in Reader, ReadStops(r) \/ ReadEnded(r) \/ SetDrip(r) PROVE FALSE
    BY <1>12, <1>13, <1>14 DEF ReadStops, ReadEnded, SetDrip
  <1>15. ASSUME NEW r \in Reader, TakePlan(r) PROVE FALSE
    BY <1>15 DEF TakePlan, TakingPlan
  <1>16. ASSUME NEW r \in Reader, ReadPlan(r) PROVE FALSE
    <2>1. del' = del
      BY <1>16 DEF ReadPlan
    <2>2. \/ At(r, "ended")
          \/ \E d : read' = [read EXCEPT ![r] = d] /\ d.pc = "take"
      <3>1. PICK s : s = Newest({o \in Sub : Dripping(o)})
        OBVIOUS
      <3>2. PICK d : d = [pc |-> "take", sub |-> s, cycle |-> sub[s].count, n |-> sub[s].drips,
                          nextAt |-> sub[s].nextAt, anchor |-> sub[s].anchor]
        OBVIOUS
      <3>3. d.pc = "take"
        BY <3>2
      <3>4. At(r, "ended") \/ read' = [read EXCEPT ![r] = d]
        BY <1>16, <3>1, <3>2 DEF ReadPlan
      <3> QED
        BY <3>3, <3>4
    <2> QED
      BY <1>2, <1>13, <2>1, <2>2
  <1>17. ASSUME NEW r \in Reader, TakeDrip(r) PROVE FALSE
    <2>1. CASE DripFree(r)
      <3>1. PICK d : d = [read[r] EXCEPT !.pc = "set", !.n = read[r].n + 1,
                                         !.nextAt = read[r].anchor + read[r].n + 2]
        OBVIOUS
      <3>2. d.pc = "set"
        BY <3>1 DEF Base, TypeOK, Reading
      <3>3. read' = [read EXCEPT ![r] = d] /\ del' = del
        BY <1>17, <2>1, <3>1 DEF TakeDrip, Base, TypeOK
      <3> QED
        BY <1>2, <3>2, <3>3
    <2>2. CASE ~ DripFree(r)
      BY <1>12, <1>17, <2>2 DEF TakeDrip
    <2> QED
      BY <2>1, <2>2
  <1>18. ASSUME NEW r \in Reader, ReadCurrent(r), \E s \in Sub : StillPaid(s) PROVE FALSE
    BY <1>12, <1>18 DEF ReadCurrent
  <1>19. UNCHANGED vars => FALSE
    BY <1>3 DEF vars
  <1> QED
    BY <1>4, <1>5, <1>6, <1>9, <1>10, <1>11, <1>14, <1>15, <1>16, <1>17, <1>18, <1>19, StepKinds
       DEF HandlerStep, ReadStep

\* The plan is the same, given with the Ink of a first month, or taken.
LEMMA UserMoves ==
    ASSUME Base, [Next]_vars
    PROVE  \/ /\ user'.plan = user.plan
              /\ \A s \in Sub, k \in Cycle : Got(s, k)' => Got(s, k)
           \/ user'.plan = "pro"
           \/ TakingPlan
  <1>1. user.plan = user.plan /\ user \in [plan : {"free", "pro"}, ink : BOOLEAN]
    BY DEF Base, TypeOK
  <1>2. user' = Paid => user'.plan = "pro"
    BY DEF Paid
  <1>3. ASSUME NEW b, user' = [user EXCEPT !.ink = b] PROVE user'.plan = user.plan
    BY <1>1, <1>3
  <1>4. grants' = grants => \A s \in Sub, k \in Cycle : Got(s, k)' => Got(s, k)
    BY DEF Got
  <1>5. ASSUME World PROVE user' = user /\ grants' = grants
    BY <1>5 DEF World, Subscribe, ExpireLapsed, Charge, Resume, GoesStale, Halt, Finish, Tick,
                history, excused
  <1>6. ASSUME NEW e \in awaited,
               \/ ApplyStatus(e)
               \/ \E w \in Worker : ClaimCycle(w, e) \/ LoseClaim(w, e) \/ SaveExpired(w, e)
        PROVE  user' = user /\ grants' = grants
    BY <1>6 DEF ApplyStatus, ClaimCycle, LoseClaim, SaveExpired, history, excused
  <1>7. ASSUME NEW w \in Worker,
               \/ LookForOthers(w) \/ PendingElsewhere(w) \/ Rollback(w) \/ Mark(w) \/ Die(w)
               \/ \E landed \in BOOLEAN : UpdateThrows(w, landed)
        PROVE  user' = user /\ grants' = grants
    BY <1>7 DEF LookForOthers, PendingElsewhere, Rollback, Mark, Die, UpdateThrows, history, excused
  <1>8. ASSUME NEW w \in Worker, Grant(w) \/ \E landed \in BOOLEAN : GrantThrows(w, landed)
        PROVE  user' = Paid \/ (user' = user /\ grants' = grants)
    BY <1>8 DEF Grant, GrantThrows
  <1>9. ASSUME NEW w \in Worker, Downgrade(w) PROVE TakingPlan
    BY <1>9 DEF Downgrade, TakingPlan
  <1>14. ASSUME NEW w \in Worker, ZeroInk(w) PROVE user'.plan = user.plan /\ grants' = grants
    BY <1>3, <1>14 DEF ZeroInk, history
  <1>10. ASSUME NEW r \in Reader, TakePlan(r) PROVE TakingPlan
    BY <1>10 DEF TakePlan, TakingPlan
  <1>11. ASSUME NEW r \in Reader,
                ReadPlan(r) \/ ReadEnded(r) \/ ReadCurrent(r) \/ TakeDrip(r) \/ ReadStops(r)
         PROVE  user' = user /\ grants' = grants
    BY <1>11 DEF ReadPlan, ReadEnded, ReadCurrent, TakeDrip, ReadStops, history, excused
  <1>12. ASSUME NEW r \in Reader, SetDrip(r)
         PROVE  /\ user'.plan = user.plan
                /\ \A s \in Sub, k \in Cycle : Got(s, k)' => Got(s, k)
    <2>1. user'.plan = user.plan
      BY <1>3, <1>12 DEF SetDrip
    <2>2. read[r].n > 0 /\ grants' = [grants EXCEPT ![Month(r)] = @ + 1]
      BY <1>12 DEF SetDrip, Base, ReaderOK
    <2>3. ASSUME NEW s \in Sub, NEW k \in Cycle PROVE grants'[<<s, k, 0>>] = grants[<<s, k, 0>>]
      <3>1. <<s, k, 0>> # Month(r)
        BY <2>2 DEF Month
      <3>2. <<s, k, 0>> \in GrantKey
        BY Sizes DEF GrantKey
      <3> QED
        BY <2>2, <3>1, <3>2 DEF Base, TypeOK
    <2> QED
      BY <2>1, <2>3 DEF Got
  <1>13. UNCHANGED vars => user' = user /\ grants' = grants
    BY DEF vars
  <1>15. \/ user'.plan = user.plan /\ grants' = grants
         \/ user' = Paid \/ TakingPlan
         \/ \E r \in Reader : SetDrip(r)
    <2>1. user' = user => user'.plan = user.plan
      OBVIOUS
    <2> QED
      BY <1>5, <1>6, <1>7, <1>8, <1>9, <1>10, <1>11, <1>13, <1>14, <2>1, StepKinds
         DEF HandlerStep, ReadStep
  <1> QED
    BY <1>2, <1>4, <1>12, <1>15

LEMMA PlanStep ==
    ASSUME Base, PaidEnd, PaidOn, PlanOK, [Next]_vars
    PROVE  PlanOK'
  <1>1. SUFFICES ASSUME NEW s \in Sub, NEW k \in Cycle, sub'[s].status # "expired",
                        CycleEnd(s, k)' >= now', Got(s, k)', ~ Gone(s, k)', <<s, k>> \notin raced'
                 PROVE  user'.plan = "pro" /\ ~ TakingPlan'
    BY DEF PlanOK
  <1>2. sub[s].status # "expired"
    BY <1>1, StatusStep DEF StatusMoves
  <1>3. ~ Gone(s, k) /\ <<s, k>> \notin raced
    BY <1>1, DoubtGrows DEF Gone, HistoryGrows
  <1>4. CASE Got(s, k)
    <2>1. CycleEnd(s, k)' = CycleEnd(s, k)
      BY <1>4, GotCharged, CyclesFixed
    <2>2. CycleEnd(s, k) >= now
      <3>1. now \in Nat /\ now' \in {now, now + 1} /\ CycleEnd(s, k) \in Nat
        BY Contracts, CycleTimes, CycleNat DEF Base, TypeOK, ContractsGrow
      <3> QED
        BY <1>1, <2>1, <3>1
    <2>3. user.plan = "pro" /\ ~ TakingPlan
      BY <1>2, <1>3, <1>4, <2>2 DEF PlanOK
    <2>4. StillPaid(s)
      BY <1>2, <1>3, <1>4, <2>2, GotPaid
    <2>5. ASSUME NEW w \in Worker, LookForOthers(w),
                 ~ \E o \in Sub \ {del[w].event.sub} : StillPaid(o)
          PROVE  FALSE
      <3>1. sub[del[w].event.sub].status = "expired"
        BY <2>5 DEF LookForOthers, Base, WorkerOK
      <3> QED
        BY <1>2, <2>4, <2>5, <3>1
    <2>6. ~ TakingPlan'
      BY <2>3, <2>4, <2>5, TakingMoves
    <2>7. user'.plan = "pro"
      BY <2>3, UserMoves
    <2> QED
      BY <2>6, <2>7
  <1>5. CASE ~ Got(s, k)
    <2>1. PICK w \in Worker : Racing(w) \subseteq raced' /\ CycleOf(w) = <<s, k>>
      BY <1>1, <1>5, GotMoves
    <2>2. ~ TakingPlan
      BY <1>1, <2>1 DEF Racing
    <2>3. user'.plan = "pro"
      BY <1>1, <1>5, <2>2, UserMoves
    <2>4. grants' # grants
      BY <1>1, <1>5 DEF Got
    <2>5. ~ TakingPlan'
      BY <2>2, <2>4, TakingMoves DEF LookForOthers, ReadCurrent, history
    <2> QED
      BY <2>3, <2>5
  <1> QED
    BY <1>4, <1>5

Plans == EventTime /\ GotSeen /\ PaidOn /\ PlanOK

LEMMA PlansInit == Init => Plans
  <1> SUFFICES ASSUME Init PROVE Plans
    OBVIOUS
  <1>1. awaited = {} /\ \A s \in Sub, k \in Cycle : ~ Got(s, k)
    BY Sizes DEF Init, Got, GrantKey, YEARLY_DRIP_MAX
  <1>2. EventTime
    BY <1>1 DEF EventTime, Waiting
  <1>3. GotSeen
    BY <1>1 DEF GotSeen
  <1>4. PaidOn
    BY <1>1 DEF PaidOn
  <1>5. PlanOK
    BY <1>1 DEF PlanOK
  <1> QED
    BY <1>2, <1>3, <1>4, <1>5 DEF Plans

LEMMA PlansStep == Firsts /\ Drips /\ Plans /\ [Next]_vars => Plans'
  BY EventTimeStep, GotSeenStep, PaidOnStep, PlanStep DEF Firsts, Drips, Plans

\* A user keeps the plan through every cycle charged and granted, whatever becomes of
\* the subscription, whichever others end and whatever runs at the same time
\* (stillPaidFilter), but for the cycles the code itself does not keep: one granted
\* while a finding that nothing is paid for was on its way, one answered for while no
\* claim of it stood.
THEOREM PlanKept == Spec => []PaidPlanStays
  <1>1. Init => Plans
    BY PlansInit
  <1>2. Firsts /\ Drips /\ Plans /\ [Next]_vars => Plans'
    BY PlansStep
  <1>3. Plans => PaidPlanStays
    BY DEF Plans, PlanOK, PaidPlanStays, PaidFor, Got, Gone
  <1> QED
    BY <1>1, <1>2, <1>3, AlwaysDrips, PTL DEF Spec
=============================================================================
