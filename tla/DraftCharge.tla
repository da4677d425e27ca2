---------------------------- MODULE DraftCharge ----------------------------
(***************************************************************************)
(* What the generate handlers of apps/drafting do with the Ink account of  *)
(* InkHold: resolve the attempt, hold the price before any model call,     *)
(* keep the hold alive, save the draft, record the attempt, and settle or  *)
(* release by the charge rule (withInkHold in documents.routes.ts).        *)
(*                                                                         *)
(* A request is one HTTP request of the user; any number of them run at    *)
(* the same time, beside the timer's sweep.  Each await is a point where   *)
(* the others may act.  A database call may throw, whether or not its      *)
(* write landed; a client may leave; time may pass a hold's expiry; the    *)
(* process may die.                                                        *)
(***************************************************************************)
EXTENDS InkHold, FiniteSets

CONSTANTS
    Request, Sweeper,   \* the callers
    Run, MaxSeq,        \* run ids, and a bound on the attempts of one run
    Cost,               \* the price of the draft, in storage units
    MaxBeats,           \* INK_HOLD_MAX_HEARTBEAT_MS, in heartbeats
    MaxExpiries,        \* bound: how often a hold expires unclosed
    MaxFaults,          \* bound: how many database calls throw
    MaxCrashes          \* bound: how often the process dies

ASSUME CallerAssumption == Caller = Request \cup Sweeper /\ Request \cap Sweeper = {}
ASSUME AttemptAssumption == MaxSeq \in Nat /\ Key = Run \X (1..MaxSeq)
ASSUME CostAssumption == Cost \in CostSet /\ \A f \in FigureSet : f <= Cost
ASSUME LimitAssumption == {MaxBeats, MaxExpiries, MaxFaults, MaxCrashes} \subseteq Nat
\* The bound on stamps cuts nothing off: two holds and the beats of each request.
ASSUME StampAssumption == MaxStamp >= Cardinality(Request) * (2 + MaxBeats)

VARIABLES
    rq,        \* the requests: their locals in withInkHold and the handler
    expiries, faults, crashes

limits == <<expiries, faults, crashes>>
vars == <<inkVars, rq, limits>>

Pc == {"idle", "sweep", "hold", "run", "giveup", "failed", "deliver", "save",
       "record", "finish", "giveback", "settle", "lost", "resweep", "rehold",
       "classify", "repay", "resettle", "undo", "done", "end"}

\* none: not answered.  refused: 402 or 409.  error: 500 or a failed run.
\* withheld: the draft is not sent and the 402 text is.  done: the done event.
Answer == {"none", "refused", "error", "withheld", "done"}

\* saved: docId is set.  dup: recordGeneration found the attempt recorded.
\* gone: the client left.  present: it had not when finish() decided to settle.
\* band: deliveredUnits.  stored: deliveredStored.  left: the settle threw and
\* the hold is left for the sweep.  debited: doneInkDebited.
RequestState ==
    [pc : Pc, key : Key \cup {NoKey}, band : Nat \cup {Unset}, stored : BOOLEAN,
     saved : BOOLEAN, dup : BOOLEAN, gone : BOOLEAN, present : BOOLEAN,
     left : BOOLEAN, reheld : BOOLEAN, beats : 0..MaxBeats,
     debited : Nat \cup {Unset}, answer : Answer]

NewRequest ==
    [pc |-> "idle", key |-> NoKey, band |-> Unset, stored |-> FALSE, saved |-> FALSE,
     dup |-> FALSE, gone |-> FALSE, present |-> FALSE, left |-> FALSE,
     reheld |-> FALSE, beats |-> 0, debited |-> Unset, answer |-> "none"]

Init ==
    /\ InkInit
    /\ rq = [r \in Request |-> NewRequest]
    /\ expiries = 0 /\ faults = 0 /\ crashes = 0

-----------------------------------------------------------------------------
At(r, pc) == rq[r].pc = pc
Go(r, pc) == rq' = [rq EXCEPT ![r].pc = pc]
Answered(r, answer) == rq' = [rq EXCEPT ![r].pc = "end", ![r].answer = answer]

NoFault == UNCHANGED limits
Fault == faults < MaxFaults /\ faults' = faults + 1 /\ UNCHANGED <<expiries, crashes>>

\* A write whose call throws has been applied or has not.
Maybe(write) == (write \/ UNCHANGED inkVars) /\ Fault

\* Mutant: the refund without the $pull.
RefundOnly(k) ==
    /\ ink' = Plus(ink, holds[k].split)
    /\ UNCHANGED <<holds, stamp, inkSettled, ledger, generation, call, kept>>

\* A route's release: with no hold there is nothing to match.
Release(k) == IF holds[k].open THEN ReleaseInk(k) ELSE UNCHANGED inkVars
TryRelease(k) == (Release(k) /\ NoFault) \/ Maybe(Release(k))

-----------------------------------------------------------------------------
(* resolveRun, and holdInk's sweep of this user's expired holds. *)

Attempts(run) == {s \in 1..MaxSeq : generation[<<run, s>>] # "none"}

\* A run id that is new, or that no request was given.
FreshRun(run) == \A r \in {q \in Request : ~At(q, "idle")} : rq[r].key[1] # run

\* Mutant: any attempt of the run can be retried, a completed one too.
RetryableAnyway(run) == Attempts(run) # {}

\* A run that may be retried: recorded, and not completed.
Retryable(run) ==
    /\ Attempts(run) # {}
    /\ \A s \in Attempts(run) : generation[<<run, s>>] # "completed"

Latest(run) == CHOOSE s \in Attempts(run) : \A t \in Attempts(run) : t <= s

\* No run id, or a bad one, starts a new run; a retry is the next attempt.
ResolveRun(r, k) ==
    \E run \in Run :
       \/ FreshRun(run) /\ k = <<run, 1>>
       \/ Retryable(run) /\ k = <<run, Latest(run) + 1>>

Start(r) ==
    /\ At(r, "idle")
    /\ \E k \in Key :
          /\ ResolveRun(r, k)
          /\ rq' = [rq EXCEPT ![r].pc = "sweep", ![r].key = k]
    /\ NoFault /\ UNCHANGED inkVars

\* A picked court that does not resolve ends the run before the hold.
CourtUnavailable(r) ==
    At(r, "sweep") /\ Go(r, "failed") /\ NoFault /\ UNCHANGED inkVars

\* A sweep that throws is caught: the hold is judged without it.
OwnSweep(r) ==
    \E from \in {"sweep", "resweep"} :
       /\ At(r, from)
       /\ (SweepRead(r) /\ NoFault) \/ (UNCHANGED inkVars /\ Fault)
       /\ Go(r, IF from = "sweep" THEN "hold" ELSE "rehold")

-----------------------------------------------------------------------------
(* withInkHold: the hold, the beats, and the failed run. *)

TakeHold(r) ==
    LET k == rq[r].key
    IN  /\ At(r, "hold")
        /\ call[r].step = "idle"
        /\ \/ HoldInk(k, Cost) /\ Go(r, "run") /\ NoFault
           \/ ~MayHold(k, Cost) /\ Answered(r, "refused") /\ NoFault /\ UNCHANGED inkVars
           \/ Maybe(HoldInk(k, Cost)) /\ Answered(r, "error")

\* From the hold until finish() or release() stops the beats.
Alive(r) == rq[r].pc \in {"run", "deliver", "save", "record", "finish"}

\* Mutant: the heartbeat never stops by itself.
BeatForever(r) ==
    /\ Alive(r)
    /\ ~rq[r].gone
    /\ ExtendInkHold(rq[r].key)
    /\ rq' = [rq EXCEPT ![r].beats = @ + 1]
    /\ NoFault

\* Also no beat comes once the client has gone.
Beat(r) ==
    /\ Alive(r)
    /\ ~rq[r].gone
    /\ rq[r].beats < MaxBeats
    /\ ExtendInkHold(rq[r].key)
    /\ rq' = [rq EXCEPT ![r].beats = @ + 1]
    /\ NoFault

ClientGone(r) ==
    /\ Alive(r)
    /\ ~rq[r].gone
    /\ rq' = [rq EXCEPT ![r].gone = TRUE]
    /\ NoFault /\ UNCHANGED inkVars

RunFails(r) ==
    At(r, "run") /\ Go(r, "giveup") /\ NoFault /\ UNCHANGED inkVars

\* ink.release() first, then the failed row, then the end of the response.
GiveUp(r) ==
    /\ At(r, "giveup")
    /\ TryRelease(rq[r].key)
    /\ Go(r, "failed")

RecordFailed(r) ==
    LET k == rq[r].key
    IN  /\ At(r, "failed")
        /\ \/ RecordGeneration(k, "failed") /\ NoFault
           \/ generation[k] # "none" /\ NoFault /\ UNCHANGED inkVars
           \/ Maybe(RecordGeneration(k, "failed"))
        /\ Answered(r, "error")

-----------------------------------------------------------------------------
(* The finished draft: the delivered band, the document, the Generation row. *)

RunSucceeds(r) ==
    /\ At(r, "run")
    /\ \/ \E b \in FigureSet :
             rq' = [rq EXCEPT ![r].pc = "deliver", ![r].band = b]
       \/ Go(r, "save")
    /\ NoFault /\ UNCHANGED inkVars

\* setHoldSettleUnits matches a hold that is there and not marked.
Stores(k) == holds[k].open /\ ~holds[k].deliver

Deliver(r) ==
    LET k == rq[r].key
        b == rq[r].band
    IN  /\ At(r, "deliver")
        /\ \/ /\ IF Stores(k) THEN SetHoldSettleUnits(k, b)
                 ELSE UNCHANGED inkVars
              /\ rq' = [rq EXCEPT ![r].pc = "save", ![r].stored = Stores(k)]
              /\ NoFault
           \/ Maybe(SetHoldSettleUnits(k, b)) /\ Go(r, "save")

\* A failed save is caught, and skips the completed row.
Save(r) ==
    /\ At(r, "save")
    /\ \/ rq' = [rq EXCEPT ![r].pc = "record", ![r].saved = TRUE] /\ NoFault
       \/ Go(r, "finish") /\ Fault
    /\ UNCHANGED inkVars

\* Only the index's own refusal is a duplicate; another error is logged.
RecordCompleted(r) ==
    LET k == rq[r].key
    IN  /\ At(r, "record")
        /\ \/ RecordGeneration(k, "completed") /\ NoFault /\ Go(r, "finish")
           \/ /\ generation[k] # "none" /\ NoFault /\ UNCHANGED inkVars
              /\ rq' = [rq EXCEPT ![r].pc = "finish", ![r].dup = TRUE]
           \/ Maybe(RecordGeneration(k, "completed")) /\ Go(r, "finish")

-----------------------------------------------------------------------------
(* handle.finish: settle, or give the Ink back. *)

\* Mutant: a draft nobody has is charged.
GivesBackDuplicates(r) == rq[r].dup

\* The attempt is another request's, or nobody has the draft.
GivesBack(r) == rq[r].dup \/ (~rq[r].saved /\ rq[r].gone)

Finish(r) ==
    /\ At(r, "finish")
    /\ IF GivesBack(r)
       THEN Go(r, "giveback") /\ UNCHANGED inkVars
       ELSE /\ SettleBegin(r, rq[r].key, rq[r].band)
            /\ rq' = [rq EXCEPT ![r].pc = "settle", ![r].present = ~rq[r].gone]
    /\ NoFault

GiveBack(r) ==
    /\ At(r, "giveback")
    /\ TryRelease(rq[r].key)
    /\ Go(r, "done")

\* onMarked, passed by the first settle only: the mark carried the band.
MarkHold(r) ==
    /\ SettleMark(r)
    /\ rq' = [rq EXCEPT ![r].stored =
                 @ \/ (At(r, "settle") /\ rq[r].band # Unset /\ call'[r].step = "pull")]
    /\ NoFault

Returned(r, out) == call[r].step = "idle" /\ call[r].out = out

\* Mutant: a lost hold is not expected.
SettledOrThrew(r) ==
    /\ At(r, "settle")
    /\ \E out \in {"settled", "threw"} : Returned(r, out)
    /\ Go(r, "done")
    /\ NoFault /\ UNCHANGED inkVars

\* A settle that throws leaves the hold to the sweep, and the draft is delivered.
Settled(r) ==
    /\ At(r, "settle")
    /\ \/ /\ Returned(r, "settled")
          /\ rq' = [rq EXCEPT ![r].pc = "done", ![r].debited = call[r].units]
       \/ /\ Returned(r, "threw")
          /\ rq' = [rq EXCEPT ![r].pc = "done", ![r].left = TRUE]
       \/ Returned(r, "no_hold") /\ Go(r, "lost")
    /\ NoFault /\ UNCHANGED inkVars

\* What done shows when the sweep settled the hold.
SweptDebit(r) == IF rq[r].stored /\ rq[r].band # Unset THEN rq[r].band ELSE Cost

\* Mutant: a lost hold is taken again without asking whether it was settled.
SettledUnasked(r) == FALSE

\* wasInkSettled
FoundSettled(r) == WasInkSettled(rq[r].key)

\* Mutant: a released hold is not taken again; the draft goes out.
LostUnpaid(r) ==
    /\ At(r, "lost")
    /\ rq' = [rq EXCEPT ![r].pc = "done", ![r].debited = IF FoundSettled(r) THEN SweptDebit(r) ELSE Unset]
    /\ NoFault /\ UNCHANGED inkVars

\* The hold is gone: settled by the sweep, or released.
Lost(r) ==
    /\ At(r, "lost")
    /\ \/ /\ FoundSettled(r)
          /\ rq' = [rq EXCEPT ![r].pc = "done", ![r].debited = SweptDebit(r)]
          /\ NoFault
       \/ ~FoundSettled(r) /\ Go(r, "resweep") /\ NoFault
       \/ Go(r, "done") /\ Fault
    /\ UNCHANGED inkVars

Rehold(r) ==
    LET k == rq[r].key
    IN  /\ At(r, "rehold")
        /\ call[r].step = "idle"
        /\ \/ /\ HoldInk(k, Cost) /\ NoFault
              /\ rq' = [rq EXCEPT ![r].pc = "repay", ![r].reheld = TRUE]
           \/ ~MayHold(k, Cost) /\ Go(r, "classify") /\ NoFault /\ UNCHANGED inkVars
           \/ Maybe(HoldInk(k, Cost)) /\ Answered(r, "withheld")

\* holdInk's second read: a hold that is there is a duplicate, and is settled.
Classify(r) ==
    /\ At(r, "classify")
    /\ \/ holds[rq[r].key].open /\ Go(r, "repay") /\ NoFault
       \/ ~holds[rq[r].key].open /\ Answered(r, "withheld") /\ NoFault
       \/ Answered(r, "withheld") /\ Fault
    /\ UNCHANGED inkVars

Repay(r) ==
    /\ At(r, "repay")
    /\ SettleBegin(r, rq[r].key, rq[r].band)
    /\ Go(r, "resettle")
    /\ NoFault

Resettled(r) ==
    /\ At(r, "resettle")
    /\ \/ /\ Returned(r, "settled")
          /\ rq' = [rq EXCEPT ![r].pc = "done", ![r].debited = call[r].units]
       \/ Returned(r, "no_hold") /\ Go(r, "done")
       \/ Returned(r, "threw") /\ rq[r].reheld /\ Go(r, "undo")
       \/ Returned(r, "threw") /\ ~rq[r].reheld /\ Answered(r, "withheld")
    /\ NoFault /\ UNCHANGED inkVars

\* The draft is withheld, so the hold it took again is given back.
Undo(r) ==
    /\ At(r, "undo")
    /\ TryRelease(rq[r].key)
    /\ Answered(r, "withheld")

SendDone(r) ==
    At(r, "done") /\ Answered(r, "done") /\ NoFault /\ UNCHANGED inkVars

-----------------------------------------------------------------------------
(* The calls' own steps, the timer's sweep, and the environment. *)

\* A step of a call that changes nothing of its request's own state.
CallStep(c) ==
    /\ \/ (SettleRead(c) \/ SettlePull(c) \/ SettleRows(c)) /\ NoFault
       \/ (SweepNext(c) \/ SweepEnd(c) \/ SweepLook(c) \/ SweepRelease(c) \/ SweepReread(c))
             /\ NoFault
       \/ (SettleRowsFail(c) \/ CallThrows(c)) /\ Fault
    /\ UNCHANGED rq

\* The timer's sweep: a run with nothing expired does nothing.
TimerSweep(s) ==
    /\ \/ Expired # {} /\ SweepRead(s)
       \/ SettleMark(s)
    /\ NoFault /\ UNCHANGED rq

HoldExpires(k) ==
    /\ expiries < MaxExpiries
    /\ Expire(k)
    /\ expiries' = expiries + 1
    /\ UNCHANGED <<rq, faults, crashes>>

AccountChanges == OtherWriter /\ NoFault /\ UNCHANGED rq

Live(r) == rq[r].pc \notin {"idle", "end"}

Crash ==
    /\ crashes < MaxCrashes
    /\ crashes' = crashes + 1
    /\ ProcessDies
    /\ rq' = [r \in Request |-> IF Live(r) THEN [rq[r] EXCEPT !.pc = "end"] ELSE rq[r]]
    /\ UNCHANGED <<expiries, faults>>

Withhold(r) == Lost(r) \/ Rehold(r) \/ Classify(r) \/ Repay(r) \/ Resettled(r) \/ Undo(r)

\* What a request does by itself once it has been sent.
Proceed(r) ==
    \/ CourtUnavailable(r) \/ OwnSweep(r) \/ TakeHold(r)
    \/ RunFails(r) \/ GiveUp(r) \/ RecordFailed(r)
    \/ RunSucceeds(r) \/ Deliver(r) \/ Save(r) \/ RecordCompleted(r)
    \/ Finish(r) \/ GiveBack(r) \/ MarkHold(r) \/ Settled(r)
    \/ Withhold(r) \/ SendDone(r)
    \/ CallStep(r)

Next ==
    \/ \E r \in Request : Start(r) \/ Proceed(r) \/ Beat(r) \/ ClientGone(r)
    \/ \E s \in Sweeper : TimerSweep(s) \/ CallStep(s)
    \/ \E k \in Key : HoldExpires(k)
    \/ AccountChanges
    \/ Crash

Spec == Init /\ [][Next]_vars

\* setInterval runs the sweep again and again, and time passes every expiresAt.
SweepFairness ==
    /\ \A s \in Sweeper : WF_vars(TimerSweep(s)) /\ WF_vars(CallStep(s))
    /\ \A k \in Key : WF_vars(HoldExpires(k))

\* A live process runs every handler on: an await returns or throws.
RequestFairness == \A r \in Request : WF_vars(Proceed(r))

SweepSpec == Spec /\ SweepFairness
RequestSpec == Spec /\ RequestFairness

-----------------------------------------------------------------------------
(* Properties. *)

\* The requests' own state is in its range: a request beats no longer than
\* INK_HOLD_MAX_HEARTBEAT_MS allows.
RequestsOK ==
    /\ rq \in [Request -> RequestState]
    /\ expiries \in 0..MaxExpiries /\ faults \in 0..MaxFaults /\ crashes \in 0..MaxCrashes

\* r's own attempt has a draft that was saved, or shown to a client still there.
Delivered(r) == ~rq[r].dup /\ (rq[r].saved \/ rq[r].present)

\* "Ink is kept only when the draft reached the user ... and release a duplicate
\* attempt" (documents.routes.ts:499-502): whoever settled, handler or sweep,
\* Ink is kept only for an attempt that one of its requests delivered.
ChargeRule ==
    \A k \in Key : kept[k] # Zero =>
       \E r \in Request : rq[r].key = k /\ Delivered(r)

\* While no database call threw: an attempt all of whose requests were told that
\* they failed, were refused or had the draft withheld has cost nothing, neither
\* before their answers nor by a sweep after them.
NoChargeUnlessDone ==
    faults = 0 =>
       \A k \in Key : kept[k] # Zero =>
          \E r \in Request : rq[r].key = k /\ rq[r].answer \in {"none", "done"}

\* "never charge twice" (documents.routes.ts:502): handler and sweep, hold and
\* re-hold together keep at most the price of the attempt.
SingleCharge == \A k \in Key : Total(kept[k]) <= Cost

\* Two requests were sent for one attempt.
Twins(k) == \E q, r \in Request : q # r /\ rq[q].key = k /\ rq[r].key = k

\* A run is paid for once, whoever settles: when a later attempt of it is charged
\* as well, the earlier one was sent twice and a database call threw.  (One of
\* the two recorded its failure; the row of the one that delivered was lost.)
OneDraftPerRun ==
    \A j, k \in Key :
       j[1] = k[1] /\ j[2] < k[2] /\ kept[j] # Zero /\ kept[k] # Zero
          => faults > 0 /\ Twins(j)

\* "no unpaid done" (documents.routes.ts:509), for a request's own attempt,
\* while no database call threw and a hold was lost at most once.
PaidDone ==
    faults = 0 /\ expiries <= 1 =>
       \A r \in Request : rq[r].answer = "done" /\ Delivered(r) => kept[rq[r].key] # Zero

\* The debit a done event shows is the Ink that was kept, whether the handler or
\* the sweep settled, and also after a re-hold (documents.routes.ts:803-809).
DebitShown ==
    \A r \in Request :
       rq[r].answer = "done" /\ rq[r].debited # Unset
          => Total(kept[rq[r].key]) = rq[r].debited

\* A done event is for a draft that was paid, and shows what was paid for it.
DoneIsPaid == PaidDone /\ DebitShown

\* Every hold is closed in the end, whatever its request does or fails to do:
\* the timer's sweep is enough (credits.service.ts:1480-1490).
HoldsClose == \A k \in Key : holds[k].open ~> ~holds[k].open

\* A lost hold, a refused re-hold or a call that throws never leaves a request
\* hanging: every request is answered, or its process died.
EveryRequestEnds == \A r \in Request : Live(r) ~> ~Live(r)
=============================================================================
