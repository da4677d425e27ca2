------------------------------ MODULE InkHold ------------------------------
(***************************************************************************)
(* One user's Ink account: the three balance buckets, the open holds, the  *)
(* settled keys and the ledger rows, as apps/drafting's credits.service.ts *)
(* reads and writes them.  Every findOneAndUpdate / updateOne / findOne is *)
(* one atomic step; a function that awaits several of them is a call that  *)
(* other callers interleave with.                                          *)
(*                                                                         *)
(* InkNext is the most general client: any caller may start any operation  *)
(* on any key at any time.  DraftCharge restricts it to what the generate  *)
(* handlers do.  Users do not share state, so one user is enough.          *)
(***************************************************************************)
EXTENDS Integers, Sequences

CONSTANTS
    Key,          \* draft attempts: the pair (runId, runSequence)
    Caller,       \* concurrent executions: requests and the timer's sweep
    NoKey,        \* no attempt
    StartInk,     \* the balances a user may start with
    CostSet,      \* what a draft may cost, in storage units
    FigureSet,    \* what a settle may be told to keep
    CreditSet,    \* what a grant may credit or a refund take back
    MaxInk,       \* bound: a credit never lifts a bucket above this
    SettledKeep,  \* INK_SETTLED_KEEP
    MaxStamp      \* bound: how many expiresAt values one key is given

ASSUME KeyAssumption == Key # {} /\ NoKey \notin Key
ASSUME StartAssumption == StartInk \subseteq [sub : Nat, carry : Nat, topup : Nat]
ASSUME UnitsAssumption == CostSet \cup FigureSet \cup CreditSet \subseteq Nat
ASSUME KeepAssumption == SettledKeep \in Nat \ {0}
ASSUME BoundAssumption == MaxInk \in Nat /\ MaxStamp \in Nat

VARIABLES
    ink,         \* inkSub, inkAnnualCarry, inkTopup
    holds,       \* inkHolds: at most one entry per key
    stamp,       \* per key, the last expiresAt written (they never repeat)
    inkSettled,  \* keys of the settled holds, newest last
    ledger,      \* per key, the units of its inkledger rows (0: no row)
    generation,  \* per key, the status of its Generation row
    call,        \* per caller, the settleInk or releaseExpiredHolds it is in
    kept         \* history: the units settles have kept, per key

inkVars == <<ink, holds, stamp, inkSettled, ledger, generation, call, kept>>

-----------------------------------------------------------------------------
(* Amounts: one figure per bucket. *)

Unset == -1

Amount == [sub : Nat, carry : Nat, topup : Nat]
Zero == [sub |-> 0, carry |-> 0, topup |-> 0]
Total(a) == a.sub + a.carry + a.topup
Plus(a, b) ==
    [sub |-> a.sub + b.sub, carry |-> a.carry + b.carry, topup |-> a.topup + b.topup]
Minus(a, b) ==
    [sub |-> a.sub - b.sub, carry |-> a.carry - b.carry, topup |-> a.topup - b.topup]
Within(a, b) == a.sub <= b.sub /\ a.carry <= b.carry /\ a.topup <= b.topup

Lesser(m, n) == IF m <= n THEN m ELSE n

\* u units taken from a in spend order: sub, then carry, then topup.
TakeSplit(a, u) ==
    LET s == Lesser(a.sub, u)
        c == Lesser(a.carry, u - s)
    IN  [sub |-> s, carry |-> c, topup |-> Lesser(a.topup, u - s - c)]

-----------------------------------------------------------------------------
(* Holds and calls. *)

Hold == [open : BOOLEAN, units : Nat, split : Amount, expiresAt : Nat,
         expired : BOOLEAN, deliver : BOOLEAN, settleUnits : Nat \cup {Unset}]

NewHold(units, split, expiresAt) ==
    [open |-> TRUE, units |-> units, split |-> split, expiresAt |-> expiresAt,
     expired |-> FALSE, deliver |-> FALSE, settleUnits |-> Unset]

NoHold == [open |-> FALSE, units |-> 0, split |-> Zero, expiresAt |-> 0,
           expired |-> FALSE, deliver |-> FALSE, settleUnits |-> Unset]

\* What settleInk uses of the hold it read.
Snapshot == [units : Nat, split : Amount, expiresAt : Nat, settleUnits : Nat \cup {Unset}]

NoSnapshot == [units |-> 0, split |-> Zero, expiresAt |-> 0, settleUnits |-> Unset]

\* What the sweep's cursor returned of one expired hold.
Sighting == [key : Key, expiresAt : Nat, deliver : BOOLEAN]

Step == {"idle", "next", "look", "release", "reread", "read", "mark", "pull", "rows"}
Outcome == {"none", "settled", "no_hold", "threw"}

\* units, rows: what the settle that returned or is about to return kept.
Call == [step : Step, sweeping : BOOLEAN, key : Key \cup {NoKey}, hold : Snapshot,
         actual : Nat \cup {Unset}, rows : Amount, todo : SUBSET Sighting,
         out : Outcome, units : Nat]

Idle == [step |-> "idle", sweeping |-> FALSE, key |-> NoKey, hold |-> NoSnapshot,
         actual |-> Unset, rows |-> Zero, todo |-> {}, out |-> "none", units |-> 0]

\* Mutant: the hold is found by its key alone.
PinnedByKey(k, h) == holds[k].open

\* The findOneAndUpdate filters of settleInk pin the hold by its expiresAt.
Pinned(k, h) == holds[k].open /\ holds[k].expiresAt = h.expiresAt

\* settleInk's figure: the argument, else the stored one, else the whole hold.
Charged(h, actual) ==
    Lesser(IF actual # Unset THEN actual
           ELSE IF h.settleUnits # Unset THEN h.settleUnits ELSE h.units,
           h.units)

\* $push with $slice: -INK_SETTLED_KEEP
PushSettled(s, k) ==
    IF Len(s) < SettledKeep THEN Append(s, k) ELSE Append(Tail(s), k)

WasInkSettled(k) == \E i \in 1..Len(inkSettled) : inkSettled[i] = k

\* $setOnInsert upserts: a row that exists stays as it is.
Upserted(old, new) ==
    [sub   |-> IF old.sub = 0 THEN new.sub ELSE old.sub,
     carry |-> IF old.carry = 0 THEN new.carry ELSE old.carry,
     topup |-> IF old.topup = 0 THEN new.topup ELSE old.topup]

\* The prefixes of the ordered bulkWrite: what a failed one may have written.
RowPrefixes(rows) ==
    {Zero, [Zero EXCEPT !.sub = rows.sub], [rows EXCEPT !.topup = 0], rows}

\* Caller c's settleInk returns: to the sweep's loop, or to the route.
Return(c, out, units) ==
    call' = [call EXCEPT ![c] =
                IF call[c].sweeping
                THEN [Idle EXCEPT !.step = "next", !.sweeping = TRUE, !.todo = call[c].todo]
                ELSE [Idle EXCEPT !.out = out, !.units = units]]

-----------------------------------------------------------------------------
(* The single-write operations. *)

InkInit ==
    /\ ink \in StartInk
    /\ holds = [k \in Key |-> NoHold]
    /\ stamp = [k \in Key |-> 0]
    /\ inkSettled = <<>>
    /\ ledger = [k \in Key |-> Zero]
    /\ generation = [k \in Key |-> "none"]
    /\ call = [c \in Caller |-> Idle]
    /\ kept = [k \in Key |-> Zero]

\* holdInk's filter: no hold for the key, and enough Ink.
MayHold(k, units) == ~holds[k].open /\ Total(ink) >= units

\* Mutant: the same expiresAt again.
RepeatedExpiry(k) == 1

\* now + TTL: a value no hold of the key had before.
FreshExpiry(k) == stamp[k] + 1

\* holdInk's write: the guard, the debit in spend order and the new hold in one.
HoldInk(k, units) ==
    /\ stamp[k] < MaxStamp
    /\ MayHold(k, units)
    /\ LET split == TakeSplit(ink, units)
       IN  /\ ink' = Minus(ink, split)
           /\ holds' = [holds EXCEPT ![k] = NewHold(units, split, FreshExpiry(k))]
    /\ stamp' = [stamp EXCEPT ![k] = @ + 1]
    /\ UNCHANGED <<inkSettled, ledger, generation, call, kept>>

\* extendInkHold: a heartbeat moves whatever hold the key has.
ExtendInkHold(k) ==
    /\ stamp[k] < MaxStamp
    /\ holds[k].open
    /\ holds' = [holds EXCEPT ![k].expiresAt = FreshExpiry(k), ![k].expired = FALSE]
    /\ stamp' = [stamp EXCEPT ![k] = @ + 1]
    /\ UNCHANGED <<ink, inkSettled, ledger, generation, call, kept>>

SetHoldSettleUnits(k, units) ==
    /\ holds[k].open
    /\ ~holds[k].deliver
    /\ holds' = [holds EXCEPT ![k].settleUnits = Lesser(units, holds[k].units)]
    /\ UNCHANGED <<ink, stamp, inkSettled, ledger, generation, call, kept>>

\* releaseInk's write: the hold goes, each bucket gets its part back.
Refund(k) ==
    /\ holds[k].open
    /\ ink' = Plus(ink, holds[k].split)
    /\ holds' = [holds EXCEPT ![k] = NoHold]

ReleaseInk(k) ==
    /\ Refund(k)
    /\ UNCHANGED <<stamp, inkSettled, ledger, generation, call, kept>>

\* recordGeneration: the (runId, runSequence) index admits one row.
RecordGeneration(k, status) ==
    /\ generation[k] = "none"
    /\ generation' = [generation EXCEPT ![k] = status]
    /\ UNCHANGED <<ink, holds, stamp, inkSettled, ledger, call, kept>>

\* Time passes the hold's expiresAt.
Expire(k) ==
    /\ holds[k].open
    /\ ~holds[k].expired
    /\ holds' = [holds EXCEPT ![k].expired = TRUE]
    /\ UNCHANGED <<ink, stamp, inkSettled, ledger, generation, call, kept>>

-----------------------------------------------------------------------------
(* settleInk: read, mark, pull, rows. *)

SettleBegin(c, k, actual) ==
    /\ call[c].step = "idle"
    /\ call' = [call EXCEPT ![c] =
                  [Idle EXCEPT !.step = "read", !.key = k, !.actual = actual]]
    /\ UNCHANGED <<ink, holds, stamp, inkSettled, ledger, generation, kept>>

SettleRead(c) ==
    LET k == call[c].key
        h == holds[k]
    IN  /\ call[c].step = "read"
        /\ IF h.open
           THEN call' = [call EXCEPT
                    ![c].step = "mark",
                    ![c].hold = [units |-> h.units, split |-> h.split,
                                 expiresAt |-> h.expiresAt, settleUnits |-> h.settleUnits]]
           ELSE Return(c, "no_hold", 0)
        /\ UNCHANGED <<ink, holds, stamp, inkSettled, ledger, generation, kept>>

SettleMark(c) ==
    LET k == call[c].key
        actual == call[c].actual
    IN  /\ call[c].step = "mark"
        /\ IF Pinned(k, call[c].hold)
           THEN /\ holds' = [holds EXCEPT
                       ![k].deliver = TRUE,
                       ![k].settleUnits = IF actual = Unset THEN @
                                          ELSE Lesser(actual, call[c].hold.units)]
                /\ call' = [call EXCEPT ![c].step = "pull"]
           ELSE /\ Return(c, "no_hold", 0)
                /\ UNCHANGED holds
        /\ UNCHANGED <<ink, stamp, inkSettled, ledger, generation, kept>>

\* Mutant: the loser of the race writes its rows too.
PullMissedWrites(c, part) ==
    /\ call' = [call EXCEPT ![c].step = "rows", ![c].rows = part]
    /\ UNCHANGED <<ink, holds, inkSettled, kept>>

\* The hold is gone: another settle or a release won.  Nothing is written.
PullMissed(c, part) ==
    /\ Return(c, "no_hold", 0)
    /\ UNCHANGED <<ink, holds, inkSettled, kept>>

\* The refund is computed from the hold as it was read, not as it now is.
SettlePull(c) ==
    LET k == call[c].key
        h == call[c].hold
        part == TakeSplit(h.split, Charged(h, call[c].actual))
    IN  /\ call[c].step = "pull"
        /\ IF Pinned(k, h)
           THEN /\ ink' = Plus(ink, Minus(h.split, part))
                /\ holds' = [holds EXCEPT ![k] = NoHold]
                /\ inkSettled' = PushSettled(inkSettled, k)
                /\ kept' = [kept EXCEPT ![k] = Plus(@, part)]
                /\ IF part = Zero
                   THEN Return(c, "settled", 0)
                   ELSE call' = [call EXCEPT ![c].step = "rows", ![c].rows = part,
                                             ![c].units = Total(part)]
           ELSE PullMissed(c, part)
        /\ UNCHANGED <<stamp, ledger, generation>>

\* A failed bulkWrite is caught: the Ink stays kept, the missing rows are lost.
WriteRows(c, rows) ==
    LET k == call[c].key
    IN  /\ call[c].step = "rows"
        /\ ledger' = [ledger EXCEPT ![k] = Upserted(@, rows)]
        /\ Return(c, "settled", call[c].units)
        /\ UNCHANGED <<ink, holds, stamp, inkSettled, generation, kept>>

SettleRows(c) == WriteRows(c, call[c].rows)
SettleRowsFail(c) == \E rows \in RowPrefixes(call[c].rows) : WriteRows(c, rows)

\* A database call throws.  Taken after a write landed, its answer was lost.
CallThrows(c) ==
    /\ call[c].step # "idle"
    /\ IF call[c].step = "next"
       THEN call' = [call EXCEPT ![c] = [Idle EXCEPT !.out = "threw"]]
       ELSE Return(c, "threw", 0)
    /\ UNCHANGED <<ink, holds, stamp, inkSettled, ledger, generation, kept>>

-----------------------------------------------------------------------------
(* releaseExpiredHolds: one cursor read, then each expired hold in turn. *)

\* Mutant: only holds that may be released are looked for.
ExpiredUndelivered ==
    {d \in {[key |-> k, expiresAt |-> holds[k].expiresAt,
             deliver |-> holds[k].deliver] : k \in Key} :
        holds[d.key].open /\ holds[d.key].expired /\ ~d.deliver}

\* What the cursor may return of an expired hold.
Expired == {d \in {[key |-> k, expiresAt |-> holds[k].expiresAt,
                    deliver |-> holds[k].deliver] : k \in Key} :
               holds[d.key].open /\ holds[d.key].expired}

SweepRead(c) ==
    /\ call[c].step = "idle"
    /\ call' = [call EXCEPT ![c] =
                  IF Expired = {} THEN Idle
                  ELSE [Idle EXCEPT !.step = "next", !.sweeping = TRUE, !.todo = Expired]]
    /\ UNCHANGED <<ink, holds, stamp, inkSettled, ledger, generation, kept>>

\* A hold seen delivered is settled without looking for its Generation.
SweepNext(c) ==
    /\ call[c].step = "next"
    /\ call[c].todo # {}
    /\ \E d \in call[c].todo :
          call' = [call EXCEPT ![c] =
                     [Idle EXCEPT !.step = IF d.deliver THEN "read" ELSE "look",
                                  !.sweeping = TRUE, !.key = d.key,
                                  !.hold = [NoSnapshot EXCEPT !.expiresAt = d.expiresAt],
                                  !.todo = call[c].todo \ {d}]]
    /\ UNCHANGED <<ink, holds, stamp, inkSettled, ledger, generation, kept>>

SweepEnd(c) ==
    /\ call[c].step = "next"
    /\ call[c].todo = {}
    /\ call' = [call EXCEPT ![c] = Idle]
    /\ UNCHANGED <<ink, holds, stamp, inkSettled, ledger, generation, kept>>

\* The sweep's findOne: only a completed row says that the draft was delivered.
Completed(k) == generation[k] = "completed"

SweepLook(c) ==
    /\ call[c].step = "look"
    /\ call' = [call EXCEPT ![c].step = IF Completed(call[c].key) THEN "read" ELSE "release"]
    /\ UNCHANGED <<ink, holds, stamp, inkSettled, ledger, generation, kept>>

\* Mutant: onlyUndelivered and expiredBy are not passed.
ReleasableByKey(k, h) == holds[k].open

\* releaseInk's filter for the sweep: still undelivered, and expired by the time
\* the sweep began, so neither extended nor taken since.
Releasable(k, h) == Pinned(k, h) /\ ~holds[k].deliver

SweepRelease(c) ==
    LET k == call[c].key
    IN  /\ call[c].step = "release"
        /\ IF Releasable(k, call[c].hold)
           THEN Refund(k) /\ Return(c, "none", 0)
           ELSE /\ call' = [call EXCEPT ![c].step = "reread"]
                /\ UNCHANGED <<ink, holds>>
        /\ UNCHANGED <<stamp, inkSettled, ledger, generation, kept>>

SweepReread(c) ==
    LET k == call[c].key
    IN  /\ call[c].step = "reread"
        /\ IF holds[k].open /\ holds[k].deliver
           THEN call' = [call EXCEPT ![c].step = "read"]
           ELSE Return(c, "none", 0)
        /\ UNCHANGED <<ink, holds, stamp, inkSettled, ledger, generation, kept>>

-----------------------------------------------------------------------------
(* Other writers of the balance, and the end of a process. *)

\* grantSubscriptionInk, and the yearly drip: the month's Ink replaces the last.
GrantSubscriptionInk(units) ==
    /\ units <= MaxInk
    /\ ink' = [ink EXCEPT !.sub = units]
    /\ UNCHANGED <<holds, stamp, inkSettled, ledger, generation, call, kept>>

GrantTopupInk(units) ==
    /\ ink.topup + units <= MaxInk
    /\ ink' = [ink EXCEPT !.topup = @ + units]
    /\ UNCHANGED <<holds, stamp, inkSettled, ledger, generation, call, kept>>

\* The paid period is over: sub and carry go, topup stays.
CancelSubscriptionInk ==
    /\ ink' = [ink EXCEPT !.sub = 0, !.carry = 0]
    /\ UNCHANGED <<holds, stamp, inkSettled, ledger, generation, call, kept>>

\* The compare-and-set debit of a refund, for a payment that bought sub Ink.
ReverseRefundInk(units) ==
    /\ ink' = Minus(ink, TakeSplit(ink, units))
    /\ UNCHANGED <<holds, stamp, inkSettled, ledger, generation, call, kept>>

OtherWriter ==
    \/ \E u \in CreditSet : GrantSubscriptionInk(u) \/ GrantTopupInk(u) \/ ReverseRefundInk(u)
    \/ CancelSubscriptionInk

\* The process dies: its calls are gone, the stored state stays.
ProcessDies ==
    /\ call' = [c \in Caller |-> Idle]
    /\ UNCHANGED <<ink, holds, stamp, inkSettled, ledger, generation, kept>>

-----------------------------------------------------------------------------
SettleStep(c) ==
    SettleRead(c) \/ SettleMark(c) \/ SettlePull(c) \/ SettleRows(c) \/ SettleRowsFail(c)

SweepStep(c) ==
    SweepRead(c) \/ SweepNext(c) \/ SweepEnd(c) \/ SweepLook(c) \/ SweepRelease(c)
        \/ SweepReread(c)

RouteWrite(k) ==
    \/ \E u \in CostSet : HoldInk(k, u)
    \/ \E u \in FigureSet : SetHoldSettleUnits(k, u)
    \/ ExtendInkHold(k)
    \/ ReleaseInk(k)
    \/ \E status \in {"completed", "failed"} : RecordGeneration(k, status)

InkNext ==
    \/ \E k \in Key : RouteWrite(k) \/ Expire(k)
    \/ \E c \in Caller : \E k \in Key : \E a \in FigureSet \cup {Unset} : SettleBegin(c, k, a)
    \/ \E c \in Caller : SettleStep(c) \/ SweepStep(c) \/ CallThrows(c)
    \/ OtherWriter
    \/ ProcessDies

InkSpec == InkInit /\ [][InkNext]_inkVars

-----------------------------------------------------------------------------
(* Properties. *)

\* Every stored figure is a natural number: no debit or refund, however the
\* calls interleave, takes a bucket below zero.
TypeOK ==
    /\ ink \in Amount
    /\ holds \in [Key -> Hold]
    /\ stamp \in [Key -> Nat]
    /\ inkSettled \in Seq(Key) /\ Len(inkSettled) <= SettledKeep
    /\ ledger \in [Key -> Amount]
    /\ generation \in [Key -> {"none", "completed", "failed"}]
    /\ call \in [Caller -> Call]
    /\ kept \in [Key -> Amount]

\* A hold's split accounts for all of its units, and what a settle was told to
\* keep is never more than was taken (credits.service.ts:1148-1152).
HoldShape ==
    \A k \in Key :
       /\ Total(holds[k].split) = holds[k].units
       /\ holds[k].settleUnits <= holds[k].units

\* "Holds are never changed after holdInk except for the mark above, and the
\* filter pins this exact hold (expiresAt), so this split is the one pulled"
\* (credits.service.ts:1335-1337): a settle in progress whose pin still matches
\* computes its refund from the very split the pull removes.
PinnedSplit ==
    \A c \in Caller : call[c].step \in {"mark", "pull"} =>
       LET h == call[c].hold
       IN  Pinned(call[c].key, h) =>
              holds[call[c].key].split = h.split /\ holds[call[c].key].units = h.units

\* What is true of the holds in every state, together: they are well formed, and
\* a settle in progress refunds from the split it will pull.
HoldsOK == TypeOK /\ HoldShape /\ PinnedSplit

\* Per bucket, the Ink of a key that is on the balance, in its hold or kept.
InkOf(k) == Plus(ink, Plus(holds[k].split, kept[k]))

Conserves(k) ==
    /\ InkOf(k)' = InkOf(k)
    /\ \A j \in Key \ {k} : holds'[j].split = holds[j].split /\ kept'[j] = kept[j]

\* No operation of this service, and no crash between two of its writes, makes
\* or loses Ink: whatever leaves a bucket is in one key's hold or is kept, and
\* what a release or a settle returns goes to the bucket it came from
\* (credits.service.ts:1192-1203, 1268-1273).
Conserve == [][OtherWriter \/ \E k \in Key : Conserves(k)]_inkVars

\* The ledger never shows a bucket charged more than settles kept from it: two
\* settles that race for one hold write one set of rows, and a settle that lost
\* to a release writes none (credits.service.ts:1274-1277).
LedgerWithinKept == \A k \in Key : Within(ledger[k], kept[k])

\* The sweep gives back a hold only if it is expired and not marked delivered at
\* the moment of the write, however old its reading of it is: never a hold a
\* late heartbeat extended, a settle marked, or a request took again
\* (credits.service.ts:1197-1203).
SweepReleasesOnlyExpired ==
    [][\A c \in Caller : \A k \in Key :
          (call[c].step = "release" /\ call[c].key = k /\ holds[k].open
             /\ call'[c].step = "next" /\ ~holds'[k].open)
          => holds[k].expired /\ ~holds[k].deliver]_inkVars
=============================================================================
