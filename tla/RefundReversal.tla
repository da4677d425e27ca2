---------------------------- MODULE RefundReversal ----------------------------
(***************************************************************************)
(* A refund takes back the Ink its payment granted: reverseInkForRefund of *)
(* refund-ink.service.ts and reverseRefundInk of ink-ledger.service.ts.    *)
(*                                                                         *)
(* The refunds of one grant, in part or in full, through one payment row   *)
(* or two that name the same grant, are delivered as refund.processed      *)
(* events at the same time and more than once, while the user spends and   *)
(* buys Ink.  An attempt works out its pro-rata share, inserts the claim   *)
(* refund:<id>, caps the share by what the other claims took, debits the   *)
(* balance by compare-and-set and marks the claim.  A call may throw, its  *)
(* write landed or not; the process may die; the user may be erased.       *)
(***************************************************************************)
EXTENDS Integers, FiniteSets, FiniteSetsExt

CONSTANTS
    Worker,               \* the attempts that run at the same time
    Refund,               \* Razorpay refunds of the payments of one grant
    Bills,                \* the payment and amount each refund may be of
    AmountPaise,          \* a payment's amount
    GrantUnits,           \* the units the grant row gave
    StartInk,             \* by bucket: the balance at the start
    MaxInk,               \* bound: what a bucket can hold
    RefundDebitAttempts,  \* REFUND_DEBIT_ATTEMPTS
    MarkAttempts,         \* MARK_GRANTED_ATTEMPTS
    MaxMishaps            \* bound: deliveries after a 200, changes of the balance by
                          \* others, calls that throw and deaths, together

\* preferBucket first, then the others
Bucket == 1..3

ASSUME RefundAssumption == IsFiniteSet(Refund)
ASSUME PaiseAssumption ==
    /\ AmountPaise \in Nat \ {0}
    /\ \A b \in Bills : \A r \in Refund : b[r].paise \in 1..AmountPaise
ASSUME UnitsAssumption == GrantUnits \in Nat \ {0} /\ MaxInk \in Nat
ASSUME InkAssumption == StartInk \in [Bucket -> 0..MaxInk]
ASSUME AttemptsAssumption == {RefundDebitAttempts, MarkAttempts} \subseteq Nat \ {0}
ASSUME BoundAssumption == MaxMishaps \in Nat

VARIABLES
    bill,       \* by refund: its payment and its amount
    claim,      \* by refund: its ledger row
    ink,        \* the user's buckets
    user,       \* the user document exists
    att,        \* the attempts: their locals
    awaited,    \* the refunds whose event was not answered 200 yet
    debits,     \* by refund: the debits of the balance that landed
    taken,      \* by refund: the units they took
    unsure,     \* debits that landed and threw
    overlap,    \* two attempts have run at the same time
    mishaps

vars == <<bill, claim, ink, user, att, awaited, debits, taken, unsure, overlap, mishaps>>

\* capped: the row's due was compared with the other claims.
Claim == [state : {"none", "pending", "done"}, due : Nat, capped : BOOLEAN, fresh : BOOLEAN]

NoClaim == [state |-> "none", due |-> 0, capped |-> FALSE, fresh |-> FALSE]

Pending(due) == [state |-> "pending", due |-> due, capped |-> FALSE, fresh |-> TRUE]

Attempt == [pc : {"idle", "prior", "remaining", "insert", "look", "cap", "lower",
                  "read", "debit", "rollback", "mark"},
            refund : Refund \cup {"none"}, due : Nat,
            seen : [Bucket -> 0..MaxInk], tries : Nat]

Empty == [b \in Bucket |-> 0]

Idle == [pc |-> "idle", refund |-> "none", due |-> 0, seen |-> Empty, tries |-> 0]

Init ==
    /\ bill \in Bills
    /\ claim = [r \in Refund |-> NoClaim]
    /\ ink = StartInk /\ user = TRUE
    /\ att = [w \in Worker |-> Idle]
    /\ awaited = Refund
    /\ debits = [r \in Refund |-> 0] /\ taken = [r \in Refund |-> 0]
    /\ unsure = 0 /\ overlap = FALSE
    /\ mishaps = 0

-----------------------------------------------------------------------------
(* What an attempt works out. *)

Smaller(a, b) == IF a < b THEN a ELSE b
Positive(n) == IF n < 0 THEN 0 ELSE n
Total(f, S) == MapThenSumSet(LAMBDA x : f[x], S)

DueOf(S) == Total([r \in Refund |-> claim[r].due], S)
PaiseOf(S) == Total([r \in Refund |-> bill[r].paise], S)

\* priorReversals: the refunds of the payment already done, r excluded.
Prior(r) == {p \in Refund \ {r} : bill[p].payment = bill[r].payment /\ claim[p].state = "done"}

\* Mutant: each refund's share by itself.
ShareAlone(r) == (GrantUnits * bill[r].paise) \div AmountPaise

\* refundDueUnits: the share of all refunds so far, less what they were due.
RefundDueUnits(r) ==
    LET cumulative == Smaller(PaiseOf(Prior(r)) + bill[r].paise, AmountPaise)
    IN Positive((GrantUnits * cumulative) \div AmountPaise - DueOf(Prior(r)))

\* reversedAgainstGrant: what the other claims of the grant, in flight or done,
\* leave of it.
Remaining(r) ==
    Positive(GrantUnits - DueOf({p \in Refund \ {r} : claim[p].state # "none"}))

\* The units an attempt takes of each bucket it has seen.
Take(seen, due) ==
    LET first == Smaller(seen[1], due)
        second == Smaller(seen[2], due - first)
    IN [b \in Bucket |-> CASE b = 1 -> first
                           [] b = 2 -> second
                           [] OTHER -> Smaller(seen[3], due - first - second)]

-----------------------------------------------------------------------------
(* One attempt. *)

Become(w, locals) == att' = [att EXCEPT ![w] = locals] /\ UNCHANGED bill

At(w, pc) == att[w].pc = pc

Refunded(w) == att[w].refund

Mishap == mishaps < MaxMishaps /\ mishaps' = mishaps + 1

\* The answer: 200 ends Razorpay's retries, 500 does not.
Answer(w, ok) ==
    /\ Become(w, Idle)
    /\ awaited' = IF ok THEN awaited \ {Refunded(w)} ELSE awaited

\* refund.processed arrives; grantedFor names the grant.
Deliver(w) == \E r \in Refund :
    /\ At(w, "idle")
    /\ \/ r \in awaited /\ UNCHANGED mishaps
       \/ r \notin awaited /\ Mishap
    /\ Become(w, [Idle EXCEPT !.pc = "prior", !.refund = r])
    /\ overlap' = (overlap \/ \E v \in Worker : ~At(v, "idle"))
    /\ UNCHANGED <<claim, ink, user, awaited, debits, taken, unsure>>

ReadPrior(w) ==
    /\ At(w, "prior")
    /\ Become(w, [att[w] EXCEPT !.pc = "remaining", !.due = RefundDueUnits(Refunded(w))])
    /\ UNCHANGED <<claim, ink, user, awaited, debits, taken, unsure, overlap, mishaps>>

\* The grant is spent: answered 200 with no claim.
ReadRemaining(w) ==
    LET left == Remaining(Refunded(w)) IN
    /\ At(w, "remaining")
    /\ IF left = 0 THEN Answer(w, TRUE)
       ELSE /\ Become(w, [att[w] EXCEPT !.pc = "insert", !.due = Smaller(@, left)])
            /\ UNCHANGED awaited
    /\ UNCHANGED <<claim, ink, user, debits, taken, unsure, overlap, mishaps>>

\* Mutant: a stale claim is taken over, as a top-up's is.
InsertOrTakeOver(w) ==
    LET r == Refunded(w) IN
    /\ At(w, "insert")
    /\ IF claim[r].state = "none" \/ (claim[r].state = "pending" /\ ~claim[r].fresh)
       THEN /\ claim' = [claim EXCEPT ![r] = Pending(att[w].due)]
            /\ Become(w, [att[w] EXCEPT !.pc = "cap"])
       ELSE UNCHANGED claim /\ Become(w, [att[w] EXCEPT !.pc = "look"])
    /\ UNCHANGED <<ink, user, awaited, debits, taken, unsure, overlap, mishaps>>

Insert(w) ==
    LET r == Refunded(w) IN
    /\ At(w, "insert")
    /\ IF claim[r].state = "none"
       THEN /\ claim' = [claim EXCEPT ![r] = Pending(att[w].due)]
            /\ Become(w, [att[w] EXCEPT !.pc = "cap"])
       ELSE UNCHANGED claim /\ Become(w, [att[w] EXCEPT !.pc = "look"])
    /\ UNCHANGED <<ink, user, awaited, debits, taken, unsure, overlap, mishaps>>

\* Mutant: a claim left pending keeps the retries coming.
DoneEnds(r) == claim[r].state = "done"

\* A claim that is done, or too old to be told apart from one, ends the retries;
\* a fresh one belongs to another attempt.
Ended(r) == claim[r].state = "done" \/ (claim[r].state = "pending" /\ ~claim[r].fresh)

Look(w) ==
    /\ At(w, "look")
    /\ Answer(w, Ended(Refunded(w)))
    /\ UNCHANGED <<claim, ink, user, debits, taken, unsure, overlap, mishaps>>

\* capAfterClaim, once the claim can be seen by the others; a cap that does not
\* lower the due is not written.
ReadCap(w) ==
    LET r == Refunded(w)
        cap == Remaining(r)
    IN /\ At(w, "cap")
       /\ Become(w, [att[w] EXCEPT !.pc = IF cap < att[w].due THEN "lower" ELSE "read",
                                   !.due = Smaller(@, cap)])
       /\ claim' = IF cap < att[w].due THEN claim
                   ELSE [claim EXCEPT ![r].capped = TRUE]
       /\ UNCHANGED <<ink, user, awaited, debits, taken, unsure, overlap, mishaps>>

Lowered(w) == [claim EXCEPT ![Refunded(w)] = [@ EXCEPT !.due = att[w].due, !.capped = TRUE]]

Lower(w) ==
    /\ At(w, "lower")
    /\ claim' = Lowered(w)
    /\ Become(w, [att[w] EXCEPT !.pc = "read"])
    /\ UNCHANGED <<ink, user, awaited, debits, taken, unsure, overlap, mishaps>>

\* The user is gone: the claim goes too, unless its rollback throws, and the event is
\* answered.
ReadBalance(w) ==
    LET nothing == Take(ink, att[w].due) = Empty IN
    /\ At(w, "read")
    /\ IF ~user
       THEN /\ claim' \in {claim, [claim EXCEPT ![Refunded(w)] = NoClaim]}
            /\ Answer(w, TRUE)
       ELSE /\ Become(w, [att[w] EXCEPT !.pc = IF nothing THEN "mark" ELSE "debit",
                                        !.seen = ink, !.tries = IF nothing THEN 0 ELSE @])
            /\ UNCHANGED <<claim, awaited>>
    /\ UNCHANGED <<ink, user, debits, taken, unsure, overlap, mishaps>>

\* The compare-and-set: no bucket moved since the read.
Unmoved(w) == user /\ ink = att[w].seen

Debited(w) ==
    LET take == Take(att[w].seen, att[w].due) IN
    /\ ink' = [b \in Bucket |-> ink[b] - take[b]]
    /\ debits' = [debits EXCEPT ![Refunded(w)] = @ + 1]
    /\ taken' = [taken EXCEPT ![Refunded(w)] = @ + Total(take, Bucket)]

Debit(w) ==
    /\ At(w, "debit") /\ Unmoved(w)
    /\ Debited(w)
    /\ Become(w, [att[w] EXCEPT !.pc = "mark", !.tries = 0])
    /\ UNCHANGED <<claim, user, awaited, unsure, overlap, mishaps>>

\* The balance moved: read it again, or give up after the last attempt.
LoseDebit(w) ==
    /\ At(w, "debit") /\ ~Unmoved(w)
    /\ Become(w, [att[w] EXCEPT !.pc = IF att[w].tries + 1 < RefundDebitAttempts
                                       THEN "read" ELSE "rollback",
                                !.tries = @ + 1])
    /\ UNCHANGED <<claim, ink, user, awaited, debits, taken, unsure, overlap, mishaps>>

\* The debit throws, though it may have landed.
DebitThrows(w) ==
    /\ At(w, "debit") /\ Mishap
    /\ \/ UNCHANGED <<ink, debits, taken, unsure>>
       \/ Unmoved(w) /\ Debited(w) /\ unsure' = unsure + 1
    /\ Become(w, [att[w] EXCEPT !.pc = "rollback"])
    /\ UNCHANGED <<claim, user, awaited, overlap>>

\* A read of the ledger or of the balance throws.
ReadThrows(w) ==
    /\ \/ att[w].pc \in {"prior", "remaining", "look"} /\ Answer(w, FALSE)
       \/ /\ att[w].pc \in {"cap", "read"}
          /\ Become(w, [att[w] EXCEPT !.pc = "rollback"])
          /\ UNCHANGED awaited
    /\ Mishap
    /\ UNCHANGED <<claim, ink, user, debits, taken, unsure, overlap>>

\* The update of the due throws, though it may have landed.
LowerThrows(w) ==
    /\ At(w, "lower") /\ Mishap
    /\ claim' \in {claim, Lowered(w)}
    /\ Become(w, [att[w] EXCEPT !.pc = "rollback"])
    /\ UNCHANGED <<ink, user, awaited, debits, taken, unsure, overlap>>

\* The insert throws, though it may have landed: nobody owns the row.
InsertThrows(w) ==
    LET r == Refunded(w) IN
    /\ At(w, "insert") /\ Mishap
    /\ claim' \in {claim} \cup IF claim[r].state # "none" THEN {}
                               ELSE {[claim EXCEPT ![r] = Pending(att[w].due)]}
    /\ Answer(w, FALSE)
    /\ UNCHANGED <<ink, user, debits, taken, unsure, overlap>>

Rollback(w) ==
    /\ At(w, "rollback")
    /\ claim' = [claim EXCEPT ![Refunded(w)] = NoClaim]
    /\ Answer(w, FALSE)
    /\ UNCHANGED <<ink, user, debits, taken, unsure, overlap, mishaps>>

\* Not counted as a mishap: a throw or a lost race has led here.
RollbackThrows(w) ==
    /\ At(w, "rollback")
    /\ claim' \in {claim, [claim EXCEPT ![Refunded(w)] = NoClaim]}
    /\ Answer(w, FALSE)
    /\ UNCHANGED <<ink, user, debits, taken, unsure, overlap, mishaps>>

Marked(w) == [claim EXCEPT ![Refunded(w)] = [@ EXCEPT !.state = "done", !.capped = TRUE]]

Mark(w) ==
    /\ At(w, "mark")
    /\ claim' = Marked(w)
    /\ Answer(w, TRUE)
    /\ UNCHANGED <<ink, user, debits, taken, unsure, overlap, mishaps>>

\* retryOnThrow; after the last try the debit stands and the row stays pending.
MarkThrows(w) ==
    /\ At(w, "mark") /\ Mishap
    /\ claim' \in {claim, Marked(w)}
    /\ IF att[w].tries + 1 < MarkAttempts
       THEN Become(w, [att[w] EXCEPT !.tries = @ + 1]) /\ UNCHANGED awaited
       ELSE Answer(w, TRUE)
    /\ UNCHANGED <<ink, user, debits, taken, unsure, overlap>>

-----------------------------------------------------------------------------
(* Everyone else. *)

\* CLAIM_STALE_MS pass: the row's attempt is gone, or takes longer than that.
GoesStale(r) ==
    /\ claim[r].state = "pending" /\ claim[r].fresh
    /\ claim' = [claim EXCEPT ![r].fresh = FALSE]
    /\ UNCHANGED <<bill, ink, user, att, awaited, debits, taken, unsure, overlap, mishaps>>

\* A hold, a release, a grant, a drip.
OthersMove == \E b \in Bucket, n \in 0..MaxInk :
    /\ user /\ n \in {ink[b] - 1, ink[b] + 1}
    /\ Mishap
    /\ ink' = [ink EXCEPT ![b] = n]
    /\ UNCHANGED <<bill, claim, user, att, awaited, debits, taken, unsure, overlap>>

EraseUser ==
    /\ user /\ user' = FALSE
    /\ Mishap
    /\ UNCHANGED <<bill, claim, ink, att, awaited, debits, taken, unsure, overlap>>

Die(w) ==
    /\ ~At(w, "idle")
    /\ Mishap
    /\ Become(w, Idle)
    /\ UNCHANGED <<claim, ink, user, awaited, debits, taken, unsure, overlap>>

Step(w) ==
    \/ ReadPrior(w) \/ ReadRemaining(w) \/ Insert(w) \/ Look(w)
    \/ ReadCap(w) \/ Lower(w) \/ ReadBalance(w)
    \/ Debit(w) \/ LoseDebit(w) \/ Rollback(w) \/ Mark(w)

Throw(w) ==
    \/ ReadThrows(w) \/ InsertThrows(w) \/ LowerThrows(w) \/ DebitThrows(w)
    \/ RollbackThrows(w) \/ MarkThrows(w)

Next ==
    \/ \E w \in Worker : Deliver(w) \/ Step(w) \/ Throw(w) \/ Die(w)
    \/ \E r \in Refund : GoesStale(r)
    \/ OthersMove \/ EraseUser

Spec == Init /\ [][Next]_vars

\* Razorpay retries until a 200, an attempt runs on, and claims grow old.
Redeliver(w, r) == Deliver(w) /\ att'[w].refund = r

Fairness ==
    /\ \A w \in Worker : WF_vars(Step(w))
    /\ \A r \in Refund : WF_vars(GoesStale(r)) /\ WF_vars(\E w \in Worker : r \in awaited /\ Redeliver(w, r))

FairSpec == Spec /\ Fairness

-----------------------------------------------------------------------------
(* Properties. *)

\* Every row, bucket and local has its type; no bucket is ever negative.
TypeOK ==
    /\ bill \in Bills
    /\ claim \in [Refund -> Claim]
    /\ ink \in [Bucket -> 0..MaxInk] /\ user \in BOOLEAN
    /\ att \in [Worker -> Attempt]
    /\ awaited \subseteq Refund
    /\ debits \in [Refund -> Nat] /\ taken \in [Refund -> Nat]
    /\ unsure \in Nat /\ overlap \in BOOLEAN
    /\ mishaps \in 0..MaxMishaps

\* The dues of all claims that were compared with the others never exceed the
\* grant, however refunds race: they under-reverse, never over-reverse.
DuesWithinGrant ==
    DueOf({r \in Refund : claim[r].capped}) <= GrantUnits

\* Unless a debit that landed also threw, one refund debits once, and all of
\* them take no more than the grant gave.
NeverOverReversed ==
    unsure = 0 => /\ \A r \in Refund : debits[r] <= 1
                  /\ Total(taken, Refund) <= GrantUnits

\* What is true of the reversals in every state, together: refunds that race
\* may take back too little from the grant, never too much.
ReversalOK == TypeOK /\ DuesWithinGrant /\ NeverOverReversed

\* Refunds of one payment that never overlapped and add up to its amount are due
\* exactly the grant, whatever the roundings of each.
ExactInTheEnd ==
    \A p \in {bill[r].payment : r \in Refund} :
        LET mine == {r \in Refund : bill[r].payment = p} IN
        /\ ~overlap
        /\ \A r \in mine : claim[r].state = "done"
        /\ \A r \in Refund \ mine : claim[r].state = "none"
        /\ PaiseOf(mine) = AmountPaise
        => DueOf(mine) = GrantUnits

\* Razorpay's retries end: every refund is answered 200 at last, though claims
\* were left pending by deaths and by throws.
EveryRefundAnswered == \A r \in Refund : <>(r \notin awaited)
================================================================================
