---------------------------- MODULE InvoiceSeries ----------------------------
(***************************************************************************)
(* GST invoices and credit notes: invoice.service.ts, the sweep of         *)
(* invoice-sweep.service.ts and the models Invoice, InvoiceCounter and     *)
(* RefundCap.                                                              *)
(*                                                                         *)
(* Webhooks record a row for each captured payment and each processed      *)
(* refund, and issue it: take the next number of the series for the year,  *)
(* noting on the counter which row it is for, and write it on the row.     *)
(* Handlers of sibling and repeated events and the sweep do this side by   *)
(* side, finish each other's allocations, throw and die.                   *)
(***************************************************************************)
EXTENDS Integers, FiniteSets, FiniteSetsExt

CONSTANTS
    Handler,           \* webhook requests that run at the same time
    Sweep,             \* the invoice sweep
    Payment, Refund,   \* each has at most one row
    Of,                \* by refund: its payment
    Starts,            \* first states: the amounts, the payments before
                       \* GST_EFFECTIVE_FROM, the credit notes there is no cap
                       \* for yet, whether the seller's details are set; and
                       \* its bounds: the last year, how many handlers and
                       \* sweeps are at work at a time, and the mishaps:
                       \* failures, and deliveries after a 200
    NoRow,
    MaxSeq,            \* MAX_INVOICE_SEQ
    AllocateAttempts,  \* ALLOCATE_ATTEMPTS
    MaxYear            \* bound: financial years

Row == Payment \cup Refund
Worker == Handler \cup {Sweep}
Year == 1..MaxYear

Total(f, S) == MapThenSumSet(LAMBDA r : f[r], S)

ASSUME RowAssumption == Payment \cap Refund = {} /\ NoRow \notin Row
ASSUME OfAssumption == IsFiniteSet(Refund) /\ Of \in [Refund -> Payment]
ASSUME StartsAssumption ==
    \A s \in Starts : /\ s.amount \in [Row -> Nat \ {0}]
                     /\ s.early \subseteq Payment /\ s.legacy \subseteq Refund
                     /\ s.config \in BOOLEAN /\ s.lastYear \in Year
                     /\ s.busy \in Nat /\ s.mishaps \in Nat
\* The credit notes of before the cap stay within their invoices.
ASSUME LegacyAssumption ==
    \A s \in Starts, p \in Payment :
        Total(s.amount, {r \in s.legacy : Of[r] = p}) <= s.amount[p]
ASSUME SweepAssumption == Sweep \notin Handler
ASSUME BoundAssumption ==
    {MaxSeq, AllocateAttempts, MaxYear} \subseteq Nat \ {0}

VARIABLES
    facts,      \* the start of this behaviour
    row,        \* by payment and refund: its invoice or credit note
    counter,    \* by year and series: seq and the row the last number is for
    lost,       \* ghost: the numbers [year, series, seq] of series that were freed
                \* by an attempt at another number of the same row
    cap,        \* by payment: what its refunds have counted
    work,       \* the attempts: their locals
    awaited,    \* events not answered 200 yet, by payment and refund
    year,       \* the current financial year
    config,     \* the seller's details and GST_EFFECTIVE_FROM are set
    mishaps

vars == <<facts, row, counter, lost, cap, work, awaited, year, config, mishaps>>

Series == {"invoice", "credit_note"}

SeriesOf(r) == IF r \in Payment THEN "invoice" ELSE "credit_note"

Document == [state : {"none", "issuing", "issued", "dropped"}, year : 0..MaxYear, seq : 0..MaxSeq]

NoDocument == [state |-> "none", year |-> 0, seq |-> 0]

Recorded == [NoDocument EXCEPT !.state = "issuing"]

Counter == [seq : 0..MaxSeq, pending : Row \cup {NoRow}]

Cap == [there : BOOLEAN, total : Nat, refunds : SUBSET Refund]

\* For: the row whose number (year, seq) is being finished; helping: as part of
\* another row's allocation.
Attempt ==
    [pc : {"idle", "record", "original", "prior", "seed", "count", "already", "note",
           "held", "read", "drop", "check", "allocate", "busy", "recheck",
           "content", "write", "used", "free", "giveback"},
     row : Row \cup {NoRow}, event : BOOLEAN, prior : SUBSET Refund, tries : Nat,
     year : 0..MaxYear, seq : 0..MaxSeq, for : Row \cup {NoRow}, helping : BOOLEAN]

Idle == [pc |-> "idle", row |-> NoRow, event |-> FALSE, prior |-> {}, tries |-> 0,
         year |-> 0, seq |-> 0, for |-> NoRow, helping |-> FALSE]

Amount(r) == facts.amount[r]

AmountOf(S) == Total(facts.amount, S)

Early == facts.early

\* The credit notes recorded against a payment's invoice.
Notes(p) == {r \in Refund : Of[r] = p /\ row[r].state # "none"}

Init ==
    /\ facts \in Starts
    /\ row = [r \in Row |-> IF r \in facts.legacy \/ \E c \in facts.legacy : Of[c] = r
                            THEN Recorded ELSE NoDocument]
    /\ counter = [y \in Year |-> [s \in Series |-> [seq |-> 0, pending |-> NoRow]]]
    /\ lost = {}
    /\ cap = [p \in Payment |-> [there |-> FALSE, total |-> 0, refunds |-> {}]]
    /\ work = [w \in Worker |-> Idle]
    /\ awaited = Row \ {r \in Row : row[r].state = "issuing"}
    /\ year = 1
    /\ config = facts.config
    /\ mishaps = 0

-----------------------------------------------------------------------------
(* An attempt goes on, or ends. *)

At(w, pc) == work[w].pc = pc

MyRow(w) == work[w].row

Become(w, locals) == work' = [work EXCEPT ![w] = locals] /\ UNCHANGED facts

GoOn(w, pc) == Become(w, [work[w] EXCEPT !.pc = pc]) /\ UNCHANGED awaited

\* A webhook is answered 200; the sweep goes to its next row.
Done(w) ==
    /\ Become(w, Idle)
    /\ awaited' = IF work[w].event THEN awaited \ {MyRow(w)} ELSE awaited

\* With a step that reads, or writes nothing.
Reads == UNCHANGED <<row, counter, lost, cap, year, config, mishaps>>

Mishap == mishaps < facts.mishaps /\ mishaps' = mishaps + 1

Free(w) == At(w, "idle") /\ Cardinality({v \in Worker : ~At(v, "idle")}) < facts.busy

-----------------------------------------------------------------------------
(* Step 1, record. *)

\* order.paid and payment.captured or subscription.charged of a payment, or
\* refund.processed: the siblings and the repeats of one row's event are one.  A
\* payment is refunded long after it was captured.
Deliver(w) == \E r \in Row :
    /\ w \in Handler /\ Free(w)
    /\ r \in Refund => Of[r] \notin awaited
    /\ \/ r \in awaited /\ UNCHANGED mishaps
       \/ r \notin awaited /\ Mishap
    /\ Become(w, [Idle EXCEPT !.pc = IF r \in Payment THEN "record" ELSE "original",
                              !.row = r, !.event = TRUE])
    /\ UNCHANGED <<row, counter, lost, cap, awaited, year, config>>

\* recordInvoiceForPayment: an upsert on the payment id.
Record(w) ==
    LET p == MyRow(w)
        none == config /\ p \in Early
    IN /\ At(w, "record")
       /\ IF none \/ row[p].state = "issued" THEN Done(w) ELSE GoOn(w, "held")
       /\ row' = IF none \/ row[p].state \in {"issuing", "issued"} THEN row
                 ELSE [row EXCEPT ![p] = Recorded]
       /\ UNCHANGED <<counter, lost, cap, year, config, mishaps>>

\* recordCreditNoteForRefund: no invoice, no credit note; a recorded one is not
\* counted again.
FindOriginal(w) ==
    LET r == MyRow(w) IN
    /\ At(w, "original")
    /\ IF row[Of[r]].state \in {"none", "dropped"} \/ row[r].state = "issued" THEN Done(w)
       ELSE GoOn(w, IF row[r].state = "issuing" THEN "held" ELSE "prior")
    /\ Reads

\* ensureRefundCap: the credit notes recorded so far ...
ReadPrior(w) ==
    /\ At(w, "prior")
    /\ Become(w, [work[w] EXCEPT !.pc = "seed", !.prior = Notes(Of[MyRow(w)])])
    /\ UNCHANGED awaited /\ Reads

\* ... seed a new cap.
Seed(w) == [there |-> TRUE, total |-> AmountOf(work[w].prior), refunds |-> work[w].prior]

SeedCap(w) ==
    LET p == Of[MyRow(w)] IN
    /\ At(w, "seed")
    /\ cap' = IF cap[p].there THEN cap ELSE [cap EXCEPT ![p] = Seed(w)]
    /\ Become(w, [work[w] EXCEPT !.pc = "count", !.prior = {}])
    /\ UNCHANGED <<row, counter, lost, awaited, year, config, mishaps>>

\* Mutant: each refund is compared with the invoice alone.
FitsAlone(r) == r \notin cap[Of[r]].refunds /\ Amount(r) <= Amount(Of[r])

\* The conditional update of the cap finds it.
Fits(r) ==
    /\ r \notin cap[Of[r]].refunds
    /\ cap[Of[r]].total + Amount(r) <= Amount(Of[r])

CountIn(c, r) == [c EXCEPT !.total = @ + Amount(r), !.refunds = @ \cup {r}]

Count(w) ==
    LET r == MyRow(w) IN
    /\ At(w, "count")
    /\ IF Fits(r)
       THEN /\ cap' = [cap EXCEPT ![Of[r]] = CountIn(@, r)]
            /\ GoOn(w, "note")
       ELSE UNCHANGED cap /\ GoOn(w, "already")
    /\ UNCHANGED <<row, counter, lost, year, config, mishaps>>

\* Mutant: a refund the update did not find is over the invoice.
Refused(r) == FALSE

\* Counted by an attempt before this one.
Counted(r) == r \in cap[Of[r]].refunds

AlreadyCounted(w) ==
    /\ At(w, "already")
    /\ IF Counted(MyRow(w)) THEN GoOn(w, "note") ELSE Done(w)
    /\ Reads

\* The upsert on the refund id.
RecordNote(w) ==
    LET r == MyRow(w) IN
    /\ At(w, "note")
    /\ row' = IF row[r].state = "none" THEN [row EXCEPT ![r] = Recorded] ELSE row
    /\ IF row[r].state = "issued" THEN Done(w) ELSE GoOn(w, "held")
    /\ UNCHANGED <<counter, lost, cap, year, config, mishaps>>

-----------------------------------------------------------------------------
(* Step 2, issue. *)

HeldIn(r) == {y \in Year : counter[y][SeriesOf(r)].pending = r}

\* runInvoiceSweep goes over the rows a counter holds a number for and the rows
\* still issuing.
Found(r) == HeldIn(r) # {} \/ row[r].state = "issuing"

SweepRow(r) ==
    /\ Free(Sweep) /\ config
    /\ Found(r)
    /\ Become(Sweep, [Idle EXCEPT !.pc = "held", !.row = r])
    /\ UNCHANGED awaited /\ Reads

\* The locals that finish the number a counter holds.
Finishing(w, y, s, helping) ==
    [work[w] EXCEPT !.pc = "content", !.year = y, !.seq = counter[y][s].seq,
                    !.for = counter[y][s].pending, !.helping = helping]

\* A row that holds a number finishes that one; without the seller's details
\* nothing is issued.
FindHeld(w) ==
    LET r == MyRow(w) IN
    /\ At(w, "held")
    /\ IF ~config THEN Done(w)
       ELSE IF HeldIn(r) = {} THEN GoOn(w, "read")
       ELSE /\ \E y \in HeldIn(r) : Become(w, Finishing(w, y, SeriesOf(r), FALSE))
            /\ UNCHANGED awaited
    /\ Reads

Waiting(r) == r \in Refund /\ row[Of[r]].state # "issued"

ReadRow(w) ==
    LET r == MyRow(w) IN
    /\ At(w, "read")
    /\ IF row[r].state = "issuing" /\ r \in Early THEN GoOn(w, "drop")
       ELSE IF row[r].state # "issuing" \/ Waiting(r) THEN Done(w)
       ELSE GoOn(w, "check")
    /\ Reads

Drop(w) ==
    LET r == MyRow(w) IN
    /\ At(w, "drop")
    /\ row' = IF row[r].state = "issuing" THEN [row EXCEPT ![r].state = "dropped"] ELSE row
    /\ Done(w)
    /\ UNCHANGED <<counter, lost, cap, year, config, mishaps>>

\* The last look before the number; the year is that of the clock now.
Check(w) ==
    /\ At(w, "check")
    /\ IF row[MyRow(w)].state # "issuing" THEN Done(w)
       ELSE /\ Become(w, [work[w] EXCEPT !.pc = "allocate", !.year = year])
            /\ UNCHANGED awaited
    /\ Reads

\* Mutant: the series gives numbers while one is pending.
Unlocked(c) == c.seq < MaxSeq

Available(c) == c.pending = NoRow /\ c.seq < MaxSeq

\* findOneAndUpdate: the next number, and whose it is.
Allocate(w) ==
    LET y == work[w].year
        s == SeriesOf(MyRow(w))
        c == counter[y][s]
    IN /\ At(w, "allocate")
       /\ IF Available(c)
          THEN /\ counter' = [counter EXCEPT ![y][s] = [seq |-> c.seq + 1, pending |-> MyRow(w)]]
               /\ Become(w, [work[w] EXCEPT !.pc = "content", !.seq = c.seq + 1,
                                            !.for = MyRow(w), !.helping = FALSE])
               /\ UNCHANGED awaited
          ELSE UNCHANGED counter /\ GoOn(w, "busy")
       /\ UNCHANGED <<row, lost, cap, year, config, mishaps>>

\* The series is full, or finishPendingIn helps the row it waits for.
Busy(w) ==
    LET y == work[w].year
        s == SeriesOf(MyRow(w))
        c == counter[y][s]
    IN /\ At(w, "busy")
       /\ IF c.pending # NoRow
          THEN Become(w, Finishing(w, y, s, TRUE)) /\ UNCHANGED awaited
          ELSE IF c.seq >= MaxSeq THEN Done(w)
          ELSE GoOn(w, "recheck")
       /\ Reads

\* Someone may have finished this row meanwhile; else the next try, or
\* InvoiceSeriesBusyError.
Recheck(w) ==
    /\ At(w, "recheck")
    /\ IF row[MyRow(w)].state = "issued" \/ work[w].tries + 1 = AllocateAttempts THEN Done(w)
       ELSE /\ Become(w, [work[w] EXCEPT !.pc = "check", !.tries = @ + 1])
            /\ UNCHANGED awaited
    /\ Reads

-----------------------------------------------------------------------------
(* finalizeAllocation. *)

MyNumber(w) == [state |-> "issued", year |-> work[w].year, seq |-> work[w].seq]

\* The row read, and its content built.
ReadContent(w) ==
    /\ At(w, "content")
    /\ GoOn(w, IF row[work[w].for].state = "issuing" THEN "write" ELSE "used")
    /\ Reads

\* The conditional write of the number; an issued row is immutable.
Write(w) ==
    LET r == work[w].for IN
    /\ At(w, "write")
    /\ IF row[r].state = "issuing"
       THEN row' = [row EXCEPT ![r] = MyNumber(w)] /\ GoOn(w, "free")
       ELSE UNCHANGED row /\ GoOn(w, "used")
    /\ UNCHANGED <<counter, lost, cap, year, config, mishaps>>

Used(w) ==
    /\ At(w, "used")
    /\ GoOn(w, IF row[work[w].for] = MyNumber(w) THEN "free" ELSE "giveback")
    /\ Reads

Finished(w) == IF work[w].helping THEN GoOn(w, "recheck") ELSE Done(w)

\* The series is freed if it still waits for this row, for whichever number: one
\* that is not the number finished here, a second taken for the row meanwhile, is
\* neither given nor given back.
FreeSeries(w) ==
    LET s == SeriesOf(work[w].for)
        y == work[w].year
        c == counter[y][s]
    IN /\ At(w, "free")
       /\ IF c.pending = work[w].for
          THEN /\ counter' = [counter EXCEPT ![y][s].pending = NoRow]
               /\ lost' = IF c.seq = work[w].seq THEN lost
                          ELSE lost \cup {[year |-> y, series |-> s, seq |-> c.seq]}
          ELSE UNCHANGED <<counter, lost>>
       /\ Finished(w)
       /\ UNCHANGED <<row, cap, year, config, mishaps>>

\* Mutant: the number stays taken.
KeepSeq(c) == c.seq

SeqBack(c) == c.seq - 1

\* The counter still holds this number for this row.
Held(w) ==
    counter[work[w].year][SeriesOf(work[w].for)] = [seq |-> work[w].seq, pending |-> work[w].for]

GiveBack(w) ==
    LET s == SeriesOf(work[w].for)
        y == work[w].year
    IN /\ At(w, "giveback")
       /\ counter' = IF ~Held(w) THEN counter
                     ELSE [counter EXCEPT ![y][s] = [seq |-> SeqBack(@), pending |-> NoRow]]
       /\ Finished(w)
       /\ UNCHANGED <<row, lost, cap, year, config, mishaps>>

-----------------------------------------------------------------------------
(* Everyone else. *)

Recording == {"record", "original", "prior", "seed", "count", "already", "note"}

\* A call throws, or the process dies; a call that threw after its write landed
\* is that step and then this one.  An error while issuing is logged and the
\* webhook answered 200; one while recording is not.
Fail(w) ==
    /\ ~At(w, "idle")
    /\ Mishap
    /\ Become(w, Idle)
    /\ awaited' \in {awaited} \cup
                    IF work[w].pc \in Recording \/ ~work[w].event THEN {}
                    ELSE {awaited \ {MyRow(w)}}
    /\ UNCHANGED <<row, counter, lost, cap, year, config>>

\* 1 April, IST.
NewYear ==
    /\ year < facts.lastYear /\ year' = year + 1
    /\ UNCHANGED <<facts, row, counter, lost, cap, work, awaited, config, mishaps>>

\* The details are set and the service restarts.
Configure ==
    /\ ~config /\ config' = TRUE
    /\ work' = [w \in Worker |-> Idle]
    /\ UNCHANGED <<facts, row, counter, lost, cap, awaited, year, mishaps>>

Step(w) ==
    \/ Record(w) \/ FindOriginal(w) \/ ReadPrior(w) \/ SeedCap(w) \/ Count(w)
    \/ AlreadyCounted(w) \/ RecordNote(w)
    \/ FindHeld(w) \/ ReadRow(w) \/ Drop(w) \/ Check(w) \/ Allocate(w)
    \/ Busy(w) \/ Recheck(w)
    \/ ReadContent(w) \/ Write(w) \/ Used(w) \/ FreeSeries(w) \/ GiveBack(w)

Next ==
    \/ \E w \in Worker : Deliver(w) \/ Step(w) \/ Fail(w)
    \/ \E r \in Row : SweepRow(r)
    \/ NewYear \/ Configure

Spec == Init /\ [][Next]_vars

\* Razorpay retries until a 200, an attempt runs on, the details are set one
\* day, and a run of the sweep goes over every row it found.
Fairness ==
    /\ \A w \in Worker : WF_vars(Step(w))
    /\ \A r \in Row : /\ WF_vars(\E w \in Handler : r \in awaited /\ Deliver(w) /\ work'[w].row = r)
                      /\ SF_vars(SweepRow(r))
    /\ WF_vars(Configure)

FairSpec == Spec /\ Fairness

-----------------------------------------------------------------------------
(* Properties. *)

\* Every row, counter, cap and local has its type; no number goes below zero or
\* past MAX_INVOICE_SEQ.
TypeOK ==
    /\ facts \in Starts
    /\ row \in [Row -> Document]
    /\ counter \in [Year -> [Series -> Counter]]
    /\ lost \subseteq [year : Year, series : Series, seq : 1..MaxSeq]
    /\ cap \in [Payment -> Cap]
    /\ work \in [Worker -> Attempt]
    /\ awaited \subseteq Row
    /\ year \in Year /\ config \in BOOLEAN /\ mishaps \in 0..facts.mishaps

Numbers(y, s) ==
    {row[r].seq : r \in {q \in Row : SeriesOf(q) = s /\ row[q].state = "issued" /\ row[q].year = y}}

Lost(y, s) == {n \in 1..MaxSeq : [year |-> y, series |-> s, seq |-> n] \in lost}

\* InvoiceCounter: no gaps.  The numbers given are 1 to seq, save the one that a
\* counter is holding for a row, and those that were freed in the name of another
\* number of their row: a third attempt had taken them for a row that the second
\* was finishing for the first.
NoGap == \A y \in Year, s \in Series :
    LET c == counter[y][s] IN
    Numbers(y, s) \cup (IF c.pending = NoRow THEN {} ELSE {c.seq}) = (1..c.seq) \ Lost(y, s)

\* The book of the numbers given so far.
Promise == INSTANCE InvoiceBook WITH
    book <- {[row |-> r, year |-> row[r].year, seq |-> row[r].seq] :
             r \in {q \in Row : row[q].state = "issued"}},
    lost <- lost

\* However attempts overlap, help one another, fail and stop: numbers are given
\* one after another, a row has one for good, and credit follows invoice.
KeepsTheBook == Promise!Spec

\* Refunds processed at the same time are together never credited for more than
\* the invoice they credit.
CreditWithinInvoice ==
    \A p \in Payment : AmountOf(Notes(p)) <= Amount(p)

\* Every refund credited is in the cap's total, and in it once.
CountedOnce ==
    \A p \in Payment :
        cap[p].there => /\ cap[p].total = AmountOf(cap[p].refunds)
                        /\ Notes(p) \subseteq cap[p].refunds

\* What is true of the credit notes in every state, together: the cap's total is
\* that of the refunds it counts, every credit note is counted, and the notes of
\* an invoice stay within it.
CreditOK == TypeOK /\ CountedOnce /\ CreditWithinInvoice

Settled ==
    \* A counted refund has its credit note, unless the invoice was dropped.
    /\ \A r \in Refund : r \in cap[Of[r]].refunds
                         => row[r].state # "none" \/ row[Of[r]].state = "dropped"
    \* A recorded row is issued or dropped, unless its series is full or it
    \* credits an invoice that was dropped.
    /\ \A r \in Row : row[r].state = "issuing"
                      => \/ r \in Refund /\ row[Of[r]].state = "dropped"
                         \/ \E y \in Year : counter[y][SeriesOf(r)].seq = MaxSeq
    \* No series waits for a row.
    /\ \A y \in Year, s \in Series : counter[y][s].pending = NoRow

\* Whatever failed on the way, once the failures stop every counted refund is
\* credited, every recorded row issued and every series free.
AllSettles == <>[]Settled
================================================================================
