----------------------------- MODULE InvoiceBook -----------------------------
(***************************************************************************)
(* What numbering promises: in each financial year and series the numbers  *)
(* are given one after another from 1, a row takes one number for good,    *)
(* and a credit note is issued after the invoice it credits. A number may  *)
(* be lost when its turn comes: no row has it before or after.             *)
(***************************************************************************)
EXTENDS Naturals, FiniteSets

CONSTANTS
    Payment,      \* invoices, by the payment they are for
    Refund,       \* credit notes, by the refund they are for
    Of,           \* by refund: its payment
    Year          \* financial years

VARIABLES
    book,         \* the entries [row, year, seq]
    lost          \* numbers no row has [year, series, seq]

Series == {"invoice", "credit_note"}

SeriesOf(r) == IF r \in Payment THEN "invoice" ELSE "credit_note"

In(r) == \E e \in book : e.row = r

\* The numbers of a series and year that were given or lost.
Gone(y, s) == {e.seq : e \in {x \in book : x.year = y /\ SeriesOf(x.row) = s}}
              \cup {e.seq : e \in {x \in lost : x.year = y /\ x.series = s}}

\* The first number after them.
NextIn(y, s) == Cardinality(Gone(y, s)) + 1

Init == book = {} /\ lost = {}

Issue(r, y) ==
    /\ ~In(r)
    /\ r \in Refund => In(Of[r])
    /\ book' = book \cup {[row |-> r, year |-> y, seq |-> NextIn(y, SeriesOf(r))]}
    /\ UNCHANGED lost

Lose(y, s) ==
    /\ lost' = lost \cup {[year |-> y, series |-> s, seq |-> NextIn(y, s)]}
    /\ UNCHANGED book

Next ==
    \/ \E r \in Payment \cup Refund, y \in Year : Issue(r, y)
    \/ \E y \in Year, s \in Series : Lose(y, s)

Spec == Init /\ [][Next]_<<book, lost>>
================================================================================
