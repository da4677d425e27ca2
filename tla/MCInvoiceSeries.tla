--------------------------- MODULE MCInvoiceSeries ---------------------------
EXTENDS InvoiceSeries, TLC

CONSTANTS h1, h2, p1, c1, c2

MCOf == (c1 :> p1) @@ (c2 :> p1)

Start(paid, first, second, early, legacy, set, last, busy, fails) ==
    [amount |-> (p1 :> paid) @@ (c1 :> first) @@ (c2 :> second),
     early |-> early, legacy |-> legacy, config |-> set, lastYear |-> last,
     busy |-> busy, mishaps |-> fails]

\* Two refunds that fit the invoice, two that fit one by one only, the end of a
\* year after a credit note from before the cap, and a payment too early for an
\* invoice; and, with two webhooks and the sweep at work, a number that is freed
\* in the name of another.
MCStarts ==
    {Start(3, 2, 1, {}, {}, TRUE, 1, 2, 1), Start(3, 2, 2, {}, {}, TRUE, 1, 2, 1),
     Start(3, 2, 1, {}, {c1}, TRUE, 2, 2, 1), Start(3, 2, 1, {p1}, {c1}, FALSE, 2, 2, 1),
     Start(3, 2, 1, {}, {c1}, TRUE, 1, 3, 0)}
================================================================================
