--------------------------- MODULE MCRefundReversal ---------------------------
EXTENDS RefundReversal, TLC

CONSTANTS r1, r2

Of(p, n) == [payment |-> p, paise |-> n]

\* Two halves of a payment, two uneven parts of it, two refunds of the whole of
\* it, and two payment rows that name one grant.
MCBills == {(r1 :> Of("p1", 2)) @@ (r2 :> Of("p1", 2)),
            (r1 :> Of("p1", 3)) @@ (r2 :> Of("p1", 1)),
            (r1 :> Of("p1", 4)) @@ (r2 :> Of("p1", 4)),
            (r1 :> Of("p1", 4)) @@ (r2 :> Of("p2", 3))}

MCStartInk == <<2, 1, 1>>
================================================================================
