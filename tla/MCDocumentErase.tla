-------------------------- MODULE MCDocumentErase --------------------------
(* Two documents drafted from one intake; a request and the sweep.          *)
EXTENDS DocumentErase

CONSTANTS d1, d2, i1, h1, sw

MCIntakeOf == [d \in Doc |-> i1]
=============================================================================
