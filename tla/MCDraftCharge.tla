--------------------------- MODULE MCDraftCharge ---------------------------
(* Instances of DraftCharge: the user can pay once, or once and a re-hold. *)
EXTENDS DraftCharge, TLC

MCCaller == Request \cup Sweeper
MCKey == Run \X (1..MaxSeq)
MCStartInk == {[sub |-> 1, carry |-> 0, topup |-> 3]}
MCRequests == Permutations(Request)
MCSymmetry == MCRequests \cup Permutations(Run)
=============================================================================
