----------------------------- MODULE MCInkHold -----------------------------
(* InkHold on small instances: Ink for one draft, in two buckets. *)
EXTENDS InkHold, TLC

MCStartInk == {[sub |-> 1, carry |-> 0, topup |-> 1]}

MCSymmetry == Permutations(Caller) \cup Permutations(Key)

=============================================================================
