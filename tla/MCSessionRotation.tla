--------------------------- MODULE MCSessionRotation ---------------------------
EXTENDS SessionRotation, TLC

Interchangeable == Permutations(Client)
================================================================================
