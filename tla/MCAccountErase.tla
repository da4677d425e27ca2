--------------------------- MODULE MCAccountErase ---------------------------
(* Names for the model values of the configuration, and its bound on the    *)
(* initial states: review posts come only to accounts verified before.      *)
EXTENDS AccountErase

CONSTANTS close, unv, sweep, c1, c2

PostsToVerified == user.verified \/ (review.link = "used" /\ guest.link = "used")

MCInit == Init /\ PostsToVerified

MCFairSpec == MCInit /\ [][Next]_vars /\ Fairness
=============================================================================
