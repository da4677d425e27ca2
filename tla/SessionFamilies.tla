---------------------------- MODULE SessionFamilies ----------------------------
(***************************************************************************)
(* What auth's sessions promise, as session.service.ts states it: a        *)
(* sign-in starts a family with one refresh token; a refresh exchanges the *)
(* family's current token for one successor, and whoever presents the old  *)
(* token gets that successor; a family that has ended never comes back.    *)
(* SessionRotation implements it with Redis records and scripts.           *)
(***************************************************************************)
EXTENDS Naturals

CONSTANT Token  \* the refresh tokens there can ever be, numbered from 1

VARIABLES
    current,  \* by a family's first token: the token it can refresh with, or 0
    used,     \* the tokens issued so far
    succ,     \* by token: the one it was exchanged for, or 0
    told      \* by token: what its presenters were answered

vars == <<current, used, succ, told>>

Init ==
    /\ current = [f \in Token |-> 0]
    /\ used = {}
    /\ succ = [t \in Token |-> 0]
    /\ told = [t \in Token |-> {}]

SignIn(t) ==
    /\ t \notin used
    /\ used' = used \cup {t}
    /\ current' = [current EXCEPT ![t] = t]
    /\ UNCHANGED <<succ, told>>

\* A token that is current has no successor yet: it is exchanged once.
Exchange(f, t) ==
    /\ current[f] # 0 /\ succ[current[f]] = 0
    /\ t \notin used
    /\ used' = used \cup {t}
    /\ succ' = [succ EXCEPT ![current[f]] = t]
    /\ current' = [current EXCEPT ![f] = t]
    /\ UNCHANGED told

\* A presenter of t, the first or a later one, learns its successor.
Answer(t) ==
    /\ succ[t] # 0
    /\ told' = [told EXCEPT ![t] = @ \cup {succ[t]}]
    /\ UNCHANGED <<current, used, succ>>

\* Log-out, revocation and expiry end any number of families at once.
End(F) ==
    /\ current' = [f \in Token |-> IF f \in F THEN 0 ELSE current[f]]
    /\ UNCHANGED <<used, succ, told>>

Next ==
    \/ \E t \in Token : SignIn(t) \/ Answer(t)
    \/ \E f, t \in Token : Exchange(f, t)
    \/ \E F \in SUBSET Token : End(F)

Spec == Init /\ [][Next]_vars
================================================================================
