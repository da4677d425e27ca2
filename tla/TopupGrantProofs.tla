-------------------------- MODULE TopupGrantProofs --------------------------
(***************************************************************************)
(* A top-up order's grant is bounded and settled, for any number of        *)
(* deliveries, faults, deaths and slow attempts.  The invariant follows    *)
(* the claim: its token has at most one working attempt, every credit has  *)
(* used up a token, and a new token is written only for the first claim or *)
(* for one whose attempt was slow, threw or died.                          *)
(***************************************************************************)
EXTENDS TopupGrant, FiniteSetTheorems, TLAPS

\* Attempts that have taken the claim and not finished with it.
Working == {"credit", "rollback", "mark"}

In(S) == {d \in Delivery : att[d].pc \in S}

TokensOK ==
    /\ claim.token <= tokens
    /\ claim.state = "none" <=> claim.token = 0
    /\ \A d \in Delivery : att[d].token <= tokens
    /\ \A d \in Delivery : att[d].pc \in Working => att[d].token > 0
    /\ \A d, e \in Delivery :
          att[d].pc \in Working /\ att[e].pc \in Working /\ att[d].token = att[e].token => d = e

\* The claim an attempt found stale is stale for good: only a new token is fresh.
SeenOK ==
    \A d \in Delivery : att[d].pc = "reclaim" =>
       /\ att[d].seen > 0 /\ att[d].seen <= tokens
       /\ claim.token = att[d].seen => ~claim.fresh

\* What a program point, and a granted claim, say of the grant.
SettledOK ==
    /\ claim.state = "granted" => credited > 0
    /\ \A d \in Delivery : att[d].pc \in {"mark", "coupon"} => credited > 0
    /\ OkMeansSettled

\* Each token is spent on at most one credit, each credit on one coupon use.
CountOK ==
    /\ credited + Cardinality(In({"credit"})) <= tokens
    /\ uses + Cardinality(In({"mark", "coupon"})) <= credited

Budget == 1 + slow + faults + deaths

\* Nobody can write a new token: the claim is granted, or fresh in good hands.
Guarded ==
    \/ claim.state = "granted"
    \/ claim.state = "pending" /\ claim.fresh /\ \E d \in Delivery : Guards(d)

\* The tokens that were written, and the one that still can be.
Spent == tokens + (IF Guarded THEN 0 ELSE 1)

BudgetOK == CreditBound /\ (user => Spent <= Budget)

\* While nothing throws or dies, every credit is about to be marked, is the one
\* that was marked, or was reported.
QuietOK ==
    faults = 0 /\ deaths = 0 =>
       /\ \A d \in Delivery : att[d].pc \in Working /\ Owns(d) => claim.state = "pending"
       /\ ~reported => credited <= Cardinality(In({"mark"}))
                                     + (IF claim.state = "granted" THEN 1 ELSE 0)

GrantInv == TokensOK /\ SeenOK /\ SettledOK /\ CountOK /\ BudgetOK /\ QuietOK
Inv == TypeOK /\ GrantInv

-----------------------------------------------------------------------------
(* Frames. *)

\* How the attempts at some program points are counted when one of them moves.
LEMMA CountStep ==
    ASSUME NEW d \in Delivery, NEW S, \A e \in Delivery \ {d} : att'[e].pc = att[e].pc
    PROVE  /\ Cardinality(In(S)) \in Nat
           /\ Cardinality(In(S))' =
                Cardinality(In(S)) + (IF att'[d].pc \in S THEN 1 ELSE 0)
                                   - (IF att[d].pc \in S THEN 1 ELSE 0)
  <1>1. IsFiniteSet(In(S)) /\ Cardinality(In(S)) \in Nat
    BY DeliveryAssumption, FS_Subset, FS_CardinalityType DEF In
  <1> DEFINE n == Cardinality(In(S))
  <1>2. CASE att'[d].pc \in S /\ att[d].pc \notin S
    <2>1. In(S)' = In(S) \cup {d} /\ d \notin In(S)
      BY <1>2 DEF In
    <2>2. Cardinality(In(S) \cup {d}) = n + 1
      BY <1>1, <2>1, FS_AddElement
    <2> HIDE DEF n
    <2> QED
      BY <1>1, <1>2, <2>1, <2>2 DEF n
  <1>3. CASE att'[d].pc \notin S /\ att[d].pc \in S
    <2>1. In(S)' = In(S) \ {d} /\ d \in In(S)
      BY <1>3 DEF In
    <2>2. Cardinality(In(S) \ {d}) = n - 1
      BY <1>1, <2>1, FS_RemoveElement
    <2> QED
      BY <1>1, <1>3, <2>1, <2>2
  <1>4. CASE att'[d].pc \in S <=> att[d].pc \in S
    <2>1. In(S)' = In(S)
      BY <1>4 DEF In
    <2> QED
      BY <1>1, <1>4, <2>1
  <1> QED
    BY <1>2, <1>3, <1>4

\* A fault spends one of MaxFaults.
LEMMA FaultStep ==
    ASSUME TypeOK, NoFault \/ Fault
    PROVE  /\ slow' \in 0..MaxSlow /\ faults' \in 0..MaxFaults /\ deaths' \in 0..MaxDeaths
           /\ slow' = slow /\ deaths' = deaths
           /\ NoFault => faults' = faults
           /\ Fault => faults' = faults + 1
  BY BoundAssumption DEF TypeOK, NoFault, Fault, limits

\* What a handler's step does to the attempts: only its own moves.
Moved(d, pc) ==
    /\ att' \in [Delivery -> Attempt]
    /\ \A e \in Delivery \ {d} : att'[e] = att[e]
    /\ att'[d].pc = pc

Keeps(d) == att'[d].token = att[d].token /\ att'[d].missing = att[d].missing

LEMMA Replaced ==
    ASSUME TypeOK, NEW d \in Delivery, NEW q \in Attempt, att' = [att EXCEPT ![d] = q]
    PROVE  Moved(d, q.pc) /\ att'[d] = q
  BY DEF TypeOK, Moved

LEMMA GoStep ==
    ASSUME TypeOK, NEW d \in Delivery, NEW pc \in Pc, Go(d, pc)
    PROVE  Moved(d, pc) /\ Keeps(d)
  <1> DEFINE q == [att[d] EXCEPT !.pc = pc]
  <1>1. att \in [Delivery -> Attempt] /\ att[d] \in Attempt
    BY DEF TypeOK
  <1>2. q \in Attempt /\ q.pc = pc /\ q.token = att[d].token /\ q.missing = att[d].missing
    BY <1>1 DEF Attempt
  <1>3. att' = [att EXCEPT ![d] = q]
    BY <1>1 DEF Go
  <1> QED
    BY <1>2, <1>3, Replaced DEF Keeps

LEMMA ClaimedStep ==
    ASSUME TypeOK, NEW d \in Delivery, Claimed(d)
    PROVE  /\ Moved(d, "credit") /\ att'[d].token = tokens + 1
           /\ claim' = Pending(tokens + 1) /\ tokens' = tokens + 1
           /\ att'[d].missing = att[d].missing
  <1> DEFINE t == tokens + 1
             q == [att[d] EXCEPT !.pc = "credit", !.token = t]
  <1>1. att \in [Delivery -> Attempt] /\ att[d] \in Attempt /\ t \in Nat
    BY DEF TypeOK
  <1>2. att' = [att EXCEPT ![d] = q]
    BY <1>1 DEF Claimed
  <1>3. claim' = Pending(t) /\ tokens' = t
    BY DEF Claimed, TakeClaim
  <1> HIDE DEF t
  <1>4. /\ q \in Attempt /\ q.pc = "credit" /\ q.token = t
        /\ q.missing = att[d].missing
    BY <1>1 DEF Attempt, Pc
  <1> HIDE DEF q
  <1>5. Moved(d, q.pc) /\ att'[d] = q
    BY <1>2, <1>4, Replaced
  <1> QED
    BY <1>3, <1>4, <1>5 DEF t

LEMMA SeenStep ==
    ASSUME TypeOK, NEW d \in Delivery,
           att' = [att EXCEPT ![d].pc = "reclaim", ![d].seen = claim.token]
    PROVE  Moved(d, "reclaim") /\ Keeps(d) /\ att'[d].seen = claim.token
  <1> DEFINE q == [att[d] EXCEPT !.pc = "reclaim", !.seen = claim.token]
  <1>1. att \in [Delivery -> Attempt] /\ att[d] \in Attempt /\ claim.token \in Nat
    BY DEF TypeOK, Claim
  <1>2. /\ q \in Attempt /\ q.pc = "reclaim" /\ q.seen = claim.token
        /\ q.token = att[d].token /\ q.missing = att[d].missing
    BY <1>1 DEF Attempt, Pc
  <1>3. att' = [att EXCEPT ![d] = q]
    BY <1>1
  <1> HIDE DEF q
  <1>4. Moved(d, q.pc) /\ att'[d] = q
    BY <1>2, <1>3, Replaced
  <1> QED
    BY <1>2, <1>4 DEF Keeps

LEMMA MissingStep ==
    ASSUME TypeOK, NEW d \in Delivery,
           att' = [att EXCEPT ![d].pc = "rollback", ![d].missing = TRUE]
    PROVE  Moved(d, "rollback") /\ att'[d].token = att[d].token
  <1> DEFINE q == [att[d] EXCEPT !.pc = "rollback", !.missing = TRUE]
  <1>1. att \in [Delivery -> Attempt] /\ att[d] \in Attempt
    BY DEF TypeOK
  <1>2. q \in Attempt /\ q.pc = "rollback" /\ q.token = att[d].token
    BY <1>1 DEF Attempt, Pc
  <1>3. att' = [att EXCEPT ![d] = q]
    BY <1>1
  <1> QED
    BY <1>2, <1>3, Replaced

LEMMA TriesStep ==
    ASSUME TypeOK, NEW d \in Delivery, ~LastTry(d),
           att' = [att EXCEPT ![d].tries = @ + 1]
    PROVE  Moved(d, att[d].pc) /\ Keeps(d)
  <1> DEFINE q == [att[d] EXCEPT !.tries = @ + 1]
  <1>1. att \in [Delivery -> Attempt] /\ att[d] \in Attempt
    BY DEF TypeOK
  <1>2. att[d].tries + 1 \in 0..(MarkGrantedAttempts - 1)
    BY <1>1, AttemptsAssumption DEF LastTry, Attempt
  <1>3. /\ q \in Attempt /\ q.pc = att[d].pc
        /\ q.token = att[d].token /\ q.missing = att[d].missing
    BY <1>1, <1>2 DEF Attempt
  <1>4. att' = [att EXCEPT ![d] = q]
    BY <1>1
  <1> QED
    BY <1>3, <1>4, Replaced DEF Keeps

LEMMA ArrivedStep ==
    ASSUME TypeOK, NEW d \in Delivery, Redeliver(d)
    PROVE  Moved(d, "insert") /\ att'[d].token = 0
  <1>1. Arrived \in Attempt /\ Arrived.pc = "insert" /\ Arrived.token = 0
    BY AttemptsAssumption DEF Arrived, Attempt, Pc
  <1> QED
    BY <1>1, Replaced DEF Redeliver

-----------------------------------------------------------------------------
(* Types. *)

LEMMA ClaimTyped ==
    ASSUME TypeOK, NEW d \in Delivery
    PROVE  /\ NoClaim \in Claim /\ Pending(tokens + 1) \in Claim
           /\ Freed(d) \in Claim /\ MarkedClaim(d) \in Claim
           /\ [claim EXCEPT !.fresh = FALSE] \in Claim
  <1>1. claim \in Claim /\ tokens \in Nat
    BY DEF TypeOK
  <1>2. NoClaim \in Claim
    BY DEF NoClaim, Claim
  <1>3. Pending(tokens + 1) \in Claim
    BY <1>1 DEF Pending, Claim
  <1>4. [claim EXCEPT !.fresh = FALSE] \in Claim
    BY <1>1 DEF Claim
  <1>5. [claim EXCEPT !.state = "granted"] \in Claim
    BY <1>1 DEF Claim
  <1> QED
    BY <1>1, <1>2, <1>3, <1>4, <1>5 DEF Freed, MarkedClaim

LEMMA TypeStep ==
    ASSUME TypeOK, Next
    PROVE  TypeOK'
  <1> DEFINE Limits == slow' \in 0..MaxSlow /\ faults' \in 0..MaxFaults
                          /\ deaths' \in 0..MaxDeaths
  <1>1. ASSUME NEW d \in Delivery, Insert(d)
        PROVE  TypeOK'
    <2>1. Limits
      BY <1>1, FaultStep DEF Insert, ClaimThrows
    <2>2. claim' \in Claim /\ tokens' \in Nat
      BY <1>1, ClaimTyped DEF Insert, ClaimThrows, Claimed, TakeClaim, TypeOK
    <2>3. att' \in [Delivery -> Attempt]
      BY <1>1, GoStep, ClaimedStep DEF Insert, ClaimThrows, Moved, Pc
    <2> QED
      BY <1>1, <2>1, <2>2, <2>3 DEF Insert, TypeOK
  <1>2. ASSUME NEW d \in Delivery, Look(d)
        PROVE  TypeOK'
    <2>1. Limits
      BY <1>2, FaultStep DEF Look
    <2>2. att' \in [Delivery -> Attempt]
      BY <1>2, GoStep, SeenStep DEF Look, Busy, Already, Moved, Pc
    <2> QED
      BY <1>2, <2>1, <2>2 DEF Look, TypeOK
  <1>3. ASSUME NEW d \in Delivery, Reclaim(d)
        PROVE  TypeOK'
    <2>1. Limits
      BY <1>3, FaultStep DEF Reclaim, ClaimThrows
    <2>2. claim' \in Claim /\ tokens' \in Nat
      BY <1>3, ClaimTyped DEF Reclaim, ClaimThrows, Claimed, TakeClaim, TypeOK
    <2>3. att' \in [Delivery -> Attempt]
      BY <1>3, GoStep, ClaimedStep DEF Reclaim, ClaimThrows, Moved, Pc
    <2> QED
      BY <1>3, <2>1, <2>2, <2>3 DEF Reclaim, TypeOK
  <1>4. ASSUME NEW d \in Delivery, Credit(d)
        PROVE  TypeOK'
    <2>1. Limits
      BY <1>4, FaultStep DEF Credit
    <2>2. credited' \in Nat
      BY <1>4 DEF Credit, TypeOK
    <2>3. att' \in [Delivery -> Attempt]
      BY <1>4, GoStep, MissingStep DEF Credit, Moved, Pc
    <2> QED
      BY <1>4, <2>1, <2>2, <2>3 DEF Credit, TypeOK
  <1>5. ASSUME NEW d \in Delivery, Rollback(d)
        PROVE  TypeOK'
    <2>1. Limits
      BY <1>5, FaultStep DEF Rollback
    <2>2. claim' \in Claim /\ reported' \in BOOLEAN
      BY <1>5, ClaimTyped DEF Rollback, TypeOK
    <2>3. att' \in [Delivery -> Attempt]
      BY <1>5, GoStep DEF Rollback, Moved, Pc
    <2> QED
      BY <1>5, <2>1, <2>2, <2>3 DEF Rollback, TypeOK
  <1>6. ASSUME NEW d \in Delivery, Mark(d)
        PROVE  TypeOK'
    <2>1. Limits
      BY <1>6, FaultStep DEF Mark
    <2>2. claim' \in Claim /\ reported' \in BOOLEAN
      BY <1>6, ClaimTyped DEF Mark, TypeOK, Superseded
    <2>3. att' \in [Delivery -> Attempt]
      BY <1>6, GoStep, TriesStep DEF Mark, Moved, Pc
    <2> QED
      BY <1>6, <2>1, <2>2, <2>3 DEF Mark, TypeOK
  <1>7. ASSUME NEW d \in Delivery, CountCoupon(d)
        PROVE  TypeOK'
    <2>1. Limits
      BY <1>7, FaultStep DEF CountCoupon
    <2>2. uses' \in Nat
      BY <1>7 DEF CountCoupon, TypeOK
    <2>3. att' \in [Delivery -> Attempt]
      BY <1>7, GoStep DEF CountCoupon, Moved, Pc
    <2> QED
      BY <1>7, <2>1, <2>2, <2>3 DEF CountCoupon, TypeOK
  <1>8. ASSUME NEW d \in Delivery, Redeliver(d)
        PROVE  TypeOK'
    BY <1>8, ArrivedStep DEF Redeliver, Moved, TypeOK, limits
  <1>9. CASE ClaimGoesStale
    <2>1. slow' \in 0..MaxSlow
      BY <1>9, BoundAssumption DEF ClaimGoesStale, TypeOK
    <2>2. claim' \in Claim
      BY <1>9 DEF ClaimGoesStale, TypeOK, Claim
    <2> QED
      BY <1>9, <2>1, <2>2 DEF ClaimGoesStale, TypeOK
  <1>10. CASE ProcessDies
    <2>1. deaths' \in 0..MaxDeaths
      BY <1>10, BoundAssumption DEF ProcessDies, TypeOK
    <2>2. att' \in [Delivery -> Attempt]
      BY <1>10 DEF ProcessDies, TypeOK, Attempt, Pc
    <2> QED
      BY <1>10, <2>1, <2>2 DEF ProcessDies, TypeOK
  <1>11. CASE UserErased
    BY <1>11 DEF UserErased, TypeOK, limits
  <1> QED
    BY <1>1, <1>2, <1>3, <1>4, <1>5, <1>6, <1>7, <1>8, <1>9, <1>10, <1>11 DEF Next, Handle

-----------------------------------------------------------------------------
(* Steps that leave the order alone. *)

\* The counts, as numbers: before and after the step of one attempt.
LEMMA Counted ==
    ASSUME NEW d \in Delivery, NEW pc, Moved(d, pc), NEW S
    PROVE  /\ Cardinality(In(S)) \in Nat /\ Cardinality(In(S)') \in Nat
           /\ pc \in S /\ att[d].pc \in S => Cardinality(In(S)') = Cardinality(In(S))
           /\ pc \notin S /\ att[d].pc \notin S => Cardinality(In(S)') = Cardinality(In(S))
           /\ pc \in S /\ att[d].pc \notin S => Cardinality(In(S)') = Cardinality(In(S)) + 1
           /\ pc \notin S /\ att[d].pc \in S => Cardinality(In(S)') = Cardinality(In(S)) - 1
  <1>1. att'[d].pc = pc /\ \A e \in Delivery \ {d} : att'[e].pc = att[e].pc
    BY DEF Moved
  <1>2. Cardinality(In(S)) \in Nat
    BY <1>1, CountStep
  <1>3. Cardinality(In(S)') \in Nat
    BY DeliveryAssumption, FS_Subset, FS_CardinalityType DEF In
  <1> QED
    BY <1>1, <1>2, <1>3, CountStep

LEMMA FiguresTyped ==
    ASSUME TypeOK, TypeOK'
    PROVE  /\ Spent \in Int /\ Spent' \in Int /\ Budget \in Int /\ Budget' \in Int
           /\ credited \in Int /\ tokens \in Int /\ tokens' \in Int
           /\ slow \in Int /\ faults \in Int /\ deaths \in Int
           /\ slow' \in Int /\ faults' \in Int /\ deaths' \in Int
  <1>1. /\ slow \in Int /\ faults \in Int /\ deaths \in Int /\ tokens \in Int
        /\ slow' \in Int /\ faults' \in Int /\ deaths' \in Int /\ tokens' \in Int
        /\ credited \in Int
    BY BoundAssumption DEF TypeOK
  <1>2. Spent \in Int /\ Spent' \in Int
    BY <1>1 DEF Spent
  <1>3. Budget \in Int /\ Budget' \in Int
    BY <1>1 DEF Budget
  <1> QED
    BY <1>1, <1>2, <1>3

\* The environment's counters only rise, and each by one.
LimitsRise ==
    /\ slow' \in {slow, slow + 1} /\ faults' \in {faults, faults + 1}
    /\ deaths' \in {deaths, deaths + 1}

Paid == slow' = slow + 1 \/ faults' = faults + 1 \/ deaths' = deaths + 1

LEMMA Sums ==
    ASSUME NEW a \in Int, NEW b \in Int, NEW c \in Int,
           NEW x \in {a, a + 1}, NEW y \in {b, b + 1}, NEW z \in {c, c + 1}
    PROVE  /\ 1 + a + b + c <= 1 + x + y + z
           /\ x = a + 1 \/ y = b + 1 \/ z = c + 1 => 1 + a + b + c + 1 <= 1 + x + y + z
  OBVIOUS

LEMMA Pays ==
    ASSUME NEW s \in Int, NEW t \in Int, NEW b \in Int, NEW c \in Int,
           s <= b, b <= c, t <= s \/ (t <= s + 1 /\ b + 1 <= c)
    PROVE  t <= c
  OBVIOUS

LEMMA Chain ==
    ASSUME NEW a \in Int, NEW b \in Int, NEW c \in Int, NEW e \in Int, a <= b, b <= c, c <= e
    PROVE  a <= e
  OBVIOUS

LEMMA BudgetGrows ==
    ASSUME TypeOK, TypeOK', LimitsRise
    PROVE  Budget <= Budget' /\ (Paid => Budget + 1 <= Budget')
  BY FiguresTyped, Sums DEF Budget, LimitsRise, Paid

\* A token more is paid for by an attempt that is slow, a fault or a death.
LEMMA SpentMove ==
    ASSUME TypeOK, BudgetOK, TypeOK', user, LimitsRise,
           Spent' <= Spent \/ (Spent' <= Spent + 1 /\ Paid)
    PROVE  Spent' <= Budget'
  <1>1. Spent \in Int /\ Spent' \in Int /\ Budget \in Int /\ Budget' \in Int
    BY FiguresTyped
  <1>2. Spent <= Budget
    BY DEF BudgetOK
  <1> QED
    BY <1>1, <1>2, BudgetGrows, Pays

LEMMA CreditBoundMove ==
    ASSUME TypeOK, CreditBound, TypeOK', credited' = credited, LimitsRise
    PROVE  CreditBound'
  <1>1. Budget \in Int /\ Budget' \in Int /\ credited \in Int /\ credited <= Budget
    BY FiguresTyped DEF CreditBound, Budget
  <1>2. credited' <= Budget'
    BY <1>1, BudgetGrows
  <1> QED
    BY <1>2 DEF CreditBound, Budget

LEMMA Below ==
    ASSUME NEW a \in Int, NEW n \in Nat, NEW b \in Int, a + n <= b
    PROVE  a <= b
  OBVIOUS

LEMMA NoLess ==
    ASSUME NEW a \in Int, NEW g
    PROVE  a <= a + (IF g THEN 0 ELSE 1)
  OBVIOUS

\* No more credits than tokens, and no more tokens than were paid for.
LEMMA SpentBound ==
    ASSUME TypeOK, TypeOK', credited' <= tokens', Spent' <= Budget'
    PROVE  CreditBound'
  <1>1. tokens' \in Int /\ Spent' \in Int /\ Budget' \in Int
    BY FiguresTyped
  <1>2. credited' \in Int
    BY DEF TypeOK
  <1>3. tokens' <= Spent'
    <2>1. Spent' = tokens' + (IF Guarded' THEN 0 ELSE 1)
      BY DEF Spent
    <2> QED
      BY <1>1, <2>1, NoLess
  <1>4. credited' <= Budget'
    BY <1>1, <1>2, <1>3, Chain
  <1> QED
    BY <1>4 DEF CreditBound, Budget

LEMMA BudgetMove ==
    ASSUME TypeOK, BudgetOK, TypeOK', user' => user, credited' = credited,
           LimitsRise, Spent' <= Spent \/ (Spent' <= Spent + 1 /\ Paid)
    PROVE  BudgetOK'
  <1>1. ASSUME user PROVE Spent' <= Budget'
    BY <1>1, SpentMove
  <1>2. CreditBound'
    BY CreditBoundMove DEF BudgetOK
  <1> QED
    BY <1>1, <1>2 DEF BudgetOK

\* An attempt without a claim goes on, or fails, before it has one.
LEMMA IdleMove ==
    ASSUME Inv, TypeOK', NEW d \in Delivery, NEW pc \in {"insert", "look", "reclaim", "error"},
           Moved(d, pc), att'[d].token \in {0, att[d].token},
           pc = "reclaim" => att'[d].seen = claim.token /\ claim.state = "pending" /\ ~claim.fresh,
           att[d].pc \in {"insert", "look", "reclaim", "error"},
           UNCHANGED <<claim, tokens, credited, uses, user, reported, slow, deaths>>,
           faults' \in {faults, faults + 1}
    PROVE  GrantInv'
  <1>1. /\ TypeOK /\ TokensOK /\ SeenOK /\ SettledOK /\ CountOK /\ BudgetOK /\ QuietOK
        /\ faults \in Nat /\ tokens \in Nat /\ slow \in Nat /\ deaths \in Nat
    BY BoundAssumption DEF Inv, GrantInv, TypeOK
  <1>2. att'[d].pc = pc /\ \A e \in Delivery \ {d} : att'[e] = att[e]
    BY DEF Moved
  <1>3. TokensOK'
    BY <1>1, <1>2 DEF TokensOK, Working
  <1>4. SettledOK'
    BY <1>1, <1>2 DEF SettledOK, OkMeansSettled, At
  <1>5. /\ In({"credit"})' = In({"credit"}) /\ In({"mark"})' = In({"mark"})
        /\ In({"mark", "coupon"})' = In({"mark", "coupon"})
    BY <1>2 DEF In
  <1>6. CountOK'
    BY <1>1, <1>5 DEF CountOK
  <1>7. Guarded => Guarded'
    BY <1>2 DEF Guarded, Guards, Owns
  <1>8. BudgetOK'
    <2>1. Spent' <= Spent
      BY <1>1, <1>7, FiguresTyped DEF Spent
    <2> QED
      BY <1>1, <2>1, BudgetMove DEF LimitsRise
  <1>9. QuietOK'
    BY <1>1, <1>2, <1>5 DEF QuietOK, Owns, Working
  <1>10. SeenOK'
    BY <1>1, <1>2 DEF SeenOK, TokensOK, TypeOK, Claim
  <1> QED
    BY <1>3, <1>4, <1>6, <1>8, <1>9, <1>10 DEF GrantInv

-----------------------------------------------------------------------------
(* A new token. *)

\* Nobody has the token that comes next.
LEMMA NextToken ==
    ASSUME Inv
    PROVE  /\ tokens \in Nat /\ claim.token <= tokens
           /\ \A e \in Delivery : att[e].token \in Nat /\ att[e].token < tokens + 1
           /\ \A e \in Delivery : att[e].seen \in Nat
           /\ Pending(tokens + 1).token = tokens + 1 /\ Pending(tokens + 1).fresh
           /\ Pending(tokens + 1).state = "pending"
  <1>1. tokens \in Nat /\ att \in [Delivery -> Attempt] /\ TokensOK
    BY DEF Inv, GrantInv, TypeOK
  <1>2. \A e \in Delivery : att[e].token \in Nat /\ att[e].seen \in Nat
    BY <1>1 DEF Attempt
  <1> QED
    BY <1>1, <1>2 DEF TokensOK, Pending

LEMMA ClaimMove ==
    ASSUME Inv, TypeOK', NEW d \in Delivery, att[d].pc \in {"insert", "reclaim"},
           Claimed(d), ~Guarded, UNCHANGED <<credited, uses, user, reported>>, NoFault
    PROVE  GrantInv'
  <1>1. /\ TypeOK /\ TokensOK /\ SeenOK /\ SettledOK /\ CountOK /\ BudgetOK /\ QuietOK
        /\ credited \in Nat
    BY DEF Inv, GrantInv, TypeOK
  <1>2. /\ Moved(d, "credit") /\ att'[d].token = tokens + 1 /\ tokens' = tokens + 1
        /\ claim' = Pending(tokens + 1)
    BY <1>1, ClaimedStep
  <1>3. att'[d].pc = "credit" /\ \A e \in Delivery \ {d} : att'[e] = att[e]
    BY <1>2 DEF Moved
  <1>4. UNCHANGED <<slow, faults, deaths>>
    BY DEF NoFault, limits
  <1>5. TokensOK'
    BY <1>1, <1>2, <1>3, NextToken DEF TokensOK, Working
  <1>6. SeenOK'
    BY <1>1, <1>2, <1>3, NextToken DEF SeenOK
  <1>7. SettledOK'
    BY <1>1, <1>2, <1>3, NextToken DEF SettledOK, OkMeansSettled, At
  <1>8. CountOK'
    <2>1. /\ Cardinality(In({"credit"})) \in Nat
          /\ Cardinality(In({"credit"})') = Cardinality(In({"credit"})) + 1
          /\ Cardinality(In({"mark", "coupon"})') = Cardinality(In({"mark", "coupon"}))
      BY <1>2, Counted
    <2> QED
      BY <1>1, <1>2, <2>1, NextToken DEF CountOK
  <1>9. BudgetOK'
    <2>1. Guards(d)'
      BY <1>2, <1>3, NextToken DEF Guards, Owns
    <2>2. Guarded'
      BY <1>2, <2>1, NextToken DEF Guarded
    <2>3. Spent' <= Spent
      BY <1>2, <2>2, NextToken DEF Spent
    <2> QED
      BY <1>1, <1>4, <2>3, BudgetMove DEF LimitsRise
  <1>10. QuietOK'
    <2>1. In({"mark"})' = In({"mark"})
      BY <1>1, <1>3 DEF In
    <2>2. claim.state # "granted" /\ claim'.state = "pending"
      BY <1>2, NextToken DEF Guarded
    <2> QED
      BY <1>1, <1>4, <2>1, <2>2 DEF QuietOK
  <1> QED
    BY <1>5, <1>6, <1>7, <1>8, <1>9, <1>10 DEF GrantInv

\* The call that took the claim threw: nobody knows its token.
LEMMA ClaimThrowsMove ==
    ASSUME Inv, TypeOK', NEW d \in Delivery, att[d].pc \in {"insert", "reclaim"},
           ClaimThrows(d), ~Guarded, UNCHANGED <<credited, uses, user, reported>>
    PROVE  GrantInv'
  <1>1. /\ TypeOK /\ TokensOK /\ SeenOK /\ SettledOK /\ CountOK /\ BudgetOK
        /\ credited \in Nat /\ faults \in Nat
    BY BoundAssumption DEF Inv, GrantInv, TypeOK
  <1>2. Moved(d, "error") /\ Keeps(d)
    BY <1>1, GoStep DEF ClaimThrows, Pc
  <1>3. /\ att'[d].pc = "error" /\ att'[d].token = att[d].token
        /\ \A e \in Delivery \ {d} : att'[e] = att[e]
    BY <1>2 DEF Moved, Keeps
  <1>4. faults' = faults + 1 /\ UNCHANGED <<slow, deaths>>
    BY DEF ClaimThrows, Fault
  <1>5. CASE UNCHANGED <<claim, tokens>>
    BY <1>3, <1>2, <1>4, <1>5, IdleMove
  <1>6. CASE claim' = Pending(tokens + 1) /\ tokens' = tokens + 1
    <2>1. TokensOK'
      BY <1>1, <1>3, <1>6, NextToken DEF TokensOK, Working
    <2>2. SeenOK'
      BY <1>1, <1>3, <1>6, NextToken DEF SeenOK
    <2>3. SettledOK'
      BY <1>1, <1>3, <1>6, NextToken DEF SettledOK, OkMeansSettled, At
    <2>4. CountOK'
      <3>1. /\ In({"credit"})' = In({"credit"})
            /\ In({"mark", "coupon"})' = In({"mark", "coupon"})
        BY <1>3 DEF In
      <3>2. Cardinality(In({"credit"})) \in Nat
        BY <1>2, Counted
      <3> QED
        BY <1>1, <1>6, <3>1, <3>2, NextToken DEF CountOK
    <2>5. BudgetOK'
      <3>1. Spent' <= Spent + 1
        BY <1>6, NextToken DEF Spent
      <3> QED
        BY <1>1, <1>4, <3>1, BudgetMove DEF LimitsRise, Paid
    <2>6. QuietOK'
      BY <1>1, <1>4 DEF QuietOK
    <2> QED
      BY <2>1, <2>2, <2>3, <2>4, <2>5, <2>6 DEF GrantInv
  <1> QED
    BY <1>5, <1>6 DEF ClaimThrows, TakeClaim

LEMMA InsertInv ==
    ASSUME Inv, TypeOK', NEW d \in Delivery, Insert(d)
    PROVE  GrantInv'
  <1>1. att[d].pc = "insert" /\ UNCHANGED <<credited, uses, user, reported>> /\ TypeOK
    BY DEF Insert, At, Inv
  <1>2. claim.state = "none" => ~Guarded
    BY DEF Guarded
  <1>3. CASE claim.state = "none" /\ Claimed(d) /\ NoFault
    BY <1>1, <1>2, <1>3, ClaimMove
  <1>4. CASE claim.state = "none" /\ ClaimThrows(d)
    BY <1>1, <1>2, <1>4, ClaimThrowsMove
  <1>5. CASE /\ (Go(d, "look") /\ NoFault) \/ (Go(d, "error") /\ Fault)
             /\ UNCHANGED <<claim, tokens>>
    <2>1. PICK pc \in {"look", "error"} : Go(d, pc)
      BY <1>5
    <2>2. Moved(d, pc) /\ Keeps(d)
      BY <1>1, <2>1, GoStep DEF Pc
    <2>3. UNCHANGED <<slow, deaths>> /\ faults' \in {faults, faults + 1}
      BY <1>5 DEF NoFault, Fault, limits
    <2> QED
      BY <1>1, <1>5, <2>2, <2>3, IdleMove DEF Keeps
  <1> QED
    BY <1>3, <1>4, <1>5 DEF Insert

LEMMA ReclaimInv ==
    ASSUME Inv, TypeOK', NEW d \in Delivery, Reclaim(d)
    PROVE  GrantInv'
  <1>1. att[d].pc = "reclaim" /\ UNCHANGED <<credited, uses, user, reported>> /\ TypeOK
    BY DEF Reclaim, At, Inv
  <1>2. Matches(d) => ~Guarded
    BY <1>1 DEF Matches, Guarded, Inv, GrantInv, SeenOK
  <1>3. CASE Matches(d) /\ Claimed(d) /\ NoFault
    BY <1>1, <1>2, <1>3, ClaimMove
  <1>4. CASE Matches(d) /\ ClaimThrows(d)
    BY <1>1, <1>2, <1>4, ClaimThrowsMove
  <1>5. CASE Go(d, "error") /\ (NoFault \/ Fault) /\ UNCHANGED <<claim, tokens>>
    <2>1. Moved(d, "error") /\ Keeps(d)
      BY <1>1, <1>5, GoStep DEF Pc
    <2>2. UNCHANGED <<slow, deaths>> /\ faults' \in {faults, faults + 1}
      BY <1>5 DEF NoFault, Fault, limits
    <2> QED
      BY <1>1, <1>5, <2>1, <2>2, IdleMove DEF Keeps
  <1> QED
    BY <1>3, <1>4, <1>5 DEF Reclaim

\* A delivery that finds the order granted is answered 200.
LEMMA LookInv ==
    ASSUME Inv, TypeOK', NEW d \in Delivery, Look(d)
    PROVE  GrantInv'
  <1>1. /\ TypeOK /\ TokensOK /\ SeenOK /\ SettledOK /\ CountOK /\ BudgetOK /\ QuietOK
        /\ att[d].pc = "look" /\ claim.token \in Nat
        /\ UNCHANGED <<claim, tokens, credited, uses, user, reported>>
    BY DEF Inv, GrantInv, Look, At, TypeOK, Claim
  <1>2. UNCHANGED <<slow, deaths>> /\ faults' \in {faults, faults + 1}
    BY DEF Look, NoFault, Fault, limits
  <1>3. CASE Go(d, "error")
    <2>1. Moved(d, "error") /\ Keeps(d)
      BY <1>1, <1>3, GoStep DEF Pc
    <2> QED
      BY <1>1, <1>2, <2>1, IdleMove DEF Keeps
  <1>4. CASE /\ claim.state = "pending" /\ Stale(d)
             /\ att' = [att EXCEPT ![d].pc = "reclaim", ![d].seen = claim.token]
    <2>1. Moved(d, "reclaim") /\ Keeps(d) /\ att'[d].seen = claim.token
      BY <1>1, <1>4, SeenStep
    <2> QED
      BY <1>1, <1>2, <1>4, <2>1, IdleMove DEF Keeps, Stale
  <1>5. CASE claim.state = "granted" /\ Go(d, "ok") /\ NoFault
    <2>1. Moved(d, "ok") /\ Keeps(d)
      BY <1>1, <1>5, GoStep DEF Pc
    <2>2. /\ att'[d].pc = "ok" /\ att'[d].token = att[d].token
          /\ \A e \in Delivery \ {d} : att'[e] = att[e]
      BY <2>1 DEF Moved, Keeps
    <2>3. /\ In({"credit"})' = In({"credit"}) /\ In({"mark"})' = In({"mark"})
          /\ In({"mark", "coupon"})' = In({"mark", "coupon"})
      BY <1>1, <2>2 DEF In
    <2>4. TokensOK' /\ SeenOK'
      BY <1>1, <2>2 DEF TokensOK, SeenOK, Working
    <2>5. SettledOK'
      BY <1>1, <1>5, <2>2 DEF SettledOK, OkMeansSettled, At
    <2>6. CountOK'
      BY <1>1, <2>3 DEF CountOK
    <2>7. BudgetOK'
      <3>1. Spent' <= Spent
        BY <1>1, <1>5, FiguresTyped DEF Spent, Guarded
      <3> QED
        BY <1>1, <1>2, <3>1, BudgetMove DEF LimitsRise
    <2>8. QuietOK'
      BY <1>1, <1>5, <2>2, <2>3 DEF QuietOK, Owns, Working, NoFault, limits
    <2> QED
      BY <2>4, <2>5, <2>6, <2>7, <2>8 DEF GrantInv
  <1> QED
    BY <1>3, <1>4, <1>5 DEF Look, Busy, Already

LEMMA RedeliverInv ==
    ASSUME Inv, TypeOK', NEW d \in Delivery, Redeliver(d)
    PROVE  GrantInv'
  <1>1. Moved(d, "insert") /\ att'[d].token = 0
    BY ArrivedStep DEF Inv
  <1>2. /\ att[d].pc = "error"
        /\ UNCHANGED <<claim, tokens, credited, uses, user, reported, slow, faults, deaths>>
    BY DEF Redeliver, At, limits
  <1> QED
    BY <1>1, <1>2, IdleMove

-----------------------------------------------------------------------------
(* The grant, its rollback, its mark and its coupon. *)

LEMMA CreditInv ==
    ASSUME Inv, TypeOK', NEW d \in Delivery, Credit(d)
    PROVE  GrantInv'
  <1>1. /\ TypeOK /\ TokensOK /\ SeenOK /\ SettledOK /\ CountOK /\ BudgetOK /\ QuietOK
        /\ att[d].pc = "credit" /\ credited \in Nat /\ faults \in Nat /\ tokens \in Nat
        /\ uses \in Nat /\ UNCHANGED <<claim, tokens, uses, user, reported>>
    BY BoundAssumption DEF Inv, GrantInv, Credit, At, TypeOK
  <1>2. /\ UNCHANGED <<slow, deaths>> /\ faults' \in {faults, faults + 1}
        /\ NoFault => faults' = faults
        /\ Fault => faults' = faults + 1
    BY DEF Credit, NoFault, Fault, limits
  <1>3. PICK pc \in {"mark", "rollback"} :
          /\ Moved(d, pc) /\ att'[d].token = att[d].token
          /\ \/ pc = "mark" /\ user /\ credited' = credited + 1 /\ NoFault
             \/ pc = "rollback" /\ ~user /\ credited' = credited /\ NoFault
             \/ pc = "rollback" /\ Fault
                  /\ (credited' = credited \/ (user /\ credited' = credited + 1))
    <2>1. CASE user /\ credited' = credited + 1 /\ Go(d, "mark") /\ NoFault
      BY <1>1, <2>1, GoStep DEF Pc, Keeps
    <2>2. CASE ~user /\ NoFault /\ credited' = credited
               /\ att' = [att EXCEPT ![d].pc = "rollback", ![d].missing = TRUE]
      BY <1>1, <2>2, MissingStep
    <2>3. CASE /\ credited' = credited \/ (user /\ credited' = credited + 1)
               /\ Go(d, "rollback") /\ Fault
      BY <1>1, <2>3, GoStep DEF Pc, Keeps
    <2> QED
      BY <2>1, <2>2, <2>3 DEF Credit
  <1>4. att'[d].pc = pc /\ \A e \in Delivery \ {d} : att'[e] = att[e]
    BY <1>3 DEF Moved
  <1>5. credited' \in {credited, credited + 1} /\ (pc = "mark" => credited' = credited + 1)
    BY <1>3
  <1>6. TokensOK' /\ SeenOK'
    BY <1>1, <1>3, <1>4 DEF TokensOK, SeenOK, Working
  <1>7. SettledOK'
    BY <1>1, <1>4, <1>5 DEF SettledOK, OkMeansSettled, At
  <1>8. /\ Cardinality(In({"credit"})) \in Nat
        /\ Cardinality(In({"credit"})') = Cardinality(In({"credit"})) - 1
        /\ Cardinality(In({"mark"})) \in Nat
        /\ Cardinality(In({"mark"})') = Cardinality(In({"mark"})) + (IF pc = "mark" THEN 1 ELSE 0)
        /\ Cardinality(In({"mark", "coupon"})) \in Nat
        /\ Cardinality(In({"mark", "coupon"})') =
              Cardinality(In({"mark", "coupon"})) + (IF pc = "mark" THEN 1 ELSE 0)
    BY <1>1, <1>3, Counted
  <1>9. CountOK'
    BY <1>1, <1>5, <1>8 DEF CountOK
  <1>10. BudgetOK'
    <2>1. pc = "mark" => (Guarded => Guarded')
      BY <1>1, <1>3, <1>4 DEF Guarded, Guards, Owns
    <2>2. Spent' <= Spent \/ (Spent' <= Spent + 1 /\ Paid) \/ ~user
      BY <1>1, <1>2, <1>3, <2>1, FiguresTyped DEF Spent, Paid
    <2>3. CASE ~user
      <3>1. credited' = credited /\ CreditBound
        BY <1>1, <1>3, <2>3 DEF BudgetOK
      <3> QED
        BY <1>1, <1>2, <2>3, <3>1, CreditBoundMove DEF BudgetOK, LimitsRise
    <2>4. CASE user
      <3>1. user' => Spent' <= Budget'
        BY <1>1, <1>2, <2>2, <2>4, SpentMove DEF LimitsRise
      <3>2. /\ credited' \in Int /\ tokens' \in Int
            /\ Cardinality(In({"credit"})') \in Nat
        BY <1>1, <1>3, Counted DEF TypeOK
      <3>4. credited' <= tokens'
        BY <1>9, <3>2, Below DEF CountOK
      <3>3. CreditBound'
        BY <1>1, <2>4, <3>1, <3>4, SpentBound
      <3> QED
        BY <3>1, <3>3 DEF BudgetOK
    <2> QED
      BY <1>1, <2>3, <2>4 DEF TypeOK
  <1>11. QuietOK'
    <2>1. faults' = 0 => /\ faults = 0
                         /\ credited' = credited + (IF pc = "mark" THEN 1 ELSE 0)
      BY <1>1, <1>2, <1>3
    <2>2. (faults' = 0 /\ deaths' = 0) =>
             \A e \in Delivery : att'[e].pc \in Working /\ Owns(e)' => claim'.state = "pending"
      BY <1>1, <1>2, <1>3, <1>4, <2>1 DEF QuietOK, Owns, Working
    <2> QED
      BY <1>1, <1>2, <1>8, <2>1, <2>2 DEF QuietOK
  <1> QED
    BY <1>6, <1>7, <1>9, <1>10, <1>11 DEF GrantInv

\* What a step of the attempt may add to the tokens that can be spent.
LEMMA SpentKept ==
    ASSUME TypeOK, TypeOK', tokens' = tokens
    PROVE  /\ (Guarded => Guarded') => Spent' <= Spent
           /\ Spent' <= Spent + 1
  <1>1. tokens \in Int
    BY DEF TypeOK
  <1> QED
    BY <1>1 DEF Spent

LEMMA RollbackInv ==
    ASSUME Inv, TypeOK', NEW d \in Delivery, Rollback(d)
    PROVE  GrantInv'
  <1>1. /\ TypeOK /\ TokensOK /\ SeenOK /\ SettledOK /\ CountOK /\ BudgetOK /\ QuietOK
        /\ att[d].pc = "rollback" /\ claim.token \in Nat /\ faults \in Nat
        /\ UNCHANGED <<tokens, credited, uses, user>>
    BY BoundAssumption DEF Inv, GrantInv, Rollback, At, TypeOK, Claim
  <1>2. /\ UNCHANGED <<slow, deaths>> /\ faults' \in {faults, faults + 1}
        /\ reported => reported'
        /\ claim' \in {claim, Freed(d)}
    BY DEF Rollback, NoFault, Fault, limits
  <1>3. PICK pc \in {"ok", "error"} :
          Moved(d, pc) /\ Keeps(d) /\ (pc = "ok" => reported')
    <2>1. ASSUME att[d].missing PROVE Go(d, "ok") /\ reported'
      BY <2>1 DEF Rollback
    <2>2. ASSUME ~att[d].missing PROVE Go(d, "error")
      BY <2>2 DEF Rollback
    <2> QED
      BY <1>1, <2>1, <2>2, GoStep DEF Pc
  <1>4. /\ att'[d].pc = pc /\ att'[d].token = att[d].token
        /\ \A e \in Delivery \ {d} : att'[e] = att[e]
    BY <1>3 DEF Moved, Keeps
  <1>5. \/ claim' = claim
        \/ claim' = NoClaim /\ claim.state = "pending" /\ Owns(d)
    BY <1>2 DEF Freed
  <1>6. NoClaim.state = "none" /\ NoClaim.token = 0
    BY DEF NoClaim
  <1>7. /\ In({"credit"})' = In({"credit"}) /\ In({"mark"})' = In({"mark"})
        /\ In({"mark", "coupon"})' = In({"mark", "coupon"})
    BY <1>1, <1>4 DEF In
  <1>8. TokensOK'
    BY <1>1, <1>4, <1>5, <1>6, NextToken DEF TokensOK, Working
  <1>9. SeenOK'
    BY <1>1, <1>4, <1>5, <1>6, NextToken DEF SeenOK
  <1>10. SettledOK'
    BY <1>1, <1>2, <1>3, <1>4, <1>5, <1>6 DEF SettledOK, OkMeansSettled, At
  <1>11. CountOK'
    BY <1>1, <1>7 DEF CountOK
  <1>12. BudgetOK'
    <2>1. ASSUME Guarded PROVE Guarded'
      <3>1. CASE claim' = claim
        BY <1>1, <1>4, <2>1, <3>1 DEF Guarded, Guards, Owns
      <3>2. CASE claim.state = "pending" /\ Owns(d)
        BY <1>1, <2>1, <3>2 DEF Guarded, Guards, Owns, TokensOK, Working
      <3> QED
        BY <1>5, <3>1, <3>2
    <2>2. Spent' <= Spent
      BY <1>1, <2>1, SpentKept
    <2> QED
      BY <1>1, <1>2, <2>2, BudgetMove DEF LimitsRise
  <1>13. QuietOK'
    <2>1. CASE claim' = claim
      BY <1>1, <1>2, <1>3, <1>4, <1>7, <2>1 DEF QuietOK, Owns, Working
    <2>2. CASE claim' = NoClaim /\ claim.state = "pending"
      <3>1. \A e \in Delivery : att'[e].pc \in Working => att'[e].token > 0
        BY <1>8 DEF TokensOK
      <3>2. \A e \in Delivery : ~(att'[e].pc \in Working /\ Owns(e)')
        BY <1>6, <2>2, <3>1 DEF Owns
      <3> QED
        BY <1>1, <1>2, <1>6, <1>7, <2>2, <3>2 DEF QuietOK
    <2> QED
      BY <1>5, <2>1, <2>2
  <1> QED
    BY <1>8, <1>9, <1>10, <1>11, <1>12, <1>13 DEF GrantInv

LEMMA MarkInv ==
    ASSUME Inv, TypeOK', NEW d \in Delivery, Mark(d)
    PROVE  GrantInv'
  <1>1. /\ TypeOK /\ TokensOK /\ SeenOK /\ SettledOK /\ CountOK /\ BudgetOK /\ QuietOK
        /\ att[d].pc = "mark" /\ claim \in Claim /\ faults \in Nat /\ credited \in Nat
        /\ UNCHANGED <<tokens, credited, uses, user>>
    BY BoundAssumption DEF Inv, GrantInv, Mark, At, TypeOK
  <1>2. UNCHANGED <<slow, deaths>> /\ faults' \in {faults, faults + 1}
    BY DEF Mark, NoFault, Fault, limits
  <1>3. PICK pc \in {"mark", "coupon"} :
          /\ Moved(d, pc) /\ Keeps(d)
          /\ \/ /\ pc = "coupon" /\ NoFault /\ claim' = MarkedClaim(d)
                /\ reported' = (reported \/ Superseded(d))
             \/ Fault /\ claim' \in {claim, MarkedClaim(d)}
    <2>1. CASE /\ claim' = MarkedClaim(d) /\ reported' = (reported \/ Superseded(d))
               /\ Go(d, "coupon") /\ NoFault
      BY <1>1, <2>1, GoStep DEF Pc
    <2>2. CASE claim' \in {claim, MarkedClaim(d)} /\ Fault /\ Go(d, "coupon")
      BY <1>1, <2>2, GoStep DEF Pc
    <2>3. CASE /\ claim' \in {claim, MarkedClaim(d)} /\ Fault
               /\ ~LastTry(d) /\ att' = [att EXCEPT ![d].tries = @ + 1]
      BY <1>1, <2>3, TriesStep
    <2> QED
      BY <2>1, <2>2, <2>3 DEF Mark
  <1>4. /\ att'[d].pc = pc /\ att'[d].token = att[d].token
        /\ \A e \in Delivery \ {d} : att'[e] = att[e]
    BY <1>3 DEF Moved, Keeps
  <1>5. claim' = claim \/ (claim.state # "none" /\ Owns(d) /\ claim'.state = "granted")
    BY <1>1, <1>3 DEF MarkedClaim, Claim
  <1>6. claim'.token = claim.token /\ claim'.fresh = claim.fresh
    BY <1>1, <1>3 DEF MarkedClaim, Claim
  <1>7. /\ In({"credit"})' = In({"credit"})
        /\ In({"mark", "coupon"})' = In({"mark", "coupon"})
    BY <1>1, <1>4 DEF In
  <1>8. TokensOK'
    BY <1>1, <1>4, <1>5, <1>6 DEF TokensOK, Working
  <1>9. SeenOK'
    BY <1>1, <1>4, <1>6 DEF SeenOK
  <1>10. SettledOK'
    BY <1>1, <1>4 DEF SettledOK, OkMeansSettled, At
  <1>11. CountOK'
    BY <1>1, <1>7 DEF CountOK
  <1>12. BudgetOK'
    <2>1. CASE Fault
      <3>1. Paid
        BY <2>1 DEF Paid, Fault
      <3> QED
        BY <1>1, <1>2, <3>1, SpentKept, BudgetMove DEF LimitsRise
    <2>2. CASE claim' = MarkedClaim(d)
      <3>1. ASSUME Guarded PROVE Guarded'
        BY <1>1, <1>4, <1>5, <1>6, <2>2, <3>1 DEF Guarded, Guards, Owns, MarkedClaim
      <3> QED
        BY <1>1, <1>2, <3>1, SpentKept, BudgetMove DEF LimitsRise
    <2> QED
      BY <1>3, <2>1, <2>2
  <1>13. QuietOK'
    <2>1. CASE Fault
      BY <1>1, <2>1 DEF QuietOK, Fault
    <2>2. CASE /\ pc = "coupon" /\ NoFault /\ claim' = MarkedClaim(d)
               /\ reported' = (reported \/ Superseded(d))
      <3>1. /\ Cardinality(In({"mark"})) \in Nat
            /\ Cardinality(In({"mark"})') = Cardinality(In({"mark"})) - 1
        BY <1>1, <1>3, <2>2, Counted
      <3>2. UNCHANGED <<slow, faults, deaths>>
        BY <2>2 DEF NoFault, limits
      <3>3. CASE Superseded(d)
        <4>1. claim' = claim
          BY <2>2, <3>3 DEF Superseded, MarkedClaim
        <4>2. \A e \in Delivery : att'[e].pc \in Working /\ Owns(e)'
                                     => att[e].pc \in Working /\ Owns(e)
          BY <1>4, <2>2, <4>1 DEF Owns, Working
        <4> QED
          BY <1>1, <2>2, <3>2, <3>3, <4>1, <4>2 DEF QuietOK
      <3>4. CASE ~Superseded(d)
        <4>1. Owns(d) /\ claim.state # "none" /\ claim'.state = "granted"
          BY <1>1, <2>2, <3>4 DEF Superseded, MarkedClaim, Claim
        <4>2. \A e \in Delivery : ~(att'[e].pc \in Working /\ Owns(e)')
          BY <1>1, <1>4, <1>6, <2>2, <4>1 DEF Owns, Working, TokensOK
        <4>3. faults = 0 /\ deaths = 0 => claim.state = "pending"
          BY <1>1, <4>1 DEF QuietOK, Working
        <4>4. ~reported' => ~reported
          BY <2>2
        <4> QED
          BY <1>1, <3>1, <3>2, <4>1, <4>2, <4>3, <4>4 DEF QuietOK
      <3> QED
        BY <3>3, <3>4
    <2> QED
      BY <1>3, <2>1, <2>2
  <1> QED
    BY <1>8, <1>9, <1>10, <1>11, <1>12, <1>13 DEF GrantInv

LEMMA CountCouponInv ==
    ASSUME Inv, TypeOK', NEW d \in Delivery, CountCoupon(d)
    PROVE  GrantInv'
  <1>1. /\ TypeOK /\ TokensOK /\ SeenOK /\ SettledOK /\ CountOK /\ BudgetOK /\ QuietOK
        /\ att[d].pc = "coupon" /\ faults \in Nat /\ credited \in Nat /\ uses \in Nat
        /\ UNCHANGED <<claim, tokens, credited, user, reported>>
    BY BoundAssumption DEF Inv, GrantInv, CountCoupon, At, TypeOK
  <1>2. /\ UNCHANGED <<slow, deaths>> /\ faults' \in {faults, faults + 1}
        /\ uses' \in {uses, uses + 1}
    BY DEF CountCoupon, NoFault, Fault, limits
  <1>3. Moved(d, "ok") /\ Keeps(d)
    BY <1>1, GoStep DEF CountCoupon, Pc
  <1>4. /\ att'[d].pc = "ok" /\ att'[d].token = att[d].token
        /\ \A e \in Delivery \ {d} : att'[e] = att[e]
    BY <1>3 DEF Moved, Keeps
  <1>5. In({"credit"})' = In({"credit"}) /\ In({"mark"})' = In({"mark"})
    BY <1>1, <1>4 DEF In
  <1>6. TokensOK' /\ SeenOK'
    BY <1>1, <1>4 DEF TokensOK, SeenOK, Working
  <1>7. SettledOK'
    BY <1>1, <1>4 DEF SettledOK, OkMeansSettled, At
  <1>8. CountOK'
    <2>1. /\ Cardinality(In({"mark", "coupon"})) \in Nat
          /\ Cardinality(In({"mark", "coupon"})') = Cardinality(In({"mark", "coupon"})) - 1
      BY <1>1, <1>3, Counted
    <2> QED
      BY <1>1, <1>2, <1>5, <2>1 DEF CountOK
  <1>9. BudgetOK'
    <2>1. Guarded => Guarded'
      BY <1>1, <1>4 DEF Guarded, Guards, Owns
    <2> QED
      BY <1>1, <1>2, <2>1, SpentKept, BudgetMove DEF LimitsRise
  <1>10. QuietOK'
    BY <1>1, <1>2, <1>4, <1>5 DEF QuietOK, Owns, Working
  <1> QED
    BY <1>6, <1>7, <1>8, <1>9, <1>10 DEF GrantInv


-----------------------------------------------------------------------------
(* The environment. *)

\* A claim goes stale under an attempt that was too slow, or nobody had it.
LEMMA ClaimGoesStaleInv ==
    ASSUME Inv, TypeOK', ClaimGoesStale
    PROVE  GrantInv'
  <1>1. /\ TypeOK /\ TokensOK /\ SeenOK /\ SettledOK /\ CountOK /\ BudgetOK /\ QuietOK
        /\ claim \in Claim /\ tokens \in Int
        /\ UNCHANGED <<tokens, credited, uses, user, reported, att, faults, deaths>>
    BY DEF Inv, GrantInv, ClaimGoesStale, TypeOK
  <1>2. /\ claim.state = "pending" /\ claim'.state = "pending"
        /\ claim'.token = claim.token /\ claim'.fresh = FALSE
    BY <1>1 DEF ClaimGoesStale, Claim
  <1>3. TokensOK' /\ SeenOK'
    BY <1>1, <1>2 DEF TokensOK, SeenOK
  <1>4. SettledOK'
    BY <1>1, <1>2 DEF SettledOK, OkMeansSettled, At
  <1>5. In({"credit"})' = In({"credit"}) /\ In({"mark"})' = In({"mark"})
        /\ In({"mark", "coupon"})' = In({"mark", "coupon"})
    BY <1>1 DEF In
  <1>6. CountOK'
    BY <1>1, <1>5 DEF CountOK
  <1>7. BudgetOK'
    <2>1. CASE \E d \in Delivery : Guards(d)
      <3>1. slow' = slow + 1
        BY <2>1 DEF ClaimGoesStale
      <3> QED
        BY <1>1, <3>1, SpentKept, BudgetMove DEF LimitsRise, Paid
    <2>2. CASE ~\E d \in Delivery : Guards(d)
      <3>1. ~Guarded /\ slow' = slow
        BY <1>2, <2>2 DEF Guarded, ClaimGoesStale
      <3> QED
        BY <1>1, <3>1, SpentKept, BudgetMove DEF LimitsRise
    <2> QED
      BY <2>1, <2>2
  <1>8. QuietOK'
    BY <1>1, <1>2, <1>5 DEF QuietOK, Owns
  <1> QED
    BY <1>3, <1>4, <1>6, <1>7, <1>8 DEF GrantInv

LEMMA ProcessDiesInv ==
    ASSUME Inv, TypeOK', ProcessDies
    PROVE  GrantInv'
  <1>1. /\ TypeOK /\ TokensOK /\ SeenOK /\ SettledOK /\ CountOK /\ BudgetOK
        /\ att \in [Delivery -> Attempt] /\ deaths \in Nat
        /\ credited \in Int /\ tokens \in Int /\ uses \in Int
        /\ UNCHANGED <<claim, tokens, credited, uses, user, reported, slow, faults>>
    BY BoundAssumption DEF Inv, GrantInv, ProcessDies, TypeOK
  <1>2. deaths' = deaths + 1
    BY DEF ProcessDies
  <1>3. \A d \in Delivery :
           /\ att'[d].token = att[d].token
           /\ att'[d].pc = IF att[d].pc = "ok" THEN "ok" ELSE "error"
    BY <1>1 DEF ProcessDies, At, Attempt
  <1>4. TokensOK' /\ SeenOK'
    BY <1>1, <1>3 DEF TokensOK, SeenOK, Working
  <1>5. SettledOK'
    BY <1>1, <1>3 DEF SettledOK, OkMeansSettled, At
  <1>6. CountOK'
    <2>1. /\ In({"credit"})' = {} /\ In({"mark", "coupon"})' = {}
      BY <1>3 DEF In
    <2>2. Cardinality({}) = 0
      BY FS_EmptySet
    <2>3. /\ Cardinality(In({"credit"})) \in Nat
          /\ Cardinality(In({"mark", "coupon"})) \in Nat
      BY DeliveryAssumption, FS_Subset, FS_CardinalityType DEF In
    <2>4. credited <= tokens /\ uses <= credited
      BY <1>1, <2>3, Below DEF CountOK
    <2> QED
      BY <1>1, <2>1, <2>2, <2>4 DEF CountOK
  <1>7. BudgetOK'
    BY <1>1, <1>2, SpentKept, BudgetMove DEF LimitsRise, Paid
  <1>8. QuietOK'
    BY <1>1, <1>2 DEF QuietOK
  <1> QED
    BY <1>4, <1>5, <1>6, <1>7, <1>8 DEF GrantInv

LEMMA UserErasedInv ==
    ASSUME Inv, TypeOK', UserErased
    PROVE  GrantInv'
  <1>1. /\ TokensOK /\ SeenOK /\ SettledOK /\ CountOK /\ BudgetOK /\ QuietOK
        /\ ~user'
        /\ UNCHANGED <<claim, tokens, credited, uses, reported, att, slow, faults, deaths>>
    BY DEF Inv, GrantInv, UserErased, limits
  <1>2. BudgetOK'
    BY <1>1 DEF BudgetOK, CreditBound
  <1>3. \A S : In(S)' = In(S)
    BY <1>1 DEF In
  <1> QED
    BY <1>1, <1>2, <1>3
    DEF GrantInv, TokensOK, SeenOK, SettledOK, OkMeansSettled, At, CountOK, QuietOK, Owns

-----------------------------------------------------------------------------
(* The invariant. *)

LEMMA InitInv == Init => Inv
  <1> SUFFICES ASSUME Init PROVE Inv
    OBVIOUS
  <1>1. Arrived \in Attempt /\ Arrived.pc = "insert" /\ Arrived.token = 0
    BY AttemptsAssumption DEF Arrived, Attempt, Pc
  <1>2. /\ NoClaim \in Claim /\ NoClaim.state = "none" /\ NoClaim.token = 0
        /\ claim = NoClaim
    BY DEF NoClaim, Claim, Init
  <1>3. TypeOK
    <2>1. 0 \in 0..MaxSlow /\ 0 \in 0..MaxFaults /\ 0 \in 0..MaxDeaths
      BY BoundAssumption
    <2>2. att \in [Delivery -> Attempt]
      BY <1>1 DEF Init
    <2> QED
      BY <1>2, <2>1, <2>2 DEF Init, TypeOK
  <1>4. \A d \in Delivery : att[d] = Arrived
    BY DEF Init
  <1>5. \A S : "insert" \notin S => Cardinality(In(S)) = 0
    BY <1>1, <1>4, FS_EmptySet DEF In
  <1>6. TokensOK /\ SeenOK /\ SettledOK
    BY <1>1, <1>2, <1>4
    DEF Init, TokensOK, SeenOK, SettledOK, OkMeansSettled, At, Working
  <1>7. CountOK
    BY <1>5 DEF Init, CountOK
  <1>8. BudgetOK
    BY DEF Init, BudgetOK, CreditBound, Budget, Spent
  <1>9. QuietOK
    BY <1>1, <1>2, <1>4, <1>5 DEF Init, QuietOK, Working
  <1> QED
    BY <1>3, <1>6, <1>7, <1>8, <1>9 DEF Inv, GrantInv

LEMMA NextInv == Inv /\ [Next]_vars => Inv'
  <1> SUFFICES ASSUME Inv, [Next]_vars PROVE Inv'
    OBVIOUS
  <1>1. CASE Next
    <2>1. TypeOK'
      BY <1>1, TypeStep DEF Inv
    <2>2. GrantInv'
      BY <1>1, <2>1, InsertInv, LookInv, ReclaimInv, CreditInv, RollbackInv, MarkInv,
         CountCouponInv, RedeliverInv, ClaimGoesStaleInv, ProcessDiesInv, UserErasedInv
      DEF Next, Handle
    <2> QED
      BY <2>1, <2>2 DEF Inv
  <1>2. CASE UNCHANGED vars
    <2>1. /\ UNCHANGED <<claim, tokens, credited, uses, user, reported, att>>
          /\ UNCHANGED <<slow, faults, deaths>>
      BY <1>2 DEF vars, limits
    <2>2. TypeOK'
      BY <2>1 DEF Inv, TypeOK
    <2>3. \A S : In(S)' = In(S)
      BY <2>1 DEF In
    <2>4. BudgetOK'
      BY <2>1 DEF Inv, GrantInv, BudgetOK, CreditBound, Spent, Budget, Guarded, Guards, Owns
    <2>5. GrantInv'
      BY <2>1, <2>3, <2>4
      DEF Inv, GrantInv, TokensOK, SeenOK, SettledOK, OkMeansSettled, At, CountOK, QuietOK, Owns
    <2> QED
      BY <2>2, <2>5 DEF Inv
  <1> QED
    BY <1>1, <1>2

\* The grant's state keeps its types: no more than MaxSlow claims go stale in
\* working hands, and an attempt tries its mark less than MarkGrantedAttempts
\* times beyond the first.
THEOREM GrantTypeCorrect == Spec => []TypeOK
  <1>1. Inv => TypeOK
    BY DEF Inv
  <1> QED
    BY <1>1, InitInv, NextInv, PTL DEF Spec

\* A webhook of the order is answered 200 only when grantTopupInk credited the
\* units, or reported the order for a manual grant.
THEOREM OkIsSettled == Spec => []OkMeansSettled
  <1>1. Inv => OkMeansSettled
    BY DEF Inv, GrantInv, SettledOK
  <1> QED
    BY <1>1, InitInv, NextInv, PTL DEF Spec

\* Whatever its webhooks race, the claim lets the order be credited once, and
\* once more for each attempt that was slow, call that threw or process that died.
THEOREM CreditsBounded == Spec => []CreditBound
  <1>1. Inv => CreditBound
    BY DEF Inv, GrantInv, BudgetOK
  <1> QED
    BY <1>1, InitInv, NextInv, PTL DEF Spec

\* Two attempts that both credited the order are not both silent: one of their
\* marks finds the other's token and reports.
THEOREM DoubleGrantsReported == Spec => []DoubleGrantReported
  <1>1. Inv => DoubleGrantReported
    <2> SUFFICES ASSUME Inv, faults = 0, deaths = 0, credited > 1, ~reported,
                        \A d \in Delivery : ~At(d, "mark")
                 PROVE  FALSE
      BY DEF DoubleGrantReported, Inv, TypeOK
    <2>1. Cardinality(In({"mark"})) = 0
      BY FS_EmptySet DEF In, At
    <2>2. credited <= 1 /\ credited \in Nat
      BY <2>1 DEF Inv, GrantInv, QuietOK, TypeOK
    <2> QED
      BY <2>2
  <1> QED
    BY <1>1, InitInv, NextInv, PTL DEF Spec

\* The coupon of the order is never counted more often than the order is granted.
THEOREM CouponsWithinGrants == Spec => []CouponWithinGrants
  <1>1. Inv => CouponWithinGrants
    <2> SUFFICES ASSUME Inv PROVE uses <= credited
      BY DEF CouponWithinGrants
    <2>1. Cardinality(In({"mark", "coupon"})) \in Nat
      BY DeliveryAssumption, FS_Subset, FS_CardinalityType DEF In
    <2> QED
      BY <2>1, Below DEF Inv, GrantInv, CountOK, TypeOK
  <1> QED
    BY <1>1, InitInv, NextInv, PTL DEF Spec

\* The grant's invariant, as the run checks it: the coupon stays within the
\* grants, and the order that was granted twice is reported.
THEOREM GrantsSound == Spec => []GrantsOK
  <1>1. TypeOK /\ CouponWithinGrants /\ DoubleGrantReported => GrantsOK
    BY DEF GrantsOK
  <1> QED
    BY <1>1, GrantTypeCorrect, CouponsWithinGrants, DoubleGrantsReported, PTL

=============================================================================
