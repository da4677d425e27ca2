------------------------ MODULE RefundReversalProofs ------------------------
(***************************************************************************)
(* Proofs about RefundReversal: refunds of one grant, however many and     *)
(* however their attempts overlap, are never due more than the grant gave, *)
(* and one refund debits the balance once; refunds of a payment that never *)
(* overlapped and add up to it are due the grant to the unit.              *)
(***************************************************************************)
EXTENDS RefundReversal, FiniteSetTheorems, WellFoundedInduction, TLAPS

-----------------------------------------------------------------------------
(* Sums over finite sets. MapThenSumSet is a fold; the induction is a       *)
(* minimal counterexample among the subsets of a finite set.                *)

SumOver(f, S) == MapThenSumSet(LAMBDA x : f[x], S)

\* The element a fold takes first.
Taken(s) == CHOOSE x \in s : TRUE

\* g adds up f over every subset of T, in the order of the fold.
Adds(g, f, T) ==
    g = [s \in SUBSET T |-> IF s = {} THEN 0 ELSE f[Taken(s)] + g[s \ {Taken(s)}]]

-----------------------------------------------------------------------------
(* Induction on finite sets. *)

\* Of a set of subsets of a finite set, one has no smaller one in it.
LEMMA Least ==
    ASSUME NEW S, IsFiniteSet(S), NEW C \in SUBSET SUBSET S, C # {}
    PROVE  \E x \in C : \A y \in C : y \subseteq x => y = x
  <1>1. IsWellFoundedOn(StrictSubsetOrdering(S), SUBSET S)
    BY FS_StrictSubsetOrderingWellFounded, FS_FiniteSubsetsOfFinite
  <1>2. \E x \in C : \A y \in C : ~ (<<y, x>> \in StrictSubsetOrdering(S))
    BY <1>1, WFMin
  <1>3. \A x, y \in SUBSET S : y \subseteq x /\ y # x => <<y, x>> \in StrictSubsetOrdering(S)
    BY DEF StrictSubsetOrdering
  <1> QED
    BY <1>2, <1>3

LEMMA TakenIn == ASSUME NEW s, s # {} PROVE Taken(s) \in s
  BY DEF Taken

-----------------------------------------------------------------------------
(* The recursion of the fold has a solution, and only one. *)

LEMMA AddsValue ==
    ASSUME NEW g, NEW f, NEW T, Adds(g, f, T), NEW s \in SUBSET T
    PROVE  /\ s = {} => g[s] = 0
           /\ s # {} => /\ Taken(s) \in s
                        /\ g[s] = f[Taken(s)] + g[s \ {Taken(s)}]
  BY TakenIn DEF Adds

LEMMA AddsAgree ==
    ASSUME NEW S, IsFiniteSet(S), NEW f, NEW g, NEW h,
           NEW T \in SUBSET S, NEW U \in SUBSET S, Adds(g, f, T), Adds(h, f, U)
    PROVE  \A s \in SUBSET S : s \subseteq T /\ s \subseteq U => g[s] = h[s]
  <1> DEFINE Bad == {s \in SUBSET S : s \subseteq T /\ s \subseteq U /\ g[s] # h[s]}
  <1>1. SUFFICES ASSUME Bad # {} PROVE FALSE
    OBVIOUS
  <1>2. PICK b \in Bad : \A y \in Bad : y \subseteq b => y = b
    <2>1. Bad \in SUBSET SUBSET S
      OBVIOUS
    <2> HIDE DEF Bad
    <2> QED
      BY <1>1, <2>1, Least
  <1>3. b # {}
    BY <1>2, AddsValue
  <1>4. /\ Taken(b) \in b
        /\ g[b] = f[Taken(b)] + g[b \ {Taken(b)}]
        /\ h[b] = f[Taken(b)] + h[b \ {Taken(b)}]
    BY <1>2, <1>3, AddsValue
  <1>5. b \ {Taken(b)} \notin Bad
    BY <1>2, <1>4
  <1>6. g[b \ {Taken(b)}] = h[b \ {Taken(b)}]
    BY <1>2, <1>5
  <1> QED
    BY <1>2, <1>4, <1>6

LEMMA AddsExist ==
    ASSUME NEW S, IsFiniteSet(S), NEW f
    PROVE  \A T \in SUBSET S : \E g : Adds(g, f, T)
  <1> DEFINE Bad == {T \in SUBSET S : ~ \E g : Adds(g, f, T)}
  <1>1. SUFFICES ASSUME Bad # {} PROVE FALSE
    OBVIOUS
  <1>2. PICK b \in Bad : \A y \in Bad : y \subseteq b => y = b
    <2>1. Bad \in SUBSET SUBSET S
      OBVIOUS
    <2> HIDE DEF Bad
    <2> QED
      BY <1>1, <2>1, Least
  <1> DEFINE Value(s) == (CHOOSE g : Adds(g, f, s))[s]
             whole == IF b = {} THEN 0 ELSE f[Taken(b)] + Value(b \ {Taken(b)})
             sum == [s \in SUBSET b |-> IF s = b THEN whole ELSE Value(s)]
  <1>3. b \in SUBSET S
    BY <1>2
  <1>4. ASSUME NEW s \in SUBSET b, s # b
        PROVE  Adds(CHOOSE g : Adds(g, f, s), f, s)
    BY <1>2, <1>4
  <1>5. ASSUME NEW s \in SUBSET b, s # b
        PROVE  Value(s) = IF s = {} THEN 0 ELSE f[Taken(s)] + Value(s \ {Taken(s)})
    <2> DEFINE g == CHOOSE g : Adds(g, f, s)
               t == s \ {Taken(s)}
               h == CHOOSE h : Adds(h, f, t)
    <2>1. Adds(g, f, s)
      BY <1>4, <1>5
    <2>2. CASE s = {}
      BY <2>1, <2>2, AddsValue
    <2>3. CASE s # {}
      <3>1. Taken(s) \in s /\ g[s] = f[Taken(s)] + g[t]
        BY <2>1, <2>3, AddsValue
      <3>2. t \in SUBSET b /\ t # b /\ t \subseteq s
        BY <1>5, <3>1
      <3>3. Adds(h, f, t)
        BY <1>4, <3>2
      <3>4. g[t] = h[t]
        <4>1. t \in SUBSET S /\ s \in SUBSET S /\ t \subseteq s
          BY <1>3, <1>5, <3>2
        <4> HIDE DEF g, h, t
        <4> QED
          BY <2>1, <3>3, <4>1, AddsAgree
      <3> QED
        BY <2>3, <3>1, <3>4
    <2> QED
      BY <2>2, <2>3
  <1>6. ASSUME NEW s \in SUBSET b
        PROVE  sum[s] = IF s = {} THEN 0 ELSE f[Taken(s)] + sum[s \ {Taken(s)}]
    <2>1. s # {} => Taken(s) \in s /\ s \ {Taken(s)} \in SUBSET b /\ s \ {Taken(s)} # b
      BY <1>6, TakenIn
    <2>2. s # {} => sum[s \ {Taken(s)}] = Value(s \ {Taken(s)})
      <3> HIDE DEF Value, whole
      <3> QED
        BY <2>1
    <2>3. CASE s = b
      <3>1. sum[s] = whole
        BY <2>3
      <3> HIDE DEF sum, Value
      <3> QED
        BY <2>2, <2>3, <3>1
    <2>4. CASE s # b
      <3>1. sum[s] = Value(s)
        BY <2>4
      <3> HIDE DEF sum, Value
      <3> QED
        BY <1>5, <1>6, <2>2, <2>4, <3>1
    <2> QED
      BY <2>3, <2>4
  <1>7. Adds(sum, f, b)
    <2>1. sum = [s \in SUBSET b |-> sum[s]]
      OBVIOUS
    <2> HIDE DEF sum
    <2> QED
      BY <1>6, <2>1 DEF Adds
  <1> QED
    BY <1>2, <1>7

LEMMA SumAdds ==
    ASSUME NEW S, IsFiniteSet(S), NEW f
    PROVE  \E g : Adds(g, f, S) /\ SumOver(f, S) = g[S]
  <1>1. \E g : g = [s \in SUBSET S |-> IF s = {} THEN 0 ELSE f[Taken(s)] + g[s \ {Taken(s)}]]
    <2>1. S \in SUBSET S
      OBVIOUS
    <2>2. PICK g : Adds(g, f, S)
      BY <2>1, AddsExist
    <2> QED
      BY <2>2 DEF Adds
  <1>2. PICK g : /\ g = [s \in SUBSET S |-> IF s = {} THEN 0
                                            ELSE f[Taken(s)] + g[s \ {Taken(s)}]]
                 /\ SumOver(f, S) = g[S]
    BY <1>1 DEF SumOver, MapThenSumSet, MapThenFoldSet, Taken
  <1> QED
    BY <1>2 DEF Adds

LEMMA SumOfNone == ASSUME NEW f PROVE SumOver(f, {}) = 0
  <1>1. IsFiniteSet({})
    BY FS_EmptySet
  <1>2. PICK g : Adds(g, f, {}) /\ SumOver(f, {}) = g[{}]
    BY <1>1, SumAdds
  <1> QED
    BY <1>2, AddsValue

LEMMA SumTakes ==
    ASSUME NEW S, IsFiniteSet(S), S # {}, NEW f
    PROVE  /\ Taken(S) \in S
           /\ SumOver(f, S) = f[Taken(S)] + SumOver(f, S \ {Taken(S)})
  <1>1. PICK g : Adds(g, f, S) /\ SumOver(f, S) = g[S]
    BY SumAdds
  <1> DEFINE R == S \ {Taken(S)}
  <1>2. Taken(S) \in S /\ g[S] = f[Taken(S)] + g[R]
    BY <1>1, AddsValue
  <1>3. R \in SUBSET S /\ IsFiniteSet(R)
    BY FS_Subset
  <1>4. PICK h : Adds(h, f, R) /\ SumOver(f, R) = h[R]
    BY <1>3, SumAdds
  <1>5. g[R] = h[R]
    <2> HIDE DEF R
    <2> QED
      BY <1>1, <1>3, <1>4, AddsAgree
  <1> QED
    BY <1>1, <1>2, <1>4, <1>5

-----------------------------------------------------------------------------
(* What the proofs use. *)

\* A sum of natural numbers is one.
LEMMA SumNat ==
    ASSUME NEW S, IsFiniteSet(S), NEW f, \A x \in S : f[x] \in Nat
    PROVE  SumOver(f, S) \in Nat
  <1> DEFINE Bad == {T \in SUBSET S : SumOver(f, T) \notin Nat}
  <1>1. SUFFICES ASSUME Bad # {} PROVE FALSE
    OBVIOUS
  <1>2. PICK b \in Bad : \A y \in Bad : y \subseteq b => y = b
    <2>1. Bad \in SUBSET SUBSET S
      OBVIOUS
    <2> HIDE DEF Bad
    <2> QED
      BY <1>1, <2>1, Least
  <1>3. b \in SUBSET S /\ SumOver(f, b) \notin Nat /\ IsFiniteSet(b)
    BY <1>2, FS_Subset
  <1>4. b # {}
    BY <1>3, SumOfNone
  <1>5. Taken(b) \in b /\ SumOver(f, b) = f[Taken(b)] + SumOver(f, b \ {Taken(b)})
    BY <1>3, <1>4, SumTakes
  <1>6. SumOver(f, b \ {Taken(b)}) \in Nat
    BY <1>2, <1>5
  <1>7. f[Taken(b)] \in Nat
    BY <1>3, <1>5
  <1> QED
    BY <1>3, <1>5, <1>6, <1>7

\* The sum is one element's value and that of the others, whichever it is.
LEMMA SumWithout ==
    ASSUME NEW S, IsFiniteSet(S), NEW f, \A x \in S : f[x] \in Nat, NEW e \in S
    PROVE  SumOver(f, S) = f[e] + SumOver(f, S \ {e})
  <1> DEFINE Bad == {T \in SUBSET S : \E x \in T : SumOver(f, T) # f[x] + SumOver(f, T \ {x})}
  <1>1. SUFFICES ASSUME Bad # {} PROVE FALSE
    OBVIOUS
  <1>2. PICK b \in Bad : \A y \in Bad : y \subseteq b => y = b
    <2>1. Bad \in SUBSET SUBSET S
      OBVIOUS
    <2> HIDE DEF Bad
    <2> QED
      BY <1>1, <2>1, Least
  <1>3. PICK x \in b : SumOver(f, b) # f[x] + SumOver(f, b \ {x})
    BY <1>2
  <1>4. b \in SUBSET S /\ IsFiniteSet(b)
    BY <1>2, FS_Subset
  <1>5. PICK t \in b : SumOver(f, b) = f[t] + SumOver(f, b \ {t})
    BY <1>3, <1>4, SumTakes
  <1>6. x # t /\ x \in b \ {t} /\ t \in b \ {x} /\ (b \ {t}) \ {x} = (b \ {x}) \ {t}
    BY <1>3, <1>5
  <1>7. b \ {t} \notin Bad /\ b \ {x} \notin Bad
    BY <1>2, <1>6
  <1>8. /\ SumOver(f, b \ {t}) = f[x] + SumOver(f, (b \ {t}) \ {x})
        /\ SumOver(f, b \ {x}) = f[t] + SumOver(f, (b \ {x}) \ {t})
    BY <1>4, <1>6, <1>7
  <1>9. SumOver(f, (b \ {x}) \ {t}) \in Nat
    <2>1. IsFiniteSet((b \ {x}) \ {t})
      BY <1>4, FS_Subset
    <2> QED
      BY <1>4, <2>1, SumNat
  <1>10. f[x] \in Nat /\ f[t] \in Nat
    BY <1>4
  <1>11. SumOver(f, b \ {t}) = f[x] + SumOver(f, (b \ {x}) \ {t})
    BY <1>6, <1>8
  <1>12. SumOver(f, b) = f[x] + SumOver(f, b \ {x})
    BY <1>5, <1>8, <1>9, <1>10, <1>11
  <1> QED
    BY <1>3, <1>12

\* A sum grows with the function ...
LEMMA SumGrows ==
    ASSUME NEW S, IsFiniteSet(S), NEW f, NEW g,
           \A x \in S : f[x] \in Nat /\ g[x] \in Nat /\ f[x] <= g[x]
    PROVE  SumOver(f, S) <= SumOver(g, S)
  <1> DEFINE Bad == {T \in SUBSET S : ~(SumOver(f, T) <= SumOver(g, T))}
  <1>1. SUFFICES ASSUME Bad # {} PROVE FALSE
    OBVIOUS
  <1>2. PICK b \in Bad : \A y \in Bad : y \subseteq b => y = b
    <2>1. Bad \in SUBSET SUBSET S
      OBVIOUS
    <2> HIDE DEF Bad
    <2> QED
      BY <1>1, <2>1, Least
  <1>3. b \in SUBSET S /\ IsFiniteSet(b) /\ ~(SumOver(f, b) <= SumOver(g, b))
    BY <1>2, FS_Subset
  <1>4. b # {}
    BY <1>3, SumOfNone
  <1>5. PICK t \in b : /\ SumOver(f, b) = f[t] + SumOver(f, b \ {t})
                       /\ SumOver(g, b) = g[t] + SumOver(g, b \ {t})
    BY <1>3, <1>4, SumTakes
  <1>6. SumOver(f, b \ {t}) <= SumOver(g, b \ {t})
    BY <1>2
  <1>7. SumOver(f, b \ {t}) \in Nat /\ SumOver(g, b \ {t}) \in Nat
    <2>1. IsFiniteSet(b \ {t})
      BY <1>3, FS_Subset
    <2> QED
      BY <1>3, <2>1, SumNat
  <1>8. f[t] \in Nat /\ g[t] \in Nat /\ f[t] <= g[t]
    BY <1>3
  <1> QED
    BY <1>3, <1>5, <1>6, <1>7, <1>8

\* ... and with the set.
LEMMA SumOfMore ==
    ASSUME NEW S, IsFiniteSet(S), NEW f, \A x \in S : f[x] \in Nat, NEW R \in SUBSET S
    PROVE  SumOver(f, R) <= SumOver(f, S)
  <1> DEFINE Bad == {T \in SUBSET S : R \subseteq T /\ ~(SumOver(f, R) <= SumOver(f, T))}
  <1>1. SUFFICES ASSUME Bad # {} PROVE FALSE
    OBVIOUS
  <1>2. PICK b \in Bad : \A y \in Bad : y \subseteq b => y = b
    <2>1. Bad \in SUBSET SUBSET S
      OBVIOUS
    <2> HIDE DEF Bad
    <2> QED
      BY <1>1, <2>1, Least
  <1>3. /\ b \in SUBSET S /\ IsFiniteSet(b) /\ IsFiniteSet(R)
        /\ R \subseteq b /\ ~(SumOver(f, R) <= SumOver(f, b))
    BY <1>2, FS_Subset
  <1>4. SumOver(f, R) \in Nat /\ SumOver(f, b) \in Nat
    BY <1>3, SumNat
  <1>5. PICK t \in b : t \notin R
    BY <1>3, <1>4
  <1>6. SumOver(f, b) = f[t] + SumOver(f, b \ {t})
    BY <1>3, SumWithout
  <1>7. SumOver(f, R) <= SumOver(f, b \ {t})
    BY <1>2, <1>5
  <1>8. SumOver(f, b \ {t}) \in Nat /\ f[t] \in Nat
    <2>1. IsFiniteSet(b \ {t})
      BY <1>3, FS_Subset
    <2> QED
      BY <1>3, <2>1, SumNat
  <1> QED
    BY <1>3, <1>4, <1>6, <1>7, <1>8

\* Only the values on the set count.
LEMMA SumSame ==
    ASSUME NEW S, IsFiniteSet(S), NEW f, NEW g, \A x \in S : f[x] \in Nat /\ f[x] = g[x]
    PROVE  SumOver(f, S) = SumOver(g, S)
  <1>1. SumOver(f, S) \in Nat /\ SumOver(g, S) \in Nat
    BY SumNat
  <1>2. SumOver(f, S) <= SumOver(g, S) /\ SumOver(g, S) <= SumOver(f, S)
    BY SumGrows
  <1> QED
    BY <1>1, <1>2

\* Elements worth nothing can be left out.
LEMMA SumOfRest ==
    ASSUME NEW S, IsFiniteSet(S), NEW f, \A x \in S : f[x] \in Nat,
           NEW R \in SUBSET S, \A x \in S \ R : f[x] = 0
    PROVE  SumOver(f, S) = SumOver(f, R)
  <1> DEFINE Bad == {T \in SUBSET S : R \subseteq T /\ SumOver(f, R) # SumOver(f, T)}
  <1>1. SUFFICES ASSUME Bad # {} PROVE FALSE
    OBVIOUS
  <1>2. PICK b \in Bad : \A y \in Bad : y \subseteq b => y = b
    <2>1. Bad \in SUBSET SUBSET S
      OBVIOUS
    <2> HIDE DEF Bad
    <2> QED
      BY <1>1, <2>1, Least
  <1>3. b \in SUBSET S /\ IsFiniteSet(b) /\ R \subseteq b /\ SumOver(f, R) # SumOver(f, b)
    BY <1>2, FS_Subset
  <1>4. PICK t \in b : t \notin R
    BY <1>3
  <1>5. SumOver(f, b) = f[t] + SumOver(f, b \ {t})
    BY <1>3, SumWithout
  <1>6. SumOver(f, R) = SumOver(f, b \ {t})
    BY <1>2, <1>4
  <1>7. SumOver(f, b \ {t}) \in Nat
    <2>1. IsFiniteSet(b \ {t})
      BY <1>3, FS_Subset
    <2> QED
      BY <1>3, <2>1, SumNat
  <1>8. f[t] = 0
    BY <1>3, <1>4
  <1> QED
    BY <1>3, <1>5, <1>6, <1>7, <1>8

-----------------------------------------------------------------------------
(* The inductive invariant. *)

\* From the insert of its claim to its end an attempt owns the claim.
Owning == {"cap", "lower", "read", "debit", "rollback", "mark"}

Owns(w, r) == att[w].pc \in Owning /\ att[w].refund = r

SoleOwner == \A r \in Refund : \A w, v \in Worker : Owns(w, r) /\ Owns(v, r) => w = v

\* What an attempt knows of its claim.
AttemptOK(w) ==
    LET k == att[w]
        c == claim[k.refund]
    IN /\ k.pc # "idle" => k.refund \in Refund
       /\ k.pc \in Owning => c.state # "none"
       /\ k.pc = "cap" => ~c.capped /\ c.due = k.due
       /\ k.pc = "lower" => ~c.capped /\ k.due <= c.due
       /\ k.pc \in {"read", "debit", "mark"} => c.capped /\ c.due = k.due

NoneIsEmpty == \A r \in Refund : claim[r].state = "none" => claim[r] = NoClaim

\* A cap is worked out but not written.
Lowering(w, r, atts) == atts[w].pc = "lower" /\ atts[w].refund = r

\* What each claim will be due when every cap that was worked out is written: a
\* claim not compared with the others counts for nothing yet.
Agreed(claims, atts) ==
    [r \in Refund |->
        IF claims[r].capped THEN claims[r].due
        ELSE IF \E w \in Worker : Lowering(w, r, atts)
             THEN atts[CHOOSE w \in Worker : Lowering(w, r, atts)].due
             ELSE 0]

AgreedWithinGrant == Total(Agreed(claim, att), Refund) <= GrantUnits

\* A debit that landed is of a claim that was compared, takes no more than the
\* claim is due, and leaves an owner nothing but to mark it.
DebitsOK ==
    unsure = 0 => \A r \in Refund :
        /\ debits[r] <= 1
        /\ debits[r] = 0 => taken[r] = 0
        /\ debits[r] # 0 => /\ claim[r].capped /\ taken[r] <= claim[r].due
                            /\ \A w \in Worker : Owns(w, r) => att[w].pc = "mark"

ClaimsInv == TypeOK /\ NoneIsEmpty /\ SoleOwner /\ \A w \in Worker : AttemptOK(w)

Inv == ClaimsInv /\ AgreedWithinGrant /\ DebitsOK

-----------------------------------------------------------------------------
(* What an attempt works out. *)

LEMMA TotalIs == \A f, S : Total(f, S) = SumOver(f, S)
  BY DEF Total, SumOver

\* What refunds are due and what they were of are numbers.
LEMMA DueNat ==
    ASSUME TypeOK, NEW S \in SUBSET Refund
    PROVE  DueOf(S) \in Nat /\ PaiseOf(S) \in Nat
  <1>1. IsFiniteSet(S)
    BY RefundAssumption, FS_Subset
  <1>2. \A r \in Refund : claim[r].due \in Nat
    BY DEF TypeOK, Claim
  <1>3. \A r \in Refund : bill[r].paise \in Nat
    BY PaiseAssumption DEF TypeOK
  <1> DEFINE dues == [r \in Refund |-> claim[r].due]
             paise == [r \in Refund |-> bill[r].paise]
  <1>4. (\A x \in S : dues[x] \in Nat) /\ (\A x \in S : paise[x] \in Nat)
    BY <1>2, <1>3
  <1>5. DueOf(S) = SumOver(dues, S) /\ PaiseOf(S) = SumOver(paise, S)
    BY TotalIs DEF DueOf, PaiseOf
  <1> HIDE DEF dues, paise
  <1> QED
    BY <1>1, <1>4, <1>5, SumNat

LEMMA SmallerIs ==
    ASSUME NEW a \in Nat, NEW b \in Nat
    PROVE  Smaller(a, b) \in Nat /\ Smaller(a, b) <= a /\ Smaller(a, b) <= b
  BY DEF Smaller

LEMMA PositiveIs == ASSUME NEW n \in Int PROVE Positive(n) \in Nat
  BY DEF Positive

\* A share and what the others leave of the grant are never negative.
LEMMA ShareNat ==
    ASSUME TypeOK, NEW r \in Refund
    PROVE  RefundDueUnits(r) \in Nat
  <1> DEFINE paid == Smaller(PaiseOf(Prior(r)) + bill[r].paise, AmountPaise)
  <1>1. Prior(r) \in SUBSET Refund
    BY DEF Prior
  <1>2. bill[r].paise \in Nat /\ AmountPaise \in Nat \ {0} /\ GrantUnits \in Nat
    BY PaiseAssumption, UnitsAssumption DEF TypeOK
  <1>3. paid \in Nat
    <2>1. PaiseOf(Prior(r)) \in Nat
      BY <1>1, DueNat
    <2>2. PaiseOf(Prior(r)) + bill[r].paise \in Nat
      BY <1>2, <2>1
    <2> QED
      BY <1>2, <2>2, SmallerIs
  <1>4. GrantUnits * paid \in Nat
    BY <1>2, <1>3
  <1>5. (GrantUnits * paid) \div AmountPaise \in Int
    BY <1>2, <1>4
  <1>6. DueOf(Prior(r)) \in Int
    BY <1>1, DueNat
  <1>7. RefundDueUnits(r) = Positive((GrantUnits * paid) \div AmountPaise - DueOf(Prior(r)))
    BY DEF RefundDueUnits
  <1> HIDE DEF paid
  <1> QED
    BY <1>5, <1>6, <1>7, PositiveIs

LEMMA RemainingNat ==
    ASSUME TypeOK, NEW r \in Refund
    PROVE  Remaining(r) \in Nat
  <1>1. {p \in Refund \ {r} : claim[p].state # "none"} \in SUBSET Refund
    OBVIOUS
  <1> QED
    BY <1>1, DueNat, UnitsAssumption, PositiveIs DEF Remaining

\* An attempt takes no more of a bucket than it has seen there, and no more in
\* all than it is due.
LEMMA TakeIs ==
    ASSUME NEW seen \in [Bucket -> 0..MaxInk], NEW due \in Nat
    PROVE  /\ Take(seen, due) \in [Bucket -> Nat]
           /\ \A b \in Bucket : Take(seen, due)[b] <= seen[b]
           /\ Total(Take(seen, due), Bucket) \in Nat
           /\ Total(Take(seen, due), Bucket) <= due
  <1> DEFINE first == Smaller(seen[1], due)
             second == Smaller(seen[2], due - first)
             third == Smaller(seen[3], due - first - second)
             take == Take(seen, due)
  <1>1. /\ seen[1] \in Nat /\ seen[2] \in Nat /\ seen[3] \in Nat
        /\ Bucket = {1, 2, 3} /\ IsFiniteSet(Bucket)
    <2>1. Bucket = {1, 2, 3} /\ 1 \in Bucket /\ 2 \in Bucket /\ 3 \in Bucket
      BY DEF Bucket
    <2>2. IsFiniteSet(Bucket)
      <3>1. 1 \in Int /\ 3 \in Int
        OBVIOUS
      <3>2. IsFiniteSet(1..3)
        BY <3>1, FS_Interval
      <3> QED
        BY <3>2 DEF Bucket
    <2>3. MaxInk \in Nat
      BY UnitsAssumption
    <2> QED
      BY <2>1, <2>2, <2>3
  <1>2. first \in Nat /\ first <= seen[1] /\ first <= due
    BY <1>1, SmallerIs
  <1>3. due - first \in Nat
    BY <1>2
  <1>4. second \in Nat /\ second <= seen[2] /\ second <= due - first
    BY <1>1, <1>3, SmallerIs
  <1>5. due - first - second \in Nat
    BY <1>2, <1>3, <1>4
  <1>6. third \in Nat /\ third <= seen[3] /\ third <= due - first - second
    BY <1>1, <1>5, SmallerIs
  <1>7. /\ take = [b \in Bucket |-> CASE b = 1 -> first [] b = 2 -> second [] OTHER -> third]
    BY DEF Take
  <1> HIDE DEF first, second, third, take
  <1>8. take[1] = first /\ take[2] = second /\ take[3] = third /\ take \in [Bucket -> Nat]
    BY <1>1, <1>2, <1>4, <1>6, <1>7
  <1>9. SumOver(take, Bucket) = first + second + third
    <2>1. \A x \in {1, 2, 3} : take[x] \in Nat
      BY <1>1, <1>8
    <2>2. IsFiniteSet({1, 2, 3}) /\ IsFiniteSet({2, 3}) /\ IsFiniteSet({3})
      BY <1>1, FS_Subset
    <2>3. SumOver(take, {1, 2, 3}) = first + SumOver(take, {2, 3})
      <3>1. {1, 2, 3} \ {1} = {2, 3}
        OBVIOUS
      <3> QED
        BY <1>8, <2>1, <2>2, <3>1, SumWithout
    <2>4. SumOver(take, {2, 3}) = second + SumOver(take, {3})
      <3>1. {2, 3} \ {2} = {3}
        OBVIOUS
      <3> QED
        BY <1>8, <2>1, <2>2, <3>1, SumWithout
    <2>5. SumOver(take, {3}) = third + SumOver(take, {})
      <3>1. {3} \ {3} = {}
        OBVIOUS
      <3> QED
        BY <1>8, <2>1, <2>2, <3>1, SumWithout
    <2> QED
      BY <1>1, <1>2, <1>4, <1>6, <2>3, <2>4, <2>5, SumOfNone
  <1>10. Total(take, Bucket) = SumOver(take, Bucket)
    BY TotalIs
  <1>11. \A b \in Bucket : take[b] <= seen[b]
    BY <1>1, <1>2, <1>4, <1>6, <1>8
  <1>12. first + second + third \in Nat /\ first + second + third <= due
    BY <1>2, <1>4, <1>6
  <1> QED
    BY <1>8, <1>9, <1>10, <1>11, <1>12 DEF take

-----------------------------------------------------------------------------
(* What a step of an attempt does to its locals, k from then on, and to the  *)
(* claim of its refund.                                                      *)

\* It works out what its refund is due.
Weighs(w, k) ==
    LET r == att[w].refund IN
    /\ k.pc = "remaining" => k.refund = r /\ k.due = RefundDueUnits(r)
    /\ k.pc = "insert" => /\ att[w].pc = "remaining" /\ k.refund = r
                          /\ k.due = Smaller(att[w].due, Remaining(r))

\* It has no claim, or leaves it.
Aside(w, k) ==
    /\ claim' = claim /\ k.pc \notin Owning /\ (k.pc # "idle" => k.refund \in Refund)
    /\ Weighs(w, k)

\* It inserts the claim; whether it hears of it.
Inserts(w, k) ==
    LET r == att[w].refund IN
    /\ att[w].pc = "insert" /\ r \in Refund /\ claim[r].state = "none"
    /\ claim' = [claim EXCEPT ![r] = Pending(att[w].due)]
    /\ k.pc = "idle" \/ (k.pc = "cap" /\ k.refund = r /\ k.due = att[w].due)

\* It compares the claim with the others.
Compares(w, k) ==
    LET r == att[w].refund
        left == Remaining(r)
    IN /\ att[w].pc = "cap" /\ k.refund = r
       /\ IF left < att[w].due
          THEN k.pc = "lower" /\ k.due = left /\ claim' = claim
          ELSE /\ k.pc = "read" /\ k.due = att[w].due
               /\ claim' = [claim EXCEPT ![r].capped = TRUE]

Lowers(w, k) ==
    LET r == att[w].refund IN
    /\ att[w].pc = "lower" /\ k.pc \in {"read", "rollback"} /\ k.refund = r /\ k.due = att[w].due
    /\ claim' = [claim EXCEPT ![r] = [@ EXCEPT !.due = att[w].due, !.capped = TRUE]]

\* It goes on with the claim as it is.
GoesOn(w, k) ==
    /\ claim' = claim /\ k.refund = att[w].refund /\ k.due = att[w].due
    /\ \/ att[w].pc \in {"cap", "lower", "read", "debit"} /\ k.pc = "rollback"
       \/ att[w].pc \in {"read", "debit"} /\ k.pc \in {"read", "debit", "mark"}
       \/ att[w].pc = "mark" /\ k.pc = "mark"

Releases(w, k) ==
    LET r == att[w].refund IN
    /\ att[w].pc \in {"read", "rollback"} /\ k.pc = "idle"
    /\ claim' = [claim EXCEPT ![r] = NoClaim]

Marks(w, k) ==
    LET r == att[w].refund IN
    /\ att[w].pc = "mark"
    /\ claim' = [claim EXCEPT ![r] = [@ EXCEPT !.state = "done", !.capped = TRUE]]
    /\ k.pc = "idle" \/ (k.pc = "mark" /\ k.refund = r /\ k.due = att[w].due)

\* The debit: as much as the attempt takes, of a balance that did not move.
Debits(w, k) ==
    LET r == att[w].refund IN
    /\ att[w].pc = "debit"
    /\ (k.pc = "mark" /\ unsure' = unsure) \/ unsure' = unsure + 1
    /\ debits' = [debits EXCEPT ![r] = @ + 1]
    /\ taken' = [taken EXCEPT ![r] = @ + Total(Take(att[w].seen, att[w].due), Bucket)]

AttemptMoves(w, k) ==
    /\ k \in Attempt
    /\ att' = [att EXCEPT ![w] = k]
    /\ \/ Aside(w, k) \/ Inserts(w, k) \/ Compares(w, k) \/ Lowers(w, k)
       \/ GoesOn(w, k) \/ Releases(w, k) \/ Marks(w, k)
    /\ UNCHANGED <<debits, taken, unsure>> \/ Debits(w, k)

LEMMA IdleTyped == Idle \in Attempt /\ Idle.pc = "idle"
  BY UnitsAssumption DEF Idle, Empty, Attempt

\* What is read of an attempt and of the balance has its type.
LEMMA LocalsTyped ==
    ASSUME TypeOK, NEW w \in Worker
    PROVE  /\ att[w] \in Attempt /\ att[w].due \in Nat /\ att[w].tries \in Nat
           /\ att[w].seen \in [Bucket -> 0..MaxInk]
           /\ ink \in [Bucket -> 0..MaxInk]
  BY DEF TypeOK, Attempt

\* Every step of an attempt is one of these moves.
LEMMA AttemptStep ==
    ASSUME ClaimsInv, NEW w \in Worker, Deliver(w) \/ Step(w) \/ Throw(w) \/ Die(w)
    PROVE  \E k : AttemptMoves(w, k)
  <1> USE IdleTyped, LocalsTyped
  <1> DEFINE l == att[w]
             r == att[w].refund
  <1>0. /\ TypeOK /\ (l.pc # "idle" => r \in Refund)
        /\ l.pc = "cap" => claim[r].due = l.due
    BY DEF ClaimsInv, AttemptOK
  <1>1. CASE Deliver(w)
    <2>1. PICK p \in Refund :
             att' = [att EXCEPT ![w] = [Idle EXCEPT !.pc = "prior", !.refund = p]]
      BY <1>1 DEF Deliver, Become
    <2> DEFINE k == [Idle EXCEPT !.pc = "prior", !.refund = p]
    <2>2. k \in Attempt /\ k.pc = "prior" /\ k.refund = p
      BY DEF Attempt
    <2>3. UNCHANGED <<claim, debits, taken, unsure>>
      BY <1>1 DEF Deliver
    <2> QED
      BY <2>1, <2>2, <2>3 DEF AttemptMoves, Aside, Weighs, Owning
  <1>2. CASE ReadPrior(w)
    <2>1. RefundDueUnits(r) \in Nat /\ r \in Refund
      BY <1>0, <1>2, ShareNat DEF ReadPrior, At
    <2> DEFINE k == [l EXCEPT !.pc = "remaining", !.due = RefundDueUnits(r)]
    <2>2. att' = [att EXCEPT ![w] = k] /\ UNCHANGED <<debits, taken, unsure>>
      BY <1>2 DEF ReadPrior, Become, Refunded, At
    <2>3. k \in Attempt /\ k.pc = "remaining" /\ k.refund = r /\ k.due = RefundDueUnits(r)
      BY <1>0, <2>1 DEF Attempt
    <2>4. Aside(w, k)
      BY <1>0, <1>2, <2>3 DEF ReadPrior, Become, Aside, Weighs, At, Refunded, Owning
    <2> QED
      BY <2>2, <2>3, <2>4 DEF AttemptMoves
  <1>3. CASE ReadRemaining(w)
    <2>1. Remaining(r) \in Nat /\ r \in Refund
      BY <1>0, <1>3, RemainingNat DEF ReadRemaining, At
    <2>2. CASE Remaining(r) = 0
      <3>1. att' = [att EXCEPT ![w] = Idle] /\ UNCHANGED <<debits, taken, unsure>>
        BY <1>3, <2>2 DEF ReadRemaining, Answer, Become, Refunded
      <3>2. Aside(w, Idle)
        BY <1>0, <1>3, <2>2 DEF ReadRemaining, Aside, Weighs, At, Refunded, Owning
      <3> QED
        BY <3>1, <3>2 DEF AttemptMoves
    <2>3. CASE Remaining(r) # 0
      <3> DEFINE k == [l EXCEPT !.pc = "insert", !.due = Smaller(l.due, Remaining(r))]
      <3>1. att' = [att EXCEPT ![w] = k] /\ UNCHANGED <<claim, debits, taken, unsure>>
        BY <1>3, <2>3 DEF ReadRemaining, Become, Refunded
      <3>2. Smaller(l.due, Remaining(r)) \in Nat
        BY <1>0, <2>1, SmallerIs
      <3>3. /\ k \in Attempt /\ k.pc = "insert" /\ k.refund = r
            /\ k.due = Smaller(l.due, Remaining(r))
        BY <1>0, <3>2 DEF Attempt
      <3>4. Aside(w, k)
        BY <1>3, <2>1, <3>1, <3>3 DEF ReadRemaining, At, Aside, Weighs, Owning
      <3> QED
        BY <3>1, <3>3, <3>4 DEF AttemptMoves
    <2> QED
      BY <2>2, <2>3
  <1>4. CASE Insert(w)
    <2>2. CASE claim[r].state = "none"
      <3> DEFINE k == [l EXCEPT !.pc = "cap"]
      <3>1. att' = [att EXCEPT ![w] = k] /\ UNCHANGED <<debits, taken, unsure>>
        BY <1>4, <2>2 DEF Insert, Pending, Become, Refunded, At
      <3>2. k \in Attempt /\ k.pc = "cap" /\ k.refund = r /\ k.due = l.due
        BY <1>0 DEF Attempt
      <3>3. Inserts(w, k)
        BY <1>0, <1>4, <3>2, <2>2 DEF Insert, Pending, Become, Inserts, At, Refunded, Owning
      <3> QED
        BY <3>1, <3>2, <3>3 DEF AttemptMoves
    <2>3. CASE claim[r].state # "none"
      <3> DEFINE k == [l EXCEPT !.pc = "look"]
      <3>1. att' = [att EXCEPT ![w] = k] /\ UNCHANGED <<debits, taken, unsure>>
        BY <1>4, <2>3 DEF Insert, Pending, Become, Refunded, At
      <3>2. k \in Attempt /\ k.pc = "look" /\ k.refund = r
        BY <1>0 DEF Attempt
      <3>3. Aside(w, k)
        BY <1>0, <1>4, <3>2, <2>3 DEF Insert, Pending, Become, Aside, Weighs, At, Refunded,
           Owning
      <3> QED
        BY <3>1, <3>2, <3>3 DEF AttemptMoves
    <2> QED
      BY <2>2, <2>3
  <1>5. CASE Look(w)
    <2>1. att' = [att EXCEPT ![w] = Idle] /\ UNCHANGED <<debits, taken, unsure>>
      BY <1>5 DEF Look, Ended, Answer, Become, Refunded
    <2>2. Aside(w, Idle)
      BY <1>0, <1>5 DEF Look, Ended, Aside, Weighs, At, Refunded, Owning
    <2> QED
      BY <2>1, <2>2 DEF AttemptMoves
  <1>6. CASE ReadCap(w)
    <2>1. /\ Remaining(r) \in Nat /\ r \in Refund
          /\ Smaller(l.due, Remaining(r)) = IF Remaining(r) < l.due THEN Remaining(r) ELSE l.due
      <3>1. Remaining(r) \in Nat /\ r \in Refund
        BY <1>0, <1>6, RemainingNat DEF ReadCap, At
      <3> QED
        BY <1>0, <3>1 DEF Smaller
    <2>2. CASE Remaining(r) < l.due
      <3> DEFINE k == [l EXCEPT !.pc = "lower", !.due = Remaining(r)]
      <3>1. att' = [att EXCEPT ![w] = k] /\ UNCHANGED <<debits, taken, unsure>>
        BY <1>6, <2>1, <2>2 DEF ReadCap, Become, Refunded, At
      <3>2. k \in Attempt /\ k.pc = "lower" /\ k.refund = r /\ k.due = Remaining(r)
        BY <1>0, <2>1 DEF Attempt
      <3>3. Compares(w, k)
        BY <1>0, <1>6, <3>2, <2>1, <2>2 DEF ReadCap, Become, Compares, At, Refunded, Owning
      <3> QED
        BY <3>1, <3>2, <3>3 DEF AttemptMoves
    <2>3. CASE ~(Remaining(r) < l.due)
      <3> DEFINE k == [l EXCEPT !.pc = "read"]
      <3>1. att' = [att EXCEPT ![w] = k] /\ UNCHANGED <<debits, taken, unsure>>
        BY <1>6, <2>1, <2>3 DEF ReadCap, Become, Refunded, At
      <3>2. k \in Attempt /\ k.pc = "read" /\ k.refund = r /\ k.due = l.due
        BY <1>0, <2>1 DEF Attempt
      <3>3. Compares(w, k)
        BY <1>0, <1>6, <3>2, <2>1, <2>3 DEF ReadCap, Become, Compares, At, Refunded, Owning
      <3> QED
        BY <3>1, <3>2, <3>3 DEF AttemptMoves
    <2> QED
      BY <2>2, <2>3
  <1>7. CASE Lower(w)
    <2> DEFINE k == [l EXCEPT !.pc = "read"]
    <2>1. att' = [att EXCEPT ![w] = k] /\ UNCHANGED <<debits, taken, unsure>>
      BY <1>7 DEF Lower, Lowered, Become, Refunded, At
    <2>2. k \in Attempt /\ k.pc = "read" /\ k.refund = r /\ k.due = l.due
      BY <1>0 DEF Attempt
    <2>3. Lowers(w, k)
      BY <1>0, <1>7, <2>2 DEF Lower, Lowered, Become, Lowers, At, Refunded, Owning
    <2> QED
      BY <2>1, <2>2, <2>3 DEF AttemptMoves
  <1>8. CASE ReadBalance(w)
    <2>1. CASE ~user
      <3>1. att' = [att EXCEPT ![w] = Idle] /\ UNCHANGED <<debits, taken, unsure>>
        BY <1>8, <2>1 DEF ReadBalance, NoClaim, Answer, Become, Refunded
      <3>2. Aside(w, Idle) \/ Releases(w, Idle)
        BY <1>0, <1>8, <2>1 DEF ReadBalance, NoClaim, Aside, Weighs, Releases, At, Refunded, Owning
      <3> QED
        BY <3>1, <3>2 DEF AttemptMoves
    <2>2. CASE user
      <3>1. PICK p \in {"mark", "debit"}, t \in Nat :
               att' = [att EXCEPT ![w] = [l EXCEPT !.pc = p, !.seen = ink, !.tries = t]]
        <4>1. CASE Take(ink, l.due) = Empty
          BY <1>8, <2>2, <4>1 DEF ReadBalance, Become
        <4>2. CASE Take(ink, l.due) # Empty
          <5>1. att' = [att EXCEPT ![w] =
                           [l EXCEPT !.pc = "debit", !.seen = ink, !.tries = l.tries]]
            BY <1>8, <2>2, <4>2 DEF ReadBalance, Become
          <5> QED
            BY <1>0, <5>1
        <4> QED
          BY <4>1, <4>2
      <3> DEFINE k == [l EXCEPT !.pc = p, !.seen = ink, !.tries = t]
      <3>2. k \in Attempt /\ k.pc = p /\ k.refund = r /\ k.due = l.due
        BY <1>0 DEF Attempt
      <3>3. l.pc = "read" /\ UNCHANGED <<claim, debits, taken, unsure>>
        BY <1>8, <2>2 DEF ReadBalance, At
      <3> QED
        BY <3>1, <3>2, <3>3 DEF AttemptMoves, GoesOn
    <2> QED
      BY <2>1, <2>2
  <1>9. CASE Debit(w)
    <2> DEFINE k == [l EXCEPT !.pc = "mark", !.tries = 0]
    <2>1. att' = [att EXCEPT ![w] = k] /\ l.pc = "debit"
      BY <1>9 DEF Debit, Become, At
    <2>2. k \in Attempt /\ k.pc = "mark" /\ k.refund = r /\ k.due = l.due
      BY <1>0 DEF Attempt
    <2>3. GoesOn(w, k)
      BY <1>9, <2>1, <2>2 DEF Debit, GoesOn
    <2>4. Debits(w, k)
      BY <1>9, <2>1, <2>2 DEF Debit, Debited, Debits, Refunded
    <2> QED
      BY <2>1, <2>2, <2>3, <2>4 DEF AttemptMoves
  <1>10. CASE LoseDebit(w)
    <2>1. PICK p \in {"read", "rollback"}, t \in Nat :
               att' = [att EXCEPT ![w] = [l EXCEPT !.pc = p, !.tries = t]]
      <3>1. l.tries + 1 \in Nat
        BY <1>0
      <3>2. att' = [att EXCEPT ![w] =
                       [l EXCEPT !.pc = IF l.tries + 1 < RefundDebitAttempts
                                        THEN "read" ELSE "rollback",
                                 !.tries = l.tries + 1]]
        BY <1>10 DEF LoseDebit, Become
      <3> QED
        BY <3>1, <3>2
    <2> DEFINE k == [l EXCEPT !.pc = p, !.tries = t]
    <2>2. k \in Attempt /\ k.pc = p /\ k.refund = r /\ k.due = l.due
      BY <1>0 DEF Attempt
    <2>3. l.pc = "debit" /\ UNCHANGED <<claim, debits, taken, unsure>>
      BY <1>10 DEF LoseDebit, At
    <2> QED
      BY <2>1, <2>2, <2>3 DEF AttemptMoves, GoesOn
  <1>11. CASE Rollback(w)
    <2>1. att' = [att EXCEPT ![w] = Idle] /\ UNCHANGED <<debits, taken, unsure>>
      BY <1>11 DEF Rollback, NoClaim, Answer, Become, Refunded
    <2>2. Releases(w, Idle)
      BY <1>0, <1>11 DEF Rollback, NoClaim, Releases, At, Refunded, Owning
    <2> QED
      BY <2>1, <2>2 DEF AttemptMoves
  <1>12. CASE Mark(w)
    <2>1. att' = [att EXCEPT ![w] = Idle] /\ UNCHANGED <<debits, taken, unsure>>
      BY <1>12 DEF Mark, Marked, Answer, Become, Refunded
    <2>2. Marks(w, Idle)
      BY <1>0, <1>12 DEF Mark, Marked, Marks, At, Refunded, Owning
    <2> QED
      BY <2>1, <2>2 DEF AttemptMoves
  <1>13. CASE ReadThrows(w)
    <2>1. CASE l.pc \in {"prior", "remaining", "look"}
      <3>1. att' = [att EXCEPT ![w] = Idle] /\ UNCHANGED <<debits, taken, unsure>>
        BY <1>13, <2>1 DEF ReadThrows, Answer, Become, Refunded
      <3>2. Aside(w, Idle)
        BY <1>0, <1>13, <2>1 DEF ReadThrows, Aside, Weighs, At, Refunded, Owning
      <3> QED
        BY <3>1, <3>2 DEF AttemptMoves
    <2>2. CASE l.pc \notin {"prior", "remaining", "look"}
      <3> DEFINE k == [l EXCEPT !.pc = "rollback"]
      <3>1. att' = [att EXCEPT ![w] = k] /\ UNCHANGED <<debits, taken, unsure>>
        BY <1>13, <2>2 DEF ReadThrows, Become, Refunded, At
      <3>2. k \in Attempt /\ k.pc = "rollback" /\ k.refund = r /\ k.due = l.due
        BY <1>0 DEF Attempt
      <3>3. GoesOn(w, k)
        BY <1>0, <1>13, <3>2, <2>2 DEF ReadThrows, Become, GoesOn, At, Refunded, Owning
      <3> QED
        BY <3>1, <3>2, <3>3 DEF AttemptMoves
    <2> QED
      BY <2>1, <2>2
  <1>14. CASE InsertThrows(w)
    <2>1. att' = [att EXCEPT ![w] = Idle] /\ UNCHANGED <<debits, taken, unsure>>
      BY <1>14 DEF InsertThrows, Pending, Answer, Become, Refunded
    <2>2. Aside(w, Idle) \/ Inserts(w, Idle)
      BY <1>0, <1>14 DEF InsertThrows, Pending, Aside, Weighs, Inserts, At, Refunded, Owning
    <2> QED
      BY <2>1, <2>2 DEF AttemptMoves
  <1>15. CASE DebitThrows(w)
    <2> DEFINE k == [l EXCEPT !.pc = "rollback"]
    <2>1. att' = [att EXCEPT ![w] = k] /\ l.pc = "debit" /\ claim' = claim
      BY <1>15 DEF DebitThrows, Become, At
    <2>2. k \in Attempt /\ k.pc = "rollback" /\ k.refund = r /\ k.due = l.due
      BY <1>0 DEF Attempt
    <2>3. GoesOn(w, k)
      BY <2>1, <2>2 DEF GoesOn
    <2>4. UNCHANGED <<debits, taken, unsure>> \/ Debits(w, k)
      BY <1>15, <2>1 DEF DebitThrows, Debited, Debits, Refunded
    <2> QED
      BY <2>1, <2>2, <2>3, <2>4 DEF AttemptMoves
  <1>16. CASE RollbackThrows(w)
    <2>1. att' = [att EXCEPT ![w] = Idle] /\ UNCHANGED <<debits, taken, unsure>>
      BY <1>16 DEF RollbackThrows, NoClaim, Answer, Become, Refunded
    <2>2. Aside(w, Idle) \/ Releases(w, Idle)
      BY <1>0, <1>16 DEF RollbackThrows, NoClaim, Aside, Weighs, Releases, At, Refunded, Owning
    <2> QED
      BY <2>1, <2>2 DEF AttemptMoves
  <1>17. CASE MarkThrows(w)
    <2>1. CASE l.tries + 1 < MarkAttempts
      <3> DEFINE k == [l EXCEPT !.tries = l.tries + 1]
      <3>1. att' = [att EXCEPT ![w] = k] /\ UNCHANGED <<debits, taken, unsure>> /\ l.pc = "mark"
        BY <1>17, <2>1 DEF MarkThrows, Become, At
      <3>2. l.tries + 1 \in Nat
        BY <1>0
      <3>3. k \in Attempt /\ k.pc = l.pc /\ k.refund = r /\ k.due = l.due
        BY <1>0, <3>2 DEF Attempt
      <3>4. GoesOn(w, k) \/ Marks(w, k)
        BY <1>17, <3>1, <3>3 DEF MarkThrows, Marked, Marks, GoesOn, Refunded
      <3> QED
        BY <3>1, <3>3, <3>4 DEF AttemptMoves
    <2>2. CASE ~(l.tries + 1 < MarkAttempts)
      <3>1. att' = [att EXCEPT ![w] = Idle] /\ UNCHANGED <<debits, taken, unsure>>
        BY <1>17, <2>2 DEF MarkThrows, Marked, Answer, Become, Refunded
      <3>2. Aside(w, Idle) \/ Marks(w, Idle)
        BY <1>0, <1>17, <2>2 DEF MarkThrows, Marked, Aside, Weighs, Marks, At, Refunded, Owning
      <3> QED
        BY <3>1, <3>2 DEF AttemptMoves
    <2> QED
      BY <2>1, <2>2
  <1>18. CASE Die(w)
    <2>1. att' = [att EXCEPT ![w] = Idle] /\ UNCHANGED <<debits, taken, unsure>>
      BY <1>18 DEF Die, Answer, Become, Refunded
    <2>2. Aside(w, Idle)
      BY <1>0, <1>18 DEF Die, Aside, Weighs, At, Refunded, Owning
    <2> QED
      BY <2>1, <2>2 DEF AttemptMoves
  <1>19. CASE LowerThrows(w)
    <2> DEFINE k == [l EXCEPT !.pc = "rollback"]
    <2>1. att' = [att EXCEPT ![w] = k] /\ UNCHANGED <<debits, taken, unsure>>
      BY <1>19 DEF LowerThrows, Become
    <2>2. k \in Attempt /\ k.pc = "rollback" /\ k.refund = r /\ k.due = l.due
      BY <1>0 DEF Attempt
    <2>3. GoesOn(w, k) \/ Lowers(w, k)
      BY <1>19, <2>2 DEF LowerThrows, Lowered, GoesOn, Lowers, At, Refunded
    <2> QED
      BY <2>1, <2>2, <2>3 DEF AttemptMoves
  <1> QED
    BY <1>1, <1>2, <1>3, <1>4, <1>5, <1>6, <1>7, <1>8, <1>9, <1>10, <1>11, <1>12, <1>13,
       <1>14, <1>15, <1>16, <1>17, <1>18, <1>19 DEF Step, Throw


-----------------------------------------------------------------------------
(* The type invariant. *)

\* A counter that grows stays a number.
LEMMA Added ==
    ASSUME NEW S, NEW f \in [S -> Nat], NEW e, NEW n \in Nat
    PROVE  [f EXCEPT ![e] = @ + n] \in [S -> Nat]
  <1>1. \A x \in S : [f EXCEPT ![e] = @ + n][x] \in Nat
    OBVIOUS
  <1> QED
    BY <1>1

\* The compared mark of a claim is of no other type.
LEMMA CappedTyped ==
    ASSUME NEW c \in [Refund -> Claim], NEW r
    PROVE  [c EXCEPT ![r].capped = TRUE] \in [Refund -> Claim]
  <1>1. \A p \in Refund : [c EXCEPT ![r].capped = TRUE][p] \in Claim
    BY DEF Claim
  <1> QED
    BY <1>1

\* A move keeps the types of what it changes.
LEMMA MovesTyped ==
    ASSUME ClaimsInv, NEW w \in Worker, NEW k, AttemptMoves(w, k)
    PROVE  /\ att' \in [Worker -> Attempt] /\ claim' \in [Refund -> Claim]
           /\ debits' \in [Refund -> Nat] /\ taken' \in [Refund -> Nat]
  <1> DEFINE l == att[w]
             r == att[w].refund
  <1>1. /\ att \in [Worker -> Attempt] /\ claim \in [Refund -> Claim]
        /\ debits \in [Refund -> Nat] /\ taken \in [Refund -> Nat]
        /\ l.due \in Nat /\ l.seen \in [Bucket -> 0..MaxInk]
    BY LocalsTyped DEF ClaimsInv, TypeOK
  <1>2. att' \in [Worker -> Attempt]
    BY <1>1 DEF AttemptMoves
  <1>3. claim' \in [Refund -> Claim]
    <2>1. NoClaim \in Claim /\ Pending(l.due) \in Claim
      BY <1>1 DEF NoClaim, Pending, Claim
    <2>2. CASE Aside(w, k) \/ GoesOn(w, k)
      BY <1>1, <2>2 DEF Aside, GoesOn
    <2>3. CASE Inserts(w, k) \/ Releases(w, k)
      BY <1>1, <2>1, <2>3 DEF Inserts, Releases
    <2>4. CASE Compares(w, k)
      <3>1. claim' = claim \/ claim' = [claim EXCEPT ![r].capped = TRUE]
        BY <2>4 DEF Compares
      <3> QED
        BY <1>1, <3>1, CappedTyped
    <2>5. CASE Lowers(w, k)
      BY <1>1, <2>5 DEF Lowers, Claim
    <2>6. CASE Marks(w, k)
      BY <1>1, <2>6 DEF Marks, Claim
    <2> QED
      BY <2>2, <2>3, <2>4, <2>5, <2>6 DEF AttemptMoves
  <1>4. debits' \in [Refund -> Nat] /\ taken' \in [Refund -> Nat]
    <2>1. CASE UNCHANGED <<debits, taken, unsure>>
      BY <1>1, <2>1
    <2>2. CASE Debits(w, k)
      <3>1. PICK n \in Nat : n = Total(Take(l.seen, l.due), Bucket)
        BY <1>1, TakeIs
      <3>2. taken' = [taken EXCEPT ![r] = @ + n] /\ debits' = [debits EXCEPT ![r] = @ + 1]
        BY <2>2, <3>1 DEF Debits
      <3>3. taken' \in [Refund -> Nat] /\ debits' \in [Refund -> Nat]
        <4> HIDE DEF l, r
        <4> QED
          BY <1>1, <3>1, <3>2, Added
      <3> QED
        BY <3>3
    <2> QED
      BY <2>1, <2>2 DEF AttemptMoves
  <1> QED
    BY <1>2, <1>3, <1>4

\* What the attempts share, and the others write.
Rest == /\ bill \in Bills /\ ink \in [Bucket -> 0..MaxInk] /\ user \in BOOLEAN
        /\ awaited \subseteq Refund /\ unsure \in Nat /\ overlap \in BOOLEAN
        /\ mishaps \in 0..MaxMishaps

\* A debit leaves every bucket what the attempt did not take.
LEMMA DebitedInk ==
    ASSUME TypeOK, NEW w \in Worker, Unmoved(w), Debited(w)
    PROVE  ink' \in [Bucket -> 0..MaxInk]
  <1> DEFINE take == Take(att[w].seen, att[w].due)
  <1>1. /\ take \in [Bucket -> Nat]
        /\ \A b \in Bucket : take[b] <= ink[b]
    BY LocalsTyped, TakeIs DEF Unmoved
  <1>2. ink' = [b \in Bucket |-> ink[b] - take[b]]
    BY DEF Debited
  <1>3. ink \in [Bucket -> 0..MaxInk] /\ MaxInk \in Nat
    BY LocalsTyped, UnitsAssumption
  <1> HIDE DEF take
  <1> QED
    BY <1>1, <1>2, <1>3

\* The variables no move names keep their types.
LEMMA RestStep ==
    ASSUME ClaimsInv, [Next]_vars
    PROVE  Rest'
  <1>1. ASSUME NEW w \in Worker, Deliver(w) PROVE Rest'
    <2>1. (overlap \/ \E v \in Worker : ~At(v, "idle")) \in BOOLEAN
      BY DEF ClaimsInv, TypeOK
    <2> QED
      BY <1>1, <2>1, BoundAssumption DEF Deliver, Become, Mishap, ClaimsInv, TypeOK, Rest
  <1>2. ASSUME NEW w \in Worker, ReadPrior(w) PROVE Rest'
    BY <1>2, BoundAssumption DEF ReadPrior, Become, Answer, At, Refunded, Mishap, ClaimsInv,
       TypeOK, Rest
  <1>3. ASSUME NEW w \in Worker, ReadRemaining(w) PROVE Rest'
    BY <1>3, BoundAssumption DEF ReadRemaining, Become, Answer, At, Refunded, Mishap,
       ClaimsInv, TypeOK, Rest
  <1>4. ASSUME NEW w \in Worker, Insert(w) PROVE Rest'
    BY <1>4, BoundAssumption DEF Insert, Pending, Become, Answer, At, Refunded, Mishap,
       ClaimsInv, TypeOK, Rest
  <1>5. ASSUME NEW w \in Worker, Look(w) PROVE Rest'
    BY <1>5, BoundAssumption DEF Look, Ended, Become, Answer, At, Refunded, Mishap, ClaimsInv,
       TypeOK, Rest
  <1>6. ASSUME NEW w \in Worker, ReadCap(w) PROVE Rest'
    BY <1>6, BoundAssumption DEF ReadCap, Become, Answer, At, Refunded, Mishap, ClaimsInv,
       TypeOK, Rest
  <1>7. ASSUME NEW w \in Worker, Lower(w) PROVE Rest'
    BY <1>7, BoundAssumption DEF Lower, Lowered, Become, Answer, At, Refunded, Mishap, ClaimsInv,
       TypeOK, Rest
  <1>8. ASSUME NEW w \in Worker, ReadBalance(w) PROVE Rest'
    BY <1>8, BoundAssumption DEF ReadBalance, NoClaim, Become, Answer, At, Refunded, Mishap,
       ClaimsInv, TypeOK, Rest
  <1>9. ASSUME NEW w \in Worker, Debit(w) PROVE Rest'
    <2>1. ink' \in [Bucket -> 0..MaxInk]
      BY <1>9, DebitedInk DEF Debit, ClaimsInv
    <2> QED
      BY <1>9, <2>1 DEF Debit, Become, ClaimsInv, TypeOK, Rest
  <1>10. ASSUME NEW w \in Worker, LoseDebit(w) PROVE Rest'
    BY <1>10, BoundAssumption DEF LoseDebit, Unmoved, Become, Answer, At, Refunded, Mishap,
       ClaimsInv, TypeOK, Rest
  <1>11. ASSUME NEW w \in Worker, Rollback(w) PROVE Rest'
    BY <1>11, BoundAssumption DEF Rollback, NoClaim, Become, Answer, At, Refunded, Mishap,
       ClaimsInv, TypeOK, Rest
  <1>12. ASSUME NEW w \in Worker, Mark(w) PROVE Rest'
    BY <1>12, BoundAssumption DEF Mark, Marked, Become, Answer, At, Refunded, Mishap,
       ClaimsInv, TypeOK, Rest
  <1>13. ASSUME NEW w \in Worker, ReadThrows(w) PROVE Rest'
    BY <1>13, BoundAssumption DEF ReadThrows, Become, Answer, At, Refunded, Mishap, ClaimsInv,
       TypeOK, Rest
  <1>14. ASSUME NEW w \in Worker, InsertThrows(w) PROVE Rest'
    BY <1>14, BoundAssumption DEF InsertThrows, Pending, Become, Answer, At, Refunded, Mishap,
       ClaimsInv, TypeOK, Rest
  <1>15. ASSUME NEW w \in Worker, DebitThrows(w) PROVE Rest'
    <2>1. ink' \in [Bucket -> 0..MaxInk]
      BY <1>15, DebitedInk DEF DebitThrows, ClaimsInv, TypeOK
    <2> QED
      BY <1>15, <2>1, BoundAssumption DEF DebitThrows, Become, Mishap, ClaimsInv, TypeOK, Rest
  <1>16. ASSUME NEW w \in Worker, RollbackThrows(w) PROVE Rest'
    BY <1>16, BoundAssumption DEF RollbackThrows, NoClaim, Become, Answer, At, Refunded,
       Mishap, ClaimsInv, TypeOK, Rest
  <1>17. ASSUME NEW w \in Worker, MarkThrows(w) PROVE Rest'
    BY <1>17, BoundAssumption DEF MarkThrows, Marked, Become, Answer, At, Refunded, Mishap,
       ClaimsInv, TypeOK, Rest
  <1>18. ASSUME NEW w \in Worker, Die(w) PROVE Rest'
    BY <1>18, BoundAssumption DEF Die, Become, Answer, At, Refunded, Mishap, ClaimsInv,
       TypeOK, Rest
  <1>23. ASSUME NEW w \in Worker, LowerThrows(w) PROVE Rest'
    BY <1>23, BoundAssumption DEF LowerThrows, Become, Mishap, ClaimsInv, TypeOK, Rest
  <1>19. ASSUME NEW r \in Refund, GoesStale(r) PROVE Rest'
    BY <1>19, BoundAssumption DEF GoesStale, ClaimsInv, TypeOK, Rest
  <1>20. CASE OthersMove
    BY <1>20, BoundAssumption DEF OthersMove, Mishap, ClaimsInv, TypeOK, Rest
  <1>21. CASE EraseUser
    <2>1. user' \in BOOLEAN
      BY <1>21 DEF EraseUser
    <2> QED
      BY <1>21, <2>1, BoundAssumption DEF EraseUser, Mishap, ClaimsInv, TypeOK, Rest
  <1>22. CASE UNCHANGED vars
    BY <1>22, BoundAssumption DEF vars, ClaimsInv, TypeOK, Rest
  <1> QED
    BY <1>1, <1>2, <1>3, <1>4, <1>5, <1>6, <1>7, <1>8, <1>9, <1>10, <1>11, <1>12, <1>13,
       <1>14, <1>15, <1>16, <1>17, <1>18, <1>19, <1>20, <1>21, <1>22, <1>23 DEF Next, Step, Throw

LEMMA TypeStep ==
    ASSUME ClaimsInv, [Next]_vars
    PROVE  TypeOK'
  <1>1. /\ att' \in [Worker -> Attempt] /\ claim' \in [Refund -> Claim]
        /\ debits' \in [Refund -> Nat] /\ taken' \in [Refund -> Nat]
    <2>1. ASSUME NEW w \in Worker, Deliver(w) \/ Step(w) \/ Throw(w) \/ Die(w)
          PROVE  /\ att' \in [Worker -> Attempt] /\ claim' \in [Refund -> Claim]
                 /\ debits' \in [Refund -> Nat] /\ taken' \in [Refund -> Nat]
      BY <2>1, AttemptStep, MovesTyped
    <2>2. ASSUME NEW r \in Refund, GoesStale(r)
          PROVE  claim' \in [Refund -> Claim] /\ UNCHANGED <<att, debits, taken>>
      BY <2>2 DEF GoesStale, ClaimsInv, TypeOK, Claim
    <2>3. CASE OthersMove \/ EraseUser \/ UNCHANGED vars
      BY <2>3 DEF OthersMove, EraseUser, vars, ClaimsInv, TypeOK
    <2> QED
      BY <2>1, <2>2, <2>3 DEF Next, ClaimsInv, TypeOK
  <1>2. Rest'
    BY RestStep
  <1> QED
    BY <1>1, <1>2 DEF TypeOK, Rest

-----------------------------------------------------------------------------
(* A claim has one owner, who knows it. *)

\* A step leaves every claim with one owner that knows its due.
LEMMA ClaimsStep ==
    ASSUME ClaimsInv, [Next]_vars
    PROVE  (NoneIsEmpty /\ SoleOwner /\ \A w \in Worker : AttemptOK(w))'
  <1>1. TypeOK'
    BY TypeStep
  <1>2. ASSUME NEW w \in Worker, NEW k, AttemptMoves(w, k)
        PROVE  (NoneIsEmpty /\ SoleOwner /\ \A v \in Worker : AttemptOK(v))'
    <2>1. /\ att \in [Worker -> Attempt] /\ claim \in [Refund -> Claim]
          /\ att[w].pc # "idle" => att[w].refund \in Refund
          /\ att'[w] = k /\ \A v \in Worker \ {w} : att'[v] = att[v]
      BY <1>2 DEF ClaimsInv, TypeOK, AttemptOK, AttemptMoves
    <2>2. CASE Aside(w, k)
      BY <2>1, <2>2 DEF Aside, ClaimsInv, NoneIsEmpty, SoleOwner, Owns, AttemptOK, Owning
    <2>3. CASE Inserts(w, k)
      <3>1. \A v \in Worker : ~Owns(v, att[w].refund)
        BY <2>3 DEF Inserts, ClaimsInv, AttemptOK, Owns
      <3> QED
        BY <2>1, <2>3, <3>1
           DEF Inserts, Pending, ClaimsInv, NoneIsEmpty, SoleOwner, Owns, AttemptOK, Owning
    <2>4. CASE Compares(w, k)
      <3>1. Remaining(att[w].refund) \in Nat /\ att[w].due \in Nat
        BY <2>1, <2>4, RemainingNat, LocalsTyped DEF Compares, ClaimsInv
      <3> QED
        BY <2>1, <2>4, <3>1
           DEF Compares, ClaimsInv, NoneIsEmpty, SoleOwner, Owns,
               AttemptOK, Owning, Claim
    <2>5. CASE Lowers(w, k)
      BY <2>1, <2>5 DEF Lowers, ClaimsInv, NoneIsEmpty, SoleOwner, Owns, AttemptOK, Owning,
         Claim
    <2>6. CASE GoesOn(w, k)
      BY <2>1, <2>6 DEF GoesOn, ClaimsInv, NoneIsEmpty, SoleOwner, Owns, AttemptOK, Owning
    <2>7. CASE Releases(w, k)
      <3>1. att[w].refund \in Refund /\ \A v \in Worker \ {w} : ~Owns(v, att[w].refund)
        BY <2>1, <2>7 DEF Releases, ClaimsInv, SoleOwner, Owns, Owning
      <3>2. \A p \in Refund : claim'[p] = IF p = att[w].refund THEN NoClaim ELSE claim[p]
        BY <2>1, <2>7 DEF Releases
      <3>3. k.pc = "idle"
        BY <2>7 DEF Releases
      <3>4. (NoneIsEmpty /\ SoleOwner)'
        BY <2>1, <3>2, <3>3 DEF ClaimsInv, NoneIsEmpty, SoleOwner, Owns, Owning
      <3>5. ASSUME NEW v \in Worker PROVE AttemptOK(v)'
        BY <2>1, <3>1, <3>2, <3>3 DEF ClaimsInv, AttemptOK, Owns, Owning
      <3> QED
        BY <3>4, <3>5
    <2>8. CASE Marks(w, k)
      BY <2>1, <2>8 DEF Marks, ClaimsInv, NoneIsEmpty, SoleOwner, Owns, AttemptOK, Owning, Claim
    <2> QED
      BY <1>2, <2>2, <2>3, <2>4, <2>5, <2>6, <2>7, <2>8 DEF AttemptMoves
  <1>3. ASSUME NEW r \in Refund, GoesStale(r)
        PROVE  (NoneIsEmpty /\ SoleOwner /\ \A v \in Worker : AttemptOK(v))'
    BY <1>3 DEF GoesStale, ClaimsInv, TypeOK, Claim, NoneIsEmpty, SoleOwner, Owns, AttemptOK
  <1>4. CASE OthersMove \/ EraseUser \/ UNCHANGED vars
    BY <1>4 DEF OthersMove, EraseUser, vars, ClaimsInv, NoneIsEmpty, SoleOwner, Owns, AttemptOK
  <1> QED
    BY <1>2, <1>3, <1>4, AttemptStep DEF Next


-----------------------------------------------------------------------------
(* The dues agreed on stay within the grant. *)

OneLowers(atts) ==
    \A r \in Refund : \A w, v \in Worker : Lowering(w, r, atts) /\ Lowering(v, r, atts) => w = v

\* What a claim is agreed to be due, by case.
LEMMA AgreedIs ==
    ASSUME NEW claims, NEW atts, OneLowers(atts), NEW r \in Refund
    PROVE  /\ claims[r].capped => Agreed(claims, atts)[r] = claims[r].due
           /\ \A w \in Worker : ~claims[r].capped /\ Lowering(w, r, atts)
                                => Agreed(claims, atts)[r] = atts[w].due
           /\ ~claims[r].capped /\ (\A w \in Worker : ~Lowering(w, r, atts))
              => Agreed(claims, atts)[r] = 0
  <1> DEFINE lowers(w) == Lowering(w, r, atts)
  <1>1. Agreed(claims, atts)[r] =
            IF claims[r].capped THEN claims[r].due
            ELSE IF \E w \in Worker : lowers(w)
                 THEN atts[CHOOSE w \in Worker : lowers(w)].due ELSE 0
    BY DEF Agreed
  <1>2. \A w \in Worker : lowers(w) => (CHOOSE v \in Worker : lowers(v)) = w
    BY DEF OneLowers
  <1> HIDE DEF lowers
  <1>3. /\ claims[r].capped => Agreed(claims, atts)[r] = claims[r].due
        /\ \A w \in Worker : ~claims[r].capped /\ lowers(w)
                             => Agreed(claims, atts)[r] = atts[w].due
        /\ ~claims[r].capped /\ (\A w \in Worker : ~lowers(w))
           => Agreed(claims, atts)[r] = 0
    BY <1>1, <1>2
  <1> QED
    BY <1>3 DEF lowers

\* At most one attempt is about to lower a claim.
LEMMA OneLowersNow == ClaimsInv => OneLowers(att)
  BY DEF ClaimsInv, SoleOwner, OneLowers, Lowering, Owns, Owning

LEMMA OneLowersNext ==
    ASSUME ClaimsInv, [Next]_vars
    PROVE  OneLowers(att')
  <1>1. SoleOwner'
    BY ClaimsStep
  <1> QED
    BY <1>1 DEF SoleOwner, OneLowers, Lowering, Owns, Owning

\* No claim is agreed to be due more than its row says.
LEMMA AgreedBound ==
    ASSUME ClaimsInv, NEW r \in Refund
    PROVE  /\ Agreed(claim, att)[r] \in Nat /\ claim[r].due \in Nat
           /\ Agreed(claim, att)[r] <= claim[r].due
           /\ claim[r].state = "none" => claim[r].due = 0
  <1>1. OneLowers(att) /\ claim[r].due \in Nat /\ claim[r].capped \in BOOLEAN
    BY OneLowersNow DEF ClaimsInv, TypeOK, Claim
  <1>2. \A w \in Worker : Lowering(w, r, att) => att[w].due \in Nat /\ att[w].due <= claim[r].due
    BY LocalsTyped DEF ClaimsInv, AttemptOK, Lowering
  <1>3. claim[r].state = "none" => claim[r].due = 0
    BY DEF ClaimsInv, NoneIsEmpty, NoClaim
  <1>4. CASE claim[r].capped
    BY <1>1, <1>3, <1>4, AgreedIs
  <1>5. CASE ~claim[r].capped /\ \E w \in Worker : Lowering(w, r, att)
    BY <1>1, <1>2, <1>3, <1>5, AgreedIs
  <1>6. CASE ~claim[r].capped /\ \A w \in Worker : ~Lowering(w, r, att)
    BY <1>1, <1>3, <1>6, AgreedIs
  <1> QED
    BY <1>4, <1>5, <1>6

\* A step of an attempt concerns its refund's claim only, and of that claim
\* agrees on no more than before, unless it compares it.
LEMMA AgreedMoves ==
    ASSUME ClaimsInv, [Next]_vars, NEW w \in Worker, NEW k, AttemptMoves(w, k)
    PROVE  /\ \A p \in Refund :
                 p # att[w].refund => Agreed(claim', att')[p] = Agreed(claim, att)[p]
           /\ att[w].refund \in Refund =>
              \/ Agreed(claim', att')[att[w].refund] <= Agreed(claim, att)[att[w].refund]
              \/ /\ Compares(w, k)
                 /\ Agreed(claim, att)[att[w].refund] = 0
                 /\ Agreed(claim', att')[att[w].refund] <= Remaining(att[w].refund)
  <1> DEFINE l == att[w]
             r == att[w].refund
             A == Agreed(claim, att)
             B == Agreed(claim', att')
  <1>1. OneLowers(att) /\ OneLowers(att')
    BY OneLowersNow, OneLowersNext
  <1>2. /\ att \in [Worker -> Attempt] /\ claim \in [Refund -> Claim]
        /\ att'[w] = k /\ \A v \in Worker \ {w} : att'[v] = att[v]
        /\ l.due \in Nat
    BY LocalsTyped DEF ClaimsInv, TypeOK, AttemptMoves
  <1>3. ASSUME NEW p \in Refund, p # r PROVE B[p] = A[p]
    <2>1. claim'[p] = claim[p]
      BY <1>2, <1>3 DEF AttemptMoves, Aside, Inserts, Compares, Lowers, GoesOn, Releases, Marks
    <2>2. ~Lowering(w, p, att) /\ ~Lowering(w, p, att')
      BY <1>2, <1>3
         DEF AttemptMoves, Aside, Inserts, Compares, Lowers, GoesOn, Releases, Marks, Lowering, Owning
    <2>3. \A v \in Worker : /\ Lowering(v, p, att') <=> Lowering(v, p, att)
                            /\ Lowering(v, p, att) => att'[v].due = att[v].due
      BY <1>2, <2>2 DEF Lowering
    <2>4. CASE claim[p].capped
      BY <1>1, <2>1, <2>4, AgreedIs
    <2>5. CASE ~claim[p].capped /\ \E v \in Worker : Lowering(v, p, att)
      <3>1. PICK v \in Worker : Lowering(v, p, att)
        BY <2>5
      <3>2. A[p] = att[v].due
        BY <1>1, <2>5, <3>1, AgreedIs
      <3>3. B[p] = att'[v].due
        BY <1>1, <2>1, <2>3, <2>5, <3>1, AgreedIs
      <3> QED
        BY <2>3, <3>1, <3>2, <3>3
    <2>6. CASE ~claim[p].capped /\ \A v \in Worker : ~Lowering(v, p, att)
      BY <1>1, <2>1, <2>3, <2>6, AgreedIs
    <2> QED
      BY <2>4, <2>5, <2>6
  <1>4. ASSUME r \in Refund
        PROVE  \/ B[r] <= A[r]
               \/ Compares(w, k) /\ A[r] = 0 /\ B[r] <= Remaining(r)
    <2>1. A[r] \in Nat /\ Remaining(r) \in Nat
      BY <1>4, AgreedBound, RemainingNat DEF ClaimsInv
    <2>2. \A v \in Worker \ {w} : att[w].pc \in Owning => ~Lowering(v, r, att)
      BY <1>4 DEF ClaimsInv, SoleOwner, Owns, Owning, Lowering
    <2>3. CASE Aside(w, k)
      <3>1. /\ claim' = claim
            /\ \A v \in Worker : Lowering(v, r, att') => v # w /\ Lowering(v, r, att)
        BY <1>2, <2>3 DEF Aside, Lowering, Owning
      <3>2. CASE claim[r].capped
        BY <1>1, <1>4, <2>1, <3>1, <3>2, AgreedIs
      <3>3. CASE ~claim[r].capped /\ \E v \in Worker : Lowering(v, r, att')
        <4>1. PICK v \in Worker : Lowering(v, r, att')
          BY <3>3
        <4>2. B[r] = att'[v].due /\ A[r] = att[v].due /\ att'[v] = att[v]
          BY <1>1, <1>2, <1>4, <3>1, <3>3, <4>1, AgreedIs
        <4> QED
          BY <2>1, <4>2
      <3>4. CASE ~claim[r].capped /\ \A v \in Worker : ~Lowering(v, r, att')
        BY <1>1, <1>4, <2>1, <3>1, <3>4, AgreedIs
      <3> QED
        BY <3>2, <3>3, <3>4
    <2>4. CASE Inserts(w, k)
      <3>1. ~claim'[r].capped
        BY <1>2, <1>4, <2>4 DEF Inserts, Pending
      <3>2. \A v \in Worker : ~Lowering(v, r, att')
        BY <1>2, <2>4 DEF Inserts, Lowering, ClaimsInv, AttemptOK, Owning
      <3> QED
        BY <1>1, <1>4, <2>1, <3>1, <3>2, AgreedIs
    <2>5. CASE Compares(w, k)
      <3>1. ~claim[r].capped /\ \A v \in Worker : ~Lowering(v, r, att)
        BY <2>2, <2>5 DEF Compares, ClaimsInv, AttemptOK, Lowering, Owning
      <3>2. A[r] = 0
        BY <1>1, <1>4, <3>1, AgreedIs
      <3>3. CASE Remaining(r) < l.due
        <4>1. /\ claim'[r] = claim[r] /\ Lowering(w, r, att') /\ att'[w].due = Remaining(r)
          BY <1>2, <2>5, <3>3 DEF Compares, Lowering
        <4>2. B[r] = Remaining(r)
          BY <1>1, <1>4, <3>1, <4>1, AgreedIs
        <4> QED
          BY <2>1, <2>5, <3>2, <4>2
      <3>4. CASE ~(Remaining(r) < l.due)
        <4>1. claim'[r].capped /\ claim'[r].due = claim[r].due /\ claim[r].due = l.due
          BY <1>2, <1>4, <2>5, <3>4 DEF Compares, ClaimsInv, AttemptOK, Claim
        <4>2. B[r] = l.due
          BY <1>1, <1>4, <4>1, AgreedIs
        <4> QED
          BY <1>2, <2>1, <2>5, <3>2, <3>4, <4>2
      <3> QED
        BY <3>3, <3>4
    <2>6. CASE Lowers(w, k)
      <3>1. claim'[r].capped /\ claim'[r].due = l.due
        BY <1>2, <1>4, <2>6 DEF Lowers, Claim
      <3>2. B[r] = l.due
        BY <1>1, <1>4, <3>1, AgreedIs
      <3>3. ~claim[r].capped /\ Lowering(w, r, att)
        BY <2>6 DEF Lowers, ClaimsInv, AttemptOK, Lowering
      <3>4. A[r] = l.due
        BY <1>1, <1>4, <3>3, AgreedIs
      <3> QED
        BY <2>1, <3>2, <3>4
    <2>7. CASE GoesOn(w, k)
      <3>1. claim' = claim /\ \A v \in Worker : ~Lowering(v, r, att')
        BY <1>2, <2>2, <2>7 DEF GoesOn, Lowering, Owning
      <3> QED
        BY <1>1, <1>4, <2>1, <3>1, AgreedIs
    <2>8. CASE Releases(w, k)
      <3>1. ~claim'[r].capped /\ \A v \in Worker : ~Lowering(v, r, att')
        BY <1>2, <1>4, <2>2, <2>8 DEF Releases, NoClaim, Lowering, Owning
      <3> QED
        BY <1>1, <1>4, <2>1, <3>1, AgreedIs
    <2>9. CASE Marks(w, k)
      <3>1. claim[r].capped /\ claim'[r].capped /\ claim'[r].due = claim[r].due
        BY <1>2, <1>4, <2>9 DEF Marks, ClaimsInv, AttemptOK, Claim
      <3> QED
        BY <1>1, <1>4, <2>1, <3>1, AgreedIs
    <2> QED
      BY <2>3, <2>4, <2>5, <2>6, <2>7, <2>8, <2>9 DEF AttemptMoves
  <1> QED
    BY <1>3, <1>4

LEMMA AgreedNat ==
    ASSUME NEW claims \in [Refund -> Claim], NEW atts \in [Worker -> Attempt], OneLowers(atts),
           NEW r \in Refund
    PROVE  Agreed(claims, atts)[r] \in Nat
  <1>1. /\ claims[r].due \in Nat /\ claims[r].capped \in BOOLEAN
        /\ \A w \in Worker : atts[w].due \in Nat
    BY DEF Claim, Attempt
  <1>2. CASE claims[r].capped
    BY <1>1, <1>2, AgreedIs
  <1>3. CASE ~claims[r].capped /\ \E w \in Worker : Lowering(w, r, atts)
    BY <1>1, <1>3, AgreedIs
  <1>4. CASE ~claims[r].capped /\ \A w \in Worker : ~Lowering(w, r, atts)
    BY <1>4, AgreedIs
  <1> QED
    BY <1>2, <1>3, <1>4

\* No step makes the claims agree on more than the grant.
LEMMA AgreedStep ==
    ASSUME ClaimsInv, AgreedWithinGrant, [Next]_vars
    PROVE  AgreedWithinGrant'
  <1> DEFINE A == Agreed(claim, att)
             B == Agreed(claim', att')
  <1>1. /\ OneLowers(att) /\ OneLowers(att') /\ IsFiniteSet(Refund) /\ GrantUnits \in Nat
        /\ SumOver(A, Refund) <= GrantUnits
    BY OneLowersNow, OneLowersNext, RefundAssumption, UnitsAssumption, TotalIs
       DEF AgreedWithinGrant
  <1>2. \A r \in Refund : A[r] \in Nat /\ B[r] \in Nat
    <2>1. att' \in [Worker -> Attempt] /\ claim' \in [Refund -> Claim]
      BY TypeStep DEF TypeOK
    <2>2. att \in [Worker -> Attempt] /\ claim \in [Refund -> Claim]
      BY DEF ClaimsInv, TypeOK
    <2> QED
      BY <1>1, <2>1, <2>2, AgreedNat
  <1>3. SUFFICES SumOver(B, Refund) <= GrantUnits
    BY TotalIs DEF AgreedWithinGrant
  <1>4. SumOver(A, Refund) \in Nat /\ SumOver(B, Refund) \in Nat
    <2> HIDE DEF A, B
    <2> QED
      BY <1>1, <1>2, SumNat
  \* No claim is agreed to be due more: neither is their sum.
  <1>5. ASSUME \A r \in Refund : B[r] <= A[r]
        PROVE  SumOver(B, Refund) <= GrantUnits
    <2> HIDE DEF A, B
    <2>1. SumOver(B, Refund) <= SumOver(A, Refund)
      BY <1>1, <1>2, <1>5, SumGrows
    <2> QED
      BY <1>1, <1>4, <2>1
  \* A claim is compared with all the others: it is agreed to be due no more than
  \* they leave.
  <1>6. ASSUME NEW r \in Refund, A[r] = 0, B[r] <= Remaining(r),
               \A p \in Refund : p # r => B[p] = A[p]
        PROVE  SumOver(B, Refund) <= GrantUnits
    <2> DEFINE dues == [p \in Refund |-> claim[p].due]
               rest == Refund \ {r}
               others == {p \in Refund \ {r} : claim[p].state # "none"}
    <2>1. IsFiniteSet(rest)
      BY <1>1, FS_Subset
    <2>2. \A p \in rest : dues[p] \in Nat /\ A[p] <= dues[p] /\ (p \notin others => dues[p] = 0)
      BY AgreedBound
    <2>3. Remaining(r) = Positive(GrantUnits - SumOver(dues, others))
      BY TotalIs DEF Remaining, DueOf
    <2>4. others \in SUBSET rest
      OBVIOUS
    <2>5. \A p \in rest : A[p] \in Nat /\ B[p] = A[p]
      BY <1>2, <1>6
    <2>6. A[r] = 0 /\ B[r] \in Nat /\ B[r] <= Remaining(r)
      BY <1>2, <1>6
    <2> HIDE DEF A, B, dues, others
    <2>7. /\ SumOver(A, Refund) = A[r] + SumOver(A, rest)
          /\ SumOver(B, Refund) = B[r] + SumOver(B, rest)
      BY <1>1, <1>2, SumWithout
    <2> HIDE DEF rest
    <2>8. SumOver(B, rest) = SumOver(A, rest) /\ SumOver(A, rest) \in Nat
      BY <2>1, <2>5, SumSame, SumNat
    <2>9. SumOver(A, rest) <= SumOver(dues, others)
      <3>1. SumOver(A, rest) <= SumOver(dues, rest)
        BY <2>1, <2>2, <2>5, SumGrows
      <3>2. SumOver(dues, rest) = SumOver(dues, others)
        BY <2>1, <2>2, <2>4, SumOfRest
      <3> QED
        BY <3>1, <3>2
    <2>10. SumOver(dues, others) \in Nat
      <3>1. IsFiniteSet(others)
        BY <2>1, <2>4, FS_Subset
      <3> QED
        BY <2>2, <2>4, <3>1, SumNat
    <2>11. CASE GrantUnits - SumOver(dues, others) < 0
      <3>1. B[r] = 0
        BY <2>3, <2>6, <2>11 DEF Positive
      <3> QED
        BY <1>1, <2>6, <2>7, <2>8, <3>1
    <2>12. CASE ~(GrantUnits - SumOver(dues, others) < 0)
      <3>1. B[r] <= GrantUnits - SumOver(dues, others)
        BY <2>3, <2>6, <2>12 DEF Positive
      <3> QED
        BY <1>1, <2>6, <2>7, <2>8, <2>9, <2>10, <3>1
    <2> QED
      BY <2>11, <2>12
  <1>7. ASSUME NEW w \in Worker, NEW k, AttemptMoves(w, k)
        PROVE  SumOver(B, Refund) <= GrantUnits
    <2>1. CASE \A r \in Refund : B[r] <= A[r]
      BY <1>5, <2>1
    <2>2. CASE ~ \A r \in Refund : B[r] <= A[r]
      <3>1. PICK r \in Refund : ~(B[r] <= A[r])
        BY <2>2
      <3>2. r = att[w].refund
        BY <1>2, <1>7, <3>1, AgreedMoves
      <3>3. /\ A[r] = 0 /\ B[r] <= Remaining(r)
            /\ \A p \in Refund : p # r => B[p] = A[p]
        BY <1>7, <3>1, <3>2, AgreedMoves
      <3> QED
        BY <1>6, <3>3
    <2> QED
      BY <2>1, <2>2
  <1>8. ASSUME NEW g \in Refund, GoesStale(g)
        PROVE  SumOver(B, Refund) <= GrantUnits
    <2>1. /\ att' = att
          /\ \A r \in Refund : claim'[r].capped = claim[r].capped /\ claim'[r].due = claim[r].due
      BY <1>8 DEF GoesStale, ClaimsInv, TypeOK, Claim
    <2>2. B = A
      BY <2>1 DEF Agreed
    <2> QED
      BY <1>1, <2>2
  <1>9. CASE OthersMove \/ EraseUser \/ UNCHANGED vars
    <2>1. att' = att /\ claim' = claim
      BY <1>9 DEF OthersMove, EraseUser, vars
    <2> QED
      BY <1>1, <2>1
  <1> QED
    BY <1>7, <1>8, <1>9, AttemptStep DEF Next

-----------------------------------------------------------------------------
(* One refund debits once. *)

\* A debit that landed is not made again.
LEMMA DebitsStep ==
    ASSUME ClaimsInv, DebitsOK, [Next]_vars
    PROVE  DebitsOK'
  <1>1. ASSUME NEW w \in Worker, NEW k, AttemptMoves(w, k), unsure' = 0, unsure = 0
        PROVE  DebitsOK'
    <2>1. PICK r : r = att[w].refund
      OBVIOUS
    <2>2. /\ att \in [Worker -> Attempt] /\ claim \in [Refund -> Claim]
          /\ debits \in [Refund -> Nat] /\ taken \in [Refund -> Nat]
          /\ att'[w] = k /\ \A v \in Worker \ {w} : att'[v] = att[v]
          /\ att[w].pc # "idle" => r \in Refund
          /\ att[w].due \in Nat
      BY <1>1, <2>1, LocalsTyped DEF ClaimsInv, TypeOK, AttemptOK, AttemptMoves
    \* What the step can do to the claims it does not work at: nothing.
    <2>3. ASSUME NEW p \in Refund, p # r
          PROVE  /\ claim'[p] = claim[p] /\ debits'[p] = debits[p] /\ taken'[p] = taken[p]
                 /\ \A v \in Worker : Owns(v, p)' => Owns(v, p) /\ att'[v] = att[v]
      BY <1>1, <2>1, <2>2, <2>3
         DEF AttemptMoves, Aside, Inserts, Compares, Lowers, GoesOn, Releases, Marks, Debits,
             Owns, Owning
    <2>4. ASSUME r \in Refund
          PROVE  /\ debits'[r] <= 1
                 /\ debits'[r] = 0 => taken'[r] = 0
                 /\ debits'[r] # 0 => /\ claim'[r].capped /\ taken'[r] <= claim'[r].due
                                      /\ \A v \in Worker : Owns(v, r)' => att'[v].pc = "mark"
      <3>1. CASE Debits(w, k)
        <4>1. PICK n \in Nat : n = Total(Take(att[w].seen, att[w].due), Bucket) /\ n <= att[w].due
          BY LocalsTyped, TakeIs DEF ClaimsInv
        <4>2. unsure \in Nat
          BY DEF ClaimsInv, TypeOK
        <4>3. att[w].pc = "debit" /\ k.pc = "mark" /\ Owns(w, r)
          BY <1>1, <2>1, <3>1, <4>2 DEF Debits, Owns, Owning
        <4>4. debits[r] = 0 /\ taken[r] = 0
          BY <1>1, <2>2, <2>4, <4>3 DEF DebitsOK
        <4>5. debits'[r] = 1 /\ taken'[r] = n
          BY <2>1, <2>2, <2>4, <3>1, <4>1, <4>4 DEF Debits
        <4>6. claim'[r] = claim[r]
          BY <1>1, <4>3, <2>1
             DEF AttemptMoves, Aside, Inserts, Compares, Lowers, GoesOn, Releases, Marks,
                 Owning, ClaimsInv, AttemptOK
        <4>7. claim[r].capped /\ claim[r].due = att[w].due
          BY <2>1, <4>3 DEF ClaimsInv, AttemptOK
        <4>8. ASSUME NEW v \in Worker, Owns(v, r)' PROVE v = w
          <5>1. CASE v # w
            <6>1. Owns(v, r)
              BY <2>2, <4>8, <5>1 DEF Owns
            <6> QED
              BY <2>4, <4>3, <6>1 DEF ClaimsInv, SoleOwner
          <5> QED
            BY <5>1
        <4> QED
          BY <2>2, <4>1, <4>3, <4>5, <4>6, <4>7, <4>8
      <3>2. CASE UNCHANGED <<debits, taken, unsure>>
        <4>1. CASE debits[r] = 0
          BY <1>1, <2>4, <3>2, <4>1 DEF DebitsOK
        <4>2. CASE debits[r] # 0
          <5>1. /\ claim[r].capped /\ taken[r] <= claim[r].due /\ debits[r] <= 1
                /\ \A v \in Worker : Owns(v, r) => att[v].pc = "mark"
            BY <1>1, <2>4, <4>2 DEF DebitsOK
          <5>2. claim[r].state # "none"
            BY <2>4, <5>1 DEF ClaimsInv, NoneIsEmpty, NoClaim
          <5>3. att[w].pc \notin Owning \ {"mark"}
            BY <2>1, <5>1 DEF Owns
          <5>4. Aside(w, k) \/ GoesOn(w, k) \/ Marks(w, k)
            BY <1>1, <2>1, <5>2, <5>3
               DEF AttemptMoves, Inserts, Compares, Lowers, Releases, Owning
          <5>5. claim'[r].capped /\ claim'[r].due = claim[r].due
            <6>1. CASE claim' = claim
              BY <5>1, <6>1
            <6>2. CASE Marks(w, k)
              BY <2>1, <2>2, <2>4, <5>1, <6>2 DEF Marks, Claim
            <6> QED
              BY <5>4, <6>1, <6>2 DEF Aside, GoesOn
          <5>6. k.pc \notin Owning \/ k.pc = "mark"
            BY <5>3, <5>4 DEF Aside, GoesOn, Marks, Owning
          <5>7. ASSUME NEW v \in Worker, Owns(v, r)' PROVE att'[v].pc = "mark"
            <6>1. CASE v = w
              BY <2>2, <5>6, <5>7, <6>1 DEF Owns
            <6>2. CASE v # w
              <7>1. att'[v] = att[v]
                BY <2>2, <6>2
              <7>2. Owns(v, r)
                BY <5>7, <7>1 DEF Owns
              <7> QED
                BY <5>1, <7>1, <7>2
            <6> QED
              BY <6>1, <6>2
          <5> QED
            BY <3>2, <4>2, <5>1, <5>5, <5>7
        <4> QED
          BY <4>1, <4>2
      <3> QED
        BY <1>1, <3>1, <3>2 DEF AttemptMoves
    <2>5. ASSUME NEW p \in Refund
          PROVE  /\ debits'[p] <= 1
                 /\ debits'[p] = 0 => taken'[p] = 0
                 /\ debits'[p] # 0 => /\ claim'[p].capped /\ taken'[p] <= claim'[p].due
                                      /\ \A v \in Worker : Owns(v, p)' => att'[v].pc = "mark"
      <3>1. CASE p = r
        BY <2>4, <2>5, <3>1
      <3>2. CASE p # r
        BY <1>1, <2>3, <2>5, <3>2 DEF DebitsOK
      <3> QED
        BY <3>1, <3>2
    <2> QED
      BY <2>5 DEF DebitsOK
  <1>2. ASSUME NEW w \in Worker, NEW k, AttemptMoves(w, k), unsure' = 0
        PROVE  unsure = 0
    BY <1>2 DEF AttemptMoves, Debits, ClaimsInv, TypeOK
  <1>3. ASSUME NEW g \in Refund, GoesStale(g) PROVE DebitsOK'
    <2>1. /\ UNCHANGED <<att, debits, taken, unsure>>
          /\ \A r \in Refund : claim'[r].capped = claim[r].capped /\ claim'[r].due = claim[r].due
      BY <1>3 DEF GoesStale, ClaimsInv, TypeOK, Claim
    <2> QED
      BY <2>1 DEF DebitsOK, Owns
  <1>4. CASE OthersMove \/ EraseUser \/ UNCHANGED vars
    BY <1>4 DEF OthersMove, EraseUser, vars, DebitsOK, Owns
  <1>5. CASE unsure' # 0
    BY <1>5 DEF DebitsOK
  <1> QED
    BY <1>1, <1>2, <1>3, <1>4, <1>5, AttemptStep DEF Next

-----------------------------------------------------------------------------
(* What the invariant gives. *)

LEMMA InvInit == Init => Inv
  <1> SUFFICES ASSUME Init PROVE Inv
    OBVIOUS
  <1>1. \A r \in Refund : claim[r] = NoClaim
    BY DEF Init
  <1>2. \A w \in Worker : att[w] = Idle /\ att[w].pc = "idle"
    BY IdleTyped DEF Init
  <1>3. TypeOK
    <2>1. NoClaim \in Claim
      BY DEF NoClaim, Claim
    <2>2. Idle \in Attempt
      BY IdleTyped
    <2>3. /\ claim \in [Refund -> Claim] /\ att \in [Worker -> Attempt]
          /\ awaited \subseteq Refund
      BY <2>1, <2>2 DEF Init
    <2>4. debits \in [Refund -> Nat] /\ taken \in [Refund -> Nat]
      BY DEF Init
    <2>5. bill \in Bills /\ ink \in [Bucket -> 0..MaxInk] /\ user \in BOOLEAN
      BY InkAssumption DEF Init
    <2>6. overlap \in BOOLEAN
      BY DEF Init
    <2>7. unsure \in Nat /\ mishaps \in 0..MaxMishaps
      <3>1. unsure = 0 /\ mishaps = 0
        BY DEF Init
      <3> QED
        BY <3>1, BoundAssumption
    <2> QED
      BY <2>3, <2>4, <2>5, <2>6, <2>7 DEF TypeOK
  <1>4. ClaimsInv
    BY <1>1, <1>2, <1>3 DEF ClaimsInv, NoneIsEmpty, SoleOwner, Owns, Owning, AttemptOK
  <1>5. AgreedWithinGrant
    <2> DEFINE A == Agreed(claim, att)
    <2>1. \A r \in Refund : ~claim[r].capped
      BY <1>1 DEF NoClaim
    <2>2. OneLowers(att) /\ \A r \in Refund, w \in Worker : ~Lowering(w, r, att)
      BY <1>2 DEF OneLowers, Lowering
    <2>3. \A r \in Refund : A[r] = 0
      BY <2>1, <2>2, AgreedIs
    <2> HIDE DEF A
    <2>4. SumOver(A, Refund) = SumOver(A, {})
      BY <2>3, RefundAssumption, SumOfRest
    <2>5. Total(A, Refund) = 0
      BY <2>4, SumOfNone, TotalIs
    <2> QED
      BY <2>5, UnitsAssumption DEF A, AgreedWithinGrant
  <1>6. DebitsOK
    BY DEF Init, DebitsOK
  <1> QED
    BY <1>4, <1>5, <1>6 DEF Inv

LEMMA InvStep == Inv /\ [Next]_vars => Inv'
  <1> SUFFICES ASSUME Inv, [Next]_vars PROVE Inv'
    OBVIOUS
  <1>1. ClaimsInv /\ AgreedWithinGrant /\ DebitsOK
    BY DEF Inv
  <1>2. ClaimsInv'
    BY <1>1, TypeStep, ClaimsStep DEF ClaimsInv
  <1>3. AgreedWithinGrant' /\ DebitsOK'
    BY <1>1, AgreedStep, DebitsStep
  <1> QED
    BY <1>2, <1>3 DEF Inv

\* A claim that was compared is agreed to be due what its row says.
LEMMA DuesAreAgreed == Inv => DuesWithinGrant
  <1> SUFFICES ASSUME Inv PROVE DuesWithinGrant
    OBVIOUS
  <1> DEFINE A == Agreed(claim, att)
             dues == [r \in Refund |-> claim[r].due]
             compared == {r \in Refund : claim[r].capped}
  <1>1. compared \in SUBSET Refund /\ IsFiniteSet(Refund) /\ GrantUnits \in Nat
    BY RefundAssumption, UnitsAssumption
  <1>2. IsFiniteSet(compared)
    BY <1>1, FS_Subset
  <1>3. \A r \in Refund : A[r] \in Nat
    BY AgreedBound DEF Inv
  <1>4. \A r \in compared : dues[r] = A[r]
    BY AgreedIs, OneLowersNow DEF Inv
  <1>5. SumOver(A, Refund) <= GrantUnits
    BY TotalIs DEF Inv, AgreedWithinGrant
  <1>6. DueOf(compared) = SumOver(dues, compared)
    BY TotalIs DEF DueOf
  <1> HIDE DEF A, dues
  <1>7. SumOver(dues, compared) = SumOver(A, compared)
    <2> HIDE DEF compared
    <2> QED
      BY <1>1, <1>2, <1>3, <1>4, SumSame
  <1>8. SumOver(A, compared) <= SumOver(A, Refund)
    BY <1>1, <1>3, SumOfMore
  <1>9. SumOver(A, compared) \in Nat /\ SumOver(A, Refund) \in Nat
    <2> HIDE DEF compared
    <2> QED
      BY <1>1, <1>2, <1>3, SumNat
  <1> QED
    BY <1>1, <1>5, <1>6, <1>7, <1>8, <1>9 DEF DuesWithinGrant

\* What was debited for a refund is no more than it is agreed to be due.
LEMMA TakenWithinGrant == Inv => NeverOverReversed
  <1> SUFFICES ASSUME Inv, unsure = 0
               PROVE  /\ \A r \in Refund : debits[r] <= 1
                      /\ Total(taken, Refund) <= GrantUnits
    BY DEF NeverOverReversed
  <1>1. \A r \in Refund : debits[r] <= 1
    BY DEF Inv, DebitsOK
  <1>2. PICK a : a = Agreed(claim, att)
    OBVIOUS
  <1>3. IsFiniteSet(Refund) /\ GrantUnits \in Nat /\ SumOver(a, Refund) <= GrantUnits
    BY <1>2, RefundAssumption, UnitsAssumption, TotalIs DEF Inv, AgreedWithinGrant
  <1>4. \A r \in Refund : a[r] \in Nat /\ taken[r] \in Nat
    BY <1>2, AgreedBound DEF Inv, ClaimsInv, TypeOK
  <1>5. ASSUME NEW r \in Refund PROVE taken[r] <= a[r]
    <2>1. debits[r] # 0 => taken[r] <= claim[r].due /\ a[r] = claim[r].due
      BY <1>2, AgreedIs, OneLowersNow DEF Inv, DebitsOK
    <2>2. debits[r] = 0 => taken[r] = 0
      BY DEF Inv, DebitsOK
    <2> QED
      BY <1>4, <2>1, <2>2
  <1>6. SumOver(taken, Refund) <= SumOver(a, Refund)
    BY <1>3, <1>4, <1>5, SumGrows
  <1>7. SumOver(taken, Refund) \in Nat /\ SumOver(a, Refund) \in Nat
    BY <1>3, <1>4, SumNat
  <1> QED
    BY <1>1, <1>3, <1>6, <1>7, TotalIs

-----------------------------------------------------------------------------
(* The theorem. *)

\* Refunds that race take back too little from their grant, never too much: the
\* dues of the claims that were compared with the others (capAfterClaim) never
\* exceed what the grant gave, and unless a debit landed and threw one refund
\* debits the balance once and all of them together take no more than the grant
\* gave, for any finite number of refunds and any number of attempts.
THEOREM ReversalSound == Spec => []ReversalOK
  <1>1. Inv => ReversalOK
    BY DuesAreAgreed, TakenWithinGrant DEF ReversalOK, Inv, ClaimsInv
  <1> QED
    BY <1>1, InvInit, InvStep, PTL DEF Spec

-----------------------------------------------------------------------------
(* Refunds that never overlap: what those of one payment are due adds up to  *)
(* the payment's share of the grant, whatever each was rounded to.           *)

Payments == {bill[r].payment : r \in Refund}

Finished(p) == {r \in Refund : bill[r].payment = p /\ claim[r].state = "done"}

\* The share of the grant of so many paise of the payment.
Share(paise) == (GrantUnits * Smaller(paise, AmountPaise)) \div AmountPaise

\* No claim was left behind but those that are done and of the payment.
Clean(p) == \A r \in Refund :
    claim[r].state = "none" \/ r \in Finished(p) \/ \E w \in Worker : Owns(w, r)

Alone == \A w, v \in Worker : att[w].pc # "idle" /\ att[v].pc # "idle" => w = v

PendingOwned == \A w \in Worker :
    att[w].pc \in Owning \ {"mark"} => claim[att[w].refund].state = "pending"

\* An attempt whose refund is not done yet.
Weighed(w, r) ==
    \/ att[w].pc \in {"remaining", "insert"} /\ claim[r].state = "none"
    \/ att[w].pc \in Owning /\ claim[r].state = "pending"

\* What the refund adds to the share of those before it.
AddedShare(w, p) ==
    LET r == att[w].refund
        paid == PaiseOf(Finished(p))
    IN r \in Refund /\ bill[r].payment = p /\ Weighed(w, r)
       => att[w].due = Share(paid + bill[r].paise) - Share(paid)

ExactFor(p) ==
    /\ DueOf(Finished(p)) = Share(PaiseOf(Finished(p)))
    /\ \A w \in Worker : AddedShare(w, p)

ExactInv ==
    /\ ClaimsInv /\ PendingOwned
    /\ ~overlap => Alone /\ \A p \in Payments : Clean(p) => ExactFor(p)

\* The arithmetic of a share.
LEMMA MulGrows ==
    ASSUME NEW a \in Nat, NEW b \in Nat, NEW c \in Nat, a <= b
    PROVE  c * a <= c * b /\ c * a \in Nat /\ c * b \in Nat
  OBVIOUS

LEMMA DivGrows ==
    ASSUME NEW a \in Nat, NEW b \in Nat, NEW c \in Nat \ {0}, a <= b
    PROVE  a \div c <= b \div c /\ a \div c \in Nat /\ b \div c \in Nat
  OBVIOUS

LEMMA DivAll == ASSUME NEW a \in Nat, NEW c \in Nat \ {0} PROVE (a * c) \div c = a
  OBVIOUS

\* A share is no more than the grant; the whole payment's is the grant.
LEMMA ShareIs ==
    ASSUME NEW n \in Nat
    PROVE  /\ Share(n) \in Nat /\ Share(n) <= GrantUnits
           /\ AmountPaise <= n => Share(n) = GrantUnits
           /\ n = 0 => Share(n) = 0
  <1>1. GrantUnits \in Nat /\ AmountPaise \in Nat \ {0}
    BY UnitsAssumption, PaiseAssumption
  <1>2. PICK m \in Nat : m = Smaller(n, AmountPaise)
    BY <1>1 DEF Smaller
  <1>3. m <= AmountPaise /\ (AmountPaise <= n => m = AmountPaise) /\ (n = 0 => m = 0)
    BY <1>1, <1>2 DEF Smaller
  <1>4. /\ GrantUnits * m <= GrantUnits * AmountPaise
        /\ GrantUnits * m \in Nat /\ GrantUnits * AmountPaise \in Nat
    BY <1>1, <1>3, MulGrows
  <1>5. /\ (GrantUnits * m) \div AmountPaise <= (GrantUnits * AmountPaise) \div AmountPaise
        /\ (GrantUnits * m) \div AmountPaise \in Nat
    BY <1>1, <1>4, DivGrows
  <1>6. (GrantUnits * AmountPaise) \div AmountPaise = GrantUnits
    BY <1>1, DivAll
  <1>7. Share(n) = (GrantUnits * m) \div AmountPaise
    BY <1>2 DEF Share
  <1>8. n = 0 => Share(n) = 0
    <2>1. n = 0 => GrantUnits * m = 0
      BY <1>1, <1>3
    <2>2. 0 \div AmountPaise = 0
      BY <1>1
    <2> QED
      BY <1>7, <2>1, <2>2
  <1> QED
    BY <1>3, <1>5, <1>6, <1>7, <1>8

LEMMA ShareGrows ==
    ASSUME NEW n \in Nat, NEW m \in Nat, n <= m
    PROVE  Share(n) <= Share(m)
  <1>1. GrantUnits \in Nat /\ AmountPaise \in Nat \ {0}
    BY UnitsAssumption, PaiseAssumption
  <1>2. PICK a \in Nat : a = Smaller(n, AmountPaise)
    BY <1>1 DEF Smaller
  <1>3. PICK b \in Nat : b = Smaller(m, AmountPaise)
    BY <1>1 DEF Smaller
  <1>4. a <= b
    BY <1>1, <1>2, <1>3 DEF Smaller
  <1>5. GrantUnits * a <= GrantUnits * b /\ GrantUnits * a \in Nat /\ GrantUnits * b \in Nat
    BY <1>1, <1>4, MulGrows
  <1>6. (GrantUnits * a) \div AmountPaise <= (GrantUnits * b) \div AmountPaise
    BY <1>1, <1>5, DivGrows
  <1> QED
    BY <1>2, <1>3, <1>6 DEF Share

-----------------------------------------------------------------------------
(* What a step changes of it. *)

\* Whether the attempt that steps is the only one.
Lone(w) ==
    \/ att[w].pc # "idle" /\ overlap' = overlap
    \/ overlap' = (overlap \/ \E v \in Worker : att[v].pc # "idle")

\* An attempt that starts beside another one is an overlap, and no other step is.
LEMMA LoneStep ==
    ASSUME NEW w \in Worker, Deliver(w) \/ Step(w) \/ Throw(w) \/ Die(w)
    PROVE  Lone(w) /\ bill' = bill
  <1>1. CASE Deliver(w)
    BY <1>1 DEF Deliver, Become, At, Lone
  <1>2. CASE Step(w)
    BY <1>2 DEF Step, ReadPrior, ReadRemaining, Insert, Look, ReadCap, Lower, ReadBalance,
                Debit, LoseDebit, Rollback, Mark, Answer, Become, At, Lone
  <1>3. CASE Throw(w)
    BY <1>3 DEF Throw, ReadThrows, InsertThrows, LowerThrows, DebitThrows, RollbackThrows, MarkThrows,
                Answer, Become, At, Lone
  <1>4. CASE Die(w)
    BY <1>4 DEF Die, Become, At, Lone
  <1> QED
    BY <1>1, <1>2, <1>3, <1>4

\* Without an overlap all but the attempt that steps are idle.
LEMMA AloneStep ==
    ASSUME ClaimsInv, ~overlap => Alone, NEW w \in Worker, NEW k, AttemptMoves(w, k), Lone(w),
           ~overlap'
    PROVE  /\ ~overlap /\ Alone /\ Alone'
           /\ \A v \in Worker : v # w => att[v].pc = "idle" /\ att'[v].pc = "idle"
  <1>1. /\ att \in [Worker -> Attempt] /\ overlap \in BOOLEAN
        /\ att'[w] = k /\ \A v \in Worker : v # w => att'[v] = att[v]
    BY DEF ClaimsInv, TypeOK, AttemptMoves
  <1>2. ~overlap /\ Alone
    BY <1>1 DEF Lone
  <1>3. \A v \in Worker : v # w => att[v].pc = "idle"
    BY <1>1, <1>2 DEF Lone, Alone
  <1> QED
    BY <1>1, <1>2, <1>3 DEF Alone

\* An attempt works at the claim of its refund and at no other.
LEMMA Elsewhere ==
    ASSUME ClaimsInv, NEW w \in Worker, NEW k, AttemptMoves(w, k), NEW p \in Refund,
           p # att[w].refund
    PROVE  /\ claim'[p] = claim[p]
           /\ \A v \in Worker : Owns(v, p)' => Owns(v, p)
  <1>1. /\ att \in [Worker -> Attempt] /\ claim \in [Refund -> Claim]
        /\ att'[w] = k /\ \A v \in Worker : v # w => att'[v] = att[v]
    BY DEF ClaimsInv, TypeOK, AttemptMoves
  <1>2. claim'[p] = claim[p]
    BY <1>1 DEF AttemptMoves, Aside, Inserts, Compares, Lowers, GoesOn, Releases, Marks
  <1>3. k.pc \in Owning => k.refund = att[w].refund
    BY DEF AttemptMoves, Aside, Inserts, Compares, Lowers, GoesOn, Releases, Marks, Owning
  <1> QED
    BY <1>1, <1>2, <1>3 DEF Owns

\* A claim no attempt owns is nobody's for ever.
LEMMA LeftBehind ==
    ASSUME ClaimsInv, NEW w \in Worker, NEW k, AttemptMoves(w, k), NEW r \in Refund,
           claim[r].state # "none", \A v \in Worker : ~Owns(v, r)
    PROVE  claim'[r] = claim[r] /\ \A v \in Worker : ~Owns(v, r)'
  <1>1. CASE r # att[w].refund
    BY <1>1, Elsewhere
  <1>2. CASE r = att[w].refund
    <2>1. att[w].pc \notin Owning
      BY <1>2 DEF Owns
    <2>2. Aside(w, k)
      BY <1>2, <2>1 DEF AttemptMoves, Inserts, Compares, Lowers, GoesOn, Releases, Marks, Owning
    <2>3. att'[w] = k /\ \A v \in Worker : v # w => att'[v] = att[v]
      BY DEF ClaimsInv, TypeOK, AttemptMoves
    <2> QED
      BY <2>2, <2>3 DEF Aside, Owns
  <1> QED
    BY <1>1, <1>2

\* A claim left behind once is never cleared away.
LEMMA CleanBack ==
    ASSUME ClaimsInv, NEW w \in Worker, NEW k, AttemptMoves(w, k), bill' = bill,
           NEW p, Clean(p)'
    PROVE  Clean(p)
  <1> SUFFICES ASSUME NEW r \in Refund, claim[r].state # "none", \A v \in Worker : ~Owns(v, r)
               PROVE  r \in Finished(p)
    BY DEF Clean
  <1>1. claim'[r] = claim[r] /\ \A v \in Worker : ~Owns(v, r)'
    BY LeftBehind
  <1>2. (r \in Finished(p))'
    BY <1>1 DEF Clean
  <1> QED
    BY <1>1, <1>2 DEF Finished

\* Comparing a claim does not end it.
LEMMA ComparedState ==
    ASSUME ClaimsInv, NEW w \in Worker, NEW k, Compares(w, k) \/ Lowers(w, k), NEW r \in Refund,
           r = att[w].refund
    PROVE  claim'[r].state = claim[r].state
  <1>1. claim \in [Refund -> Claim] /\ att[w].due \in Nat
    BY LocalsTyped DEF ClaimsInv, TypeOK
  <1>2. PICK c : c = claim[r] /\ c \in Claim
    BY <1>1
  <1>3. CASE Compares(w, k)
    BY <1>1, <1>2, <1>3 DEF Compares, Claim
  <1>4. CASE Lowers(w, k)
    <2>1. claim' = [claim EXCEPT ![r] = [c EXCEPT !.due = att[w].due, !.capped = TRUE]]
      BY <1>2, <1>4 DEF Lowers
    <2>2. claim'[r] = [c EXCEPT !.due = att[w].due, !.capped = TRUE]
      BY <1>1, <2>1
    <2> QED
      BY <1>2, <2>2 DEF Claim
  <1> QED
    BY <1>3, <1>4

\* An attempt finds its claim pending until it marks it.
LEMMA PendingStep ==
    ASSUME ClaimsInv, PendingOwned, [Next]_vars
    PROVE  PendingOwned'
  <1>1. ASSUME NEW w \in Worker, NEW k, AttemptMoves(w, k) PROVE PendingOwned'
    <2>1. /\ att \in [Worker -> Attempt] /\ claim \in [Refund -> Claim]
          /\ att'[w] = k /\ \A v \in Worker : v # w => att'[v] = att[v]
      BY <1>1 DEF ClaimsInv, TypeOK, AttemptMoves
    <2>2. PICK r : r = att[w].refund
      OBVIOUS
    <2>3. att[w].pc # "idle" => r \in Refund
      BY <2>2 DEF ClaimsInv, AttemptOK
    <2>4. ASSUME k.pc \in Owning \ {"mark"} PROVE claim'[k.refund].state = "pending"
      <3>1. CASE Inserts(w, k)
        BY <2>1, <2>2, <2>4, <3>1 DEF Inserts, Owning, Pending
      <3>2. CASE Compares(w, k) \/ Lowers(w, k) \/ GoesOn(w, k)
        <4>1. k.refund = r /\ r \in Refund /\ claim[r].state = "pending"
          BY <2>2, <2>3, <2>4, <3>2 DEF Compares, Lowers, GoesOn, Owning, PendingOwned
        <4>2. claim'[r].state = claim[r].state
          BY <2>2, <3>2, <4>1, ComparedState DEF GoesOn
        <4> QED
          BY <4>1, <4>2
      <3> QED
        BY <1>1, <2>4, <3>1, <3>2 DEF AttemptMoves, Aside, Releases, Marks, Owning
    <2>5. ASSUME NEW v \in Worker, v # w, att[v].pc \in Owning \ {"mark"}
          PROVE  claim'[att[v].refund].state = "pending"
      <3>1. PICK p : p = att[v].refund
        OBVIOUS
      <3>2. p \in Refund /\ claim[p].state = "pending" /\ Owns(v, p)
        BY <2>5, <3>1 DEF ClaimsInv, AttemptOK, PendingOwned, Owns, Owning
      <3>3. CASE p # r
        <4>1. claim'[p] = claim[p]
          BY <1>1, <2>2, <3>2, <3>3, Elsewhere
        <4> QED
          BY <3>1, <3>2, <4>1
      <3>4. CASE p = r
        <4>1. ~Owns(w, p)
          BY <2>5, <3>2 DEF ClaimsInv, SoleOwner
        <4>2. att[w].pc \notin Owning
          BY <2>2, <3>4, <4>1 DEF Owns
        <4>3. claim[r].state # "none"
          BY <3>2, <3>4
        <4>4. claim' = claim
          BY <1>1, <2>2, <4>2, <4>3
             DEF AttemptMoves, Aside, Inserts, Compares, Lowers, GoesOn, Releases, Marks, Owning
        <4> QED
          BY <3>1, <3>2, <4>4
      <3> QED
        BY <3>3, <3>4
    <2>6. ASSUME NEW v \in Worker, att'[v].pc \in Owning \ {"mark"}
          PROVE  claim'[att'[v].refund].state = "pending"
      BY <2>1, <2>4, <2>5, <2>6
    <2> QED
      BY <2>6 DEF PendingOwned
  <1>2. ASSUME NEW g \in Refund, GoesStale(g) PROVE PendingOwned'
    <2>1. att' = att /\ \A r \in Refund : claim'[r].state = claim[r].state
      BY <1>2 DEF GoesStale, ClaimsInv, TypeOK, Claim
    <2>2. \A w \in Worker : att[w].pc \in Owning => att[w].refund \in Refund
      BY DEF ClaimsInv, AttemptOK, Owning
    <2> QED
      BY <2>1, <2>2 DEF PendingOwned
  <1>3. CASE OthersMove \/ EraseUser \/ UNCHANGED vars
    BY <1>3 DEF OthersMove, EraseUser, vars, PendingOwned
  <1> QED
    BY <1>1, <1>2, <1>3, AttemptStep DEF Next

\* The refunds that are done stay so and are due the same; one joins them when an
\* attempt marks it.
LEMMA FinishedMoves ==
    ASSUME ClaimsInv, PendingOwned, NEW w \in Worker, NEW k, AttemptMoves(w, k), bill' = bill,
           NEW p, NEW r, r = att[w].refund
    PROVE  \/ Finished(p)' = Finished(p)
           \/ /\ Marks(w, k) /\ r \in Refund /\ r \notin Finished(p) /\ bill[r].payment = p
              /\ claim[r].state = "pending" /\ claim'[r].due = claim[r].due
              /\ Finished(p)' = Finished(p) \cup {r}
  <1>1. claim \in [Refund -> Claim] /\ (att[w].pc # "idle" => r \in Refund)
    BY DEF ClaimsInv, TypeOK, AttemptOK
  <1>2. \A q \in Refund : q # r => claim'[q] = claim[q]
    BY Elsewhere
  <1>3. CASE r \notin Refund
    <2>1. \A q \in Refund : claim'[q] = claim[q]
      BY <1>2, <1>3
    <2> QED
      BY <2>1 DEF Finished
  <1>4. CASE r \in Refund /\ (claim'[r].state = "done" <=> claim[r].state = "done")
    <2>1. \A q \in Refund : claim'[q].state = "done" <=> claim[q].state = "done"
      BY <1>2, <1>4
    <2> QED
      BY <2>1 DEF Finished
  <1>5. CASE r \in Refund /\ ~(claim'[r].state = "done" <=> claim[r].state = "done")
    <2>1. Marks(w, k)
      <3>1. ~Aside(w, k) /\ ~GoesOn(w, k)
        BY <1>5 DEF Aside, GoesOn
      <3>2. ~Inserts(w, k)
        BY <1>1, <1>5 DEF Inserts, Pending
      <3>3. ~Compares(w, k) /\ ~Lowers(w, k)
        BY <1>5, ComparedState
      <3>4. ~Releases(w, k)
        BY <1>1, <1>5 DEF Releases, NoClaim, PendingOwned, Owning
      <3> QED
        BY <3>1, <3>2, <3>3, <3>4 DEF AttemptMoves
    <2>2. claim'[r].state = "done" /\ claim'[r].due = claim[r].due
      BY <1>1, <1>5, <2>1 DEF Marks, Claim
    <2>3. claim[r].state = "pending"
      <3>1. claim[r].state # "none"
        BY <2>1 DEF Marks, ClaimsInv, AttemptOK, Owning
      <3> QED
        BY <1>1, <1>5, <2>2, <3>1 DEF Claim
    <2>4. CASE bill[r].payment = p
      <3>1. \A q \in Refund : q \in Finished(p)' <=> q \in Finished(p) \/ q = r
        BY <1>2, <2>2, <2>4 DEF Finished
      <3>2. r \notin Finished(p)
        BY <2>3 DEF Finished
      <3> QED
        BY <1>5, <2>1, <2>2, <2>3, <2>4, <3>1, <3>2 DEF Finished
    <2>5. CASE bill[r].payment # p
      BY <1>2, <2>5 DEF Finished
    <2> QED
      BY <2>4, <2>5
  <1> QED
    BY <1>3, <1>4, <1>5

\* A refund that is done is due the same ever after.
LEMMA FinishedDues ==
    ASSUME ClaimsInv, PendingOwned, NEW w \in Worker, NEW k, AttemptMoves(w, k),
           NEW q \in Refund, claim[q].state = "done"
    PROVE  claim'[q].due = claim[q].due
  <1>1. claim \in [Refund -> Claim] /\ (att[w].pc # "idle" => att[w].refund \in Refund)
    BY DEF ClaimsInv, TypeOK, AttemptOK
  <1>2. CASE q # att[w].refund
    BY <1>2, Elsewhere
  <1>3. CASE q = att[w].refund
    <2>1. att[w].pc \notin Owning \ {"mark"}
      BY <1>3 DEF PendingOwned
    <2>2. Aside(w, k) \/ GoesOn(w, k) \/ Marks(w, k)
      BY <1>3, <2>1 DEF AttemptMoves, Inserts, Compares, Lowers, Releases, Owning
    <2>3. CASE claim' = claim
      BY <2>3
    <2>4. CASE Marks(w, k)
      BY <1>1, <1>3, <2>4 DEF Marks, Claim
    <2> QED
      BY <2>2, <2>3, <2>4 DEF Aside, GoesOn
  <1> QED
    BY <1>2, <1>3

\* A refund that is marked joins the sums with its due and its amount.
LEMMA FinishedSums ==
    ASSUME ClaimsInv, ClaimsInv', PendingOwned, NEW w \in Worker, NEW k, AttemptMoves(w, k),
           bill' = bill, NEW p, NEW r, r = att[w].refund
    PROVE  \/ /\ Finished(p)' = Finished(p)
              /\ DueOf(Finished(p))' = DueOf(Finished(p))
              /\ PaiseOf(Finished(p))' = PaiseOf(Finished(p))
           \/ /\ Marks(w, k) /\ r \in Refund /\ bill[r].payment = p
              /\ claim[r].state = "pending"
              /\ DueOf(Finished(p))' = claim[r].due + DueOf(Finished(p))
              /\ PaiseOf(Finished(p))' = bill[r].paise + PaiseOf(Finished(p))
  <1> DEFINE dues == [q \in Refund |-> claim[q].due]
             duesNext == [q \in Refund |-> claim'[q].due]
             paise == [q \in Refund |-> bill[q].paise]
  <1>1. PICK S : S = Finished(p)
    OBVIOUS
  <1>2. S \in SUBSET Refund /\ IsFiniteSet(S)
    <2>1. S \in SUBSET Refund
      BY <1>1 DEF Finished
    <2> QED
      BY <2>1, RefundAssumption, FS_Subset
  <1>3. \A q \in Refund : dues[q] \in Nat /\ duesNext[q] \in Nat /\ paise[q] \in Nat
    BY PaiseAssumption DEF ClaimsInv, TypeOK, Claim
  <1>4. \A q \in S : duesNext[q] = dues[q]
    BY <1>1, FinishedDues DEF Finished
  <1>5. /\ DueOf(Finished(p)) = SumOver(dues, S) /\ PaiseOf(Finished(p)) = SumOver(paise, S)
        /\ DueOf(Finished(p))' = SumOver(duesNext, Finished(p)')
        /\ PaiseOf(Finished(p))' = SumOver(paise, Finished(p)')
    BY <1>1, TotalIs DEF DueOf, PaiseOf
  <1>6. /\ r \in Refund => dues[r] = claim[r].due /\ duesNext[r] = claim'[r].due
                           /\ paise[r] = bill[r].paise
    OBVIOUS
  <1> HIDE DEF dues, duesNext, paise
  <1>7. SumOver(duesNext, S) = SumOver(dues, S)
    BY <1>2, <1>3, <1>4, SumSame
  <1>8. CASE Finished(p)' = Finished(p)
    BY <1>1, <1>5, <1>7, <1>8
  <1>9. CASE Finished(p)' # Finished(p)
    <2>1. /\ Marks(w, k) /\ r \in Refund /\ r \notin S /\ bill[r].payment = p
          /\ claim[r].state = "pending" /\ claim'[r].due = claim[r].due
          /\ Finished(p)' = S \cup {r}
      BY <1>1, <1>9, FinishedMoves
    <2>2. PICK T : T = S \cup {r}
      OBVIOUS
    <2>3. T \in SUBSET Refund /\ IsFiniteSet(T) /\ T \ {r} = S /\ r \in T
      <3>1. T \in SUBSET Refund
        BY <1>2, <2>1, <2>2
      <3> QED
        BY <2>1, <2>2, <3>1, RefundAssumption, FS_Subset
    <2>4. \A q \in T : duesNext[q] \in Nat /\ paise[q] \in Nat
      BY <1>3, <2>3
    <2>5. /\ SumOver(duesNext, T) = duesNext[r] + SumOver(duesNext, S)
          /\ SumOver(paise, T) = paise[r] + SumOver(paise, S)
      <3>1. /\ SumOver(duesNext, T) = duesNext[r] + SumOver(duesNext, T \ {r})
            /\ SumOver(paise, T) = paise[r] + SumOver(paise, T \ {r})
        BY <2>3, <2>4, SumWithout
      <3> QED
        BY <2>3, <3>1
    <2> QED
      BY <1>5, <1>6, <1>7, <2>1, <2>2, <2>5
  <1> QED
    BY <1>8, <1>9

\* An attempt that has the grant to itself finds the payment's refunds before it
\* and nothing else.
LEMMA FindsFinished ==
    ASSUME ClaimsInv, NEW w \in Worker, \A v \in Worker : v # w => att[v].pc = "idle",
           NEW p, Clean(p), NEW r \in Refund, r = att[w].refund, bill[r].payment = p,
           claim[r].state # "done", DueOf(Finished(p)) = Share(PaiseOf(Finished(p)))
    PROVE  /\ Prior(r) = Finished(p)
           /\ Remaining(r) = GrantUnits - Share(PaiseOf(Finished(p)))
  <1>1. Prior(r) = Finished(p)
    BY DEF Prior, Finished
  <1>2. {q \in Refund \ {r} : claim[q].state # "none"} = Finished(p)
    <2>1. \A q \in Refund \ {r} : claim[q].state # "none" => q \in Finished(p)
      <3>1. \A q \in Refund \ {r}, v \in Worker : ~Owns(v, q)
        BY DEF Owns, Owning
      <3> QED
        BY <3>1 DEF Clean
    <2>2. \A q \in Finished(p) : q \in Refund \ {r} /\ claim[q].state # "none"
      BY DEF Finished
    <2> QED
      BY <2>1, <2>2
  <1>3. Remaining(r) = Positive(GrantUnits - Share(PaiseOf(Finished(p))))
    BY <1>2 DEF Remaining
  <1>4. /\ Share(PaiseOf(Finished(p))) \in Nat /\ Share(PaiseOf(Finished(p))) <= GrantUnits
        /\ GrantUnits \in Nat
    <2>1. Finished(p) \in SUBSET Refund
      BY DEF Finished
    <2>2. PaiseOf(Finished(p)) \in Nat
      BY <2>1, DueNat DEF ClaimsInv
    <2> QED
      BY <2>2, ShareIs, UnitsAssumption
  <1> QED
    BY <1>1, <1>3, <1>4 DEF Positive

\* The share an attempt works out is the one its refund adds, and a cap does not
\* lower it.
LEMMA WeighedNext ==
    ASSUME ClaimsInv, PendingOwned, NEW w \in Worker, NEW k, AttemptMoves(w, k), bill' = bill,
           \A v \in Worker : v # w => att[v].pc = "idle",
           NEW p, Clean(p), ExactFor(p), NEW r \in Refund, bill[r].payment = p,
           att'[w].refund = r, Weighed(w, r)'
    PROVE  /\ k.due = Share(PaiseOf(Finished(p)) + bill[r].paise) - Share(PaiseOf(Finished(p)))
           /\ claim[r].state # "done" /\ ~Marks(w, k)
  <1> DEFINE paid == PaiseOf(Finished(p))
             before == Share(paid)
             after == Share(paid + bill[r].paise)
  <1>1. /\ att \in [Worker -> Attempt] /\ claim \in [Refund -> Claim]
        /\ att'[w] = k /\ k.refund = r
        /\ att[w].pc # "idle" => att[w].refund \in Refund
    BY DEF ClaimsInv, TypeOK, AttemptMoves, AttemptOK
  <1>2. paid \in Nat /\ bill[r].paise \in Nat /\ paid + bill[r].paise \in Nat
    <2>1. Finished(p) \in SUBSET Refund
      BY DEF Finished
    <2>2. paid \in Nat
      BY <2>1, DueNat DEF ClaimsInv
    <2>3. bill[r].paise \in Nat
      BY PaiseAssumption DEF ClaimsInv, TypeOK
    <2> QED
      BY <2>2, <2>3
  <1>3. /\ before \in Nat /\ after \in Nat /\ GrantUnits \in Nat
        /\ before <= after /\ after <= GrantUnits
    BY <1>2, ShareIs, ShareGrows, UnitsAssumption
  <1>4. DueOf(Finished(p)) = before
    BY DEF ExactFor
  <1>5. att[w].refund = r /\ claim[r].state # "done" =>
        Prior(r) = Finished(p) /\ Remaining(r) = GrantUnits - before
    BY <1>4, FindsFinished
  <1>6. att[w].refund = r /\ Weighed(w, r) => att[w].due = after - before
    BY DEF ExactFor, AddedShare
  <1>7. k.pc \in {"remaining", "insert"} \cup Owning
    BY <1>1 DEF Weighed
  <1> SUFFICES k.due = after - before /\ claim[r].state # "done" /\ ~Marks(w, k)
    OBVIOUS
  <1> HIDE DEF paid, before, after
  <1>8. CASE Aside(w, k)
    <2>1. k.pc \in {"remaining", "insert"} /\ claim[r].state = "none"
      BY <1>1, <1>7, <1>8 DEF Aside, Weighed
    <2>2. CASE k.pc = "remaining"
      <3>1. k.refund = att[w].refund /\ k.due = RefundDueUnits(att[w].refund)
        BY <1>8, <2>2 DEF Aside, Weighs
      <3>2. RefundDueUnits(r) = Positive(after - before)
        BY <1>1, <1>4, <1>5, <2>1, <3>1 DEF RefundDueUnits, Share, paid, after
      <3> QED
        BY <1>1, <1>3, <2>1, <2>2, <3>1, <3>2 DEF Positive, Marks
    <2>3. CASE k.pc = "insert"
      <3>1. /\ att[w].pc = "remaining" /\ att[w].refund = r
            /\ k.due = Smaller(att[w].due, Remaining(r))
        BY <1>1, <1>8, <2>3 DEF Aside, Weighs
      <3>2. att[w].due = after - before /\ Remaining(r) = GrantUnits - before
        BY <1>5, <1>6, <2>1, <3>1 DEF Weighed
      <3> QED
        BY <1>3, <2>1, <3>1, <3>2 DEF Smaller, Marks
    <2> QED
      BY <2>1, <2>2, <2>3
  <1>9. CASE Inserts(w, k)
    <2>1. /\ att[w].pc = "insert" /\ att[w].refund = r /\ claim[r].state = "none"
          /\ k.due = att[w].due
      BY <1>1, <1>7, <1>9 DEF Inserts, Owning
    <2> QED
      BY <1>6, <2>1 DEF Weighed, Marks
  <1>10. CASE Compares(w, k)
    <2>1. att[w].pc = "cap" /\ att[w].refund = r
      BY <1>1, <1>10 DEF Compares
    <2>2. claim[r].state = "pending"
      BY <2>1 DEF PendingOwned, Owning
    <2>3. att[w].due = after - before /\ Remaining(r) = GrantUnits - before
      BY <1>5, <1>6, <2>1, <2>2 DEF Weighed, Owning
    <2>4. ~(Remaining(r) < att[w].due)
      BY <1>3, <2>3
    <2> QED
      BY <1>10, <2>1, <2>2, <2>3, <2>4 DEF Compares, Marks
  <1>11. CASE Lowers(w, k)
    <2>1. att[w].pc = "lower" /\ att[w].refund = r /\ k.due = att[w].due
      BY <1>1, <1>11 DEF Lowers
    <2>2. claim[r].state = "pending"
      BY <2>1 DEF PendingOwned, Owning
    <2> QED
      BY <1>6, <2>1, <2>2 DEF Weighed, Owning, Marks
  <1>12. CASE GoesOn(w, k)
    <2>1. /\ att[w].pc \in Owning /\ att[w].refund = r /\ k.due = att[w].due /\ k.pc \in Owning
          /\ claim' = claim
      BY <1>1, <1>12 DEF GoesOn, Owning
    <2>2. claim[r].state = "pending"
      BY <1>1, <2>1 DEF Weighed, Owning
    <2>3. ~Marks(w, k)
      <3>1. claim'[r].state # "done"
        BY <2>1, <2>2
      <3> QED
        BY <1>1, <2>1, <3>1 DEF Marks, Claim
    <2> QED
      BY <1>6, <2>1, <2>2, <2>3 DEF Weighed
  <1>13. CASE Releases(w, k)
    BY <1>7, <1>13 DEF Releases, Owning
  <1>14. CASE Marks(w, k)
    <2>1. k.pc = "mark" /\ att[w].refund = r
      BY <1>1, <1>7, <1>14 DEF Marks, Owning
    <2>2. claim'[r].state = "done"
      BY <1>1, <1>14, <2>1 DEF Marks, Claim
    <2> QED
      BY <1>1, <2>1, <2>2 DEF Weighed, Owning
  <1> QED
    BY <1>8, <1>9, <1>10, <1>11, <1>12, <1>13, <1>14 DEF AttemptMoves

\* A step of an attempt keeps the dues of a payment equal to its share.
LEMMA ExactMoves ==
    ASSUME ExactInv, ClaimsInv', NEW w \in Worker, NEW k, AttemptMoves(w, k), Lone(w),
           bill' = bill, ~overlap', NEW p \in Payments, Clean(p)'
    PROVE  ExactFor(p)'
  <1>1. /\ ClaimsInv /\ PendingOwned
        /\ \A v \in Worker : v # w => att[v].pc = "idle" /\ att'[v].pc = "idle"
    BY AloneStep DEF ExactInv
  <1>2. Clean(p) /\ ExactFor(p)
    <2>1. ~overlap
      BY <1>1, AloneStep DEF ExactInv
    <2> QED
      BY <1>1, <2>1, CleanBack DEF ExactInv
  <1>3. PICK r : r = att[w].refund
    OBVIOUS
  <1>4. PICK paid \in Nat : paid = PaiseOf(Finished(p))
    <2>1. Finished(p) \in SUBSET Refund
      BY DEF Finished
    <2> QED
      BY <1>1, <2>1, DueNat DEF ClaimsInv
  <1>5. DueOf(Finished(p)) = Share(paid)
    BY <1>2, <1>4 DEF ExactFor
  \* The refunds that are done stay as they are, or the attempt's joins them.
  <1>6. \/ /\ DueOf(Finished(p))' = Share(paid) /\ PaiseOf(Finished(p))' = paid
        \/ /\ Marks(w, k)
           /\ \E paise \in Nat : /\ PaiseOf(Finished(p))' = paid + paise
                                 /\ DueOf(Finished(p))' = Share(paid + paise)
    <2>1. CASE /\ DueOf(Finished(p))' = DueOf(Finished(p))
               /\ PaiseOf(Finished(p))' = PaiseOf(Finished(p))
      BY <1>4, <1>5, <2>1
    <2>2. CASE /\ Marks(w, k) /\ r \in Refund /\ bill[r].payment = p
               /\ claim[r].state = "pending"
               /\ DueOf(Finished(p))' = claim[r].due + DueOf(Finished(p))
               /\ PaiseOf(Finished(p))' = bill[r].paise + PaiseOf(Finished(p))
      <3>1. PICK paise \in Nat : paise = bill[r].paise
        BY <1>1, <2>2, PaiseAssumption DEF ClaimsInv, TypeOK
      <3>2. claim[r].due = att[w].due /\ Weighed(w, r)
        BY <1>1, <1>3, <2>2 DEF Marks, ClaimsInv, AttemptOK, Weighed, Owning
      <3>3. att[w].due = Share(paid + paise) - Share(paid)
        BY <1>2, <1>3, <1>4, <2>2, <3>1, <3>2 DEF ExactFor, AddedShare
      <3>4. Share(paid) \in Nat /\ Share(paid + paise) \in Nat
        BY ShareIs
      <3>5. /\ PaiseOf(Finished(p))' = paid + paise
            /\ DueOf(Finished(p))' = Share(paid + paise)
        BY <1>4, <1>5, <2>2, <3>1, <3>2, <3>3, <3>4
      <3> QED
        BY <2>2, <3>5
    <2> QED
      BY <1>1, <1>3, <2>1, <2>2, FinishedSums
  <1>7. DueOf(Finished(p))' = Share(PaiseOf(Finished(p)))'
    <2>1. Share(PaiseOf(Finished(p)))' = Share(PaiseOf(Finished(p))')
      BY DEF Share, Smaller
    <2> QED
      BY <1>6, <2>1
  <1>8. ASSUME NEW v \in Worker, NEW q, q = att'[v].refund, q \in Refund, bill[q].payment = p,
               Weighed(v, q)'
        PROVE  att'[v].due = Share(PaiseOf(Finished(p))' + bill[q].paise)
                             - Share(PaiseOf(Finished(p))')
    <2>1. v = w
      BY <1>1, <1>8 DEF Weighed, Owning
    <2>2. /\ k.due = Share(paid + bill[q].paise) - Share(paid)
          /\ ~Marks(w, k)
      BY <1>1, <1>2, <1>4, <1>8, <2>1, WeighedNext
    <2>3. att'[w] = k
      BY <1>1 DEF ClaimsInv, TypeOK, AttemptMoves
    <2> QED
      BY <1>6, <2>1, <2>2, <2>3
  <1>9. ASSUME NEW v \in Worker PROVE AddedShare(v, p)'
    BY <1>8 DEF AddedShare, Share, Smaller
  <1> QED
    BY <1>7, <1>9 DEF ExactFor

LEMMA ExactInit == Init => ExactInv
  <1> SUFFICES ASSUME Init PROVE ExactInv
    OBVIOUS
  <1>1. ClaimsInv
    BY InvInit DEF Inv
  <1>2. /\ \A w \in Worker : att[w].pc = "idle"
        /\ \A r \in Refund : claim[r].state = "none"
    BY IdleTyped DEF Init, NoClaim
  <1>3. ASSUME NEW p PROVE ExactFor(p)
    <2>1. Finished(p) = {}
      BY <1>2 DEF Finished
    <2>2. DueOf(Finished(p)) = 0 /\ PaiseOf(Finished(p)) = 0
      BY <2>1, TotalIs, SumOfNone DEF DueOf, PaiseOf
    <2>3. Share(0) = 0
      BY ShareIs
    <2> QED
      BY <1>2, <2>2, <2>3 DEF ExactFor, AddedShare, Weighed, Owning
  <1> QED
    BY <1>1, <1>2, <1>3 DEF ExactInv, PendingOwned, Alone, Owning

LEMMA ExactStep == ExactInv /\ [Next]_vars => ExactInv'
  <1> SUFFICES ASSUME ExactInv, [Next]_vars PROVE ExactInv'
    OBVIOUS
  <1>1. ClaimsInv /\ ClaimsInv' /\ PendingOwned'
    BY TypeStep, ClaimsStep, PendingStep DEF ExactInv, ClaimsInv
  <1>2. SUFFICES ASSUME ~overlap' PROVE Alone' /\ \A p \in Payments' : Clean(p)' => ExactFor(p)'
    BY <1>1 DEF ExactInv
  <1>3. ASSUME NEW w \in Worker, Deliver(w) \/ Step(w) \/ Throw(w) \/ Die(w)
        PROVE  Alone' /\ \A p \in Payments' : Clean(p)' => ExactFor(p)'
    <2>1. PICK k : AttemptMoves(w, k)
      BY <1>1, <1>3, AttemptStep
    <2>2. Lone(w) /\ bill' = bill
      BY <1>3, LoneStep
    <2>3. Payments' = Payments
      BY <2>2 DEF Payments
    <2>4. Alone'
      BY <1>1, <1>2, <2>1, <2>2, AloneStep DEF ExactInv
    <2> QED
      BY <1>1, <1>2, <2>1, <2>2, <2>3, <2>4, ExactMoves
  <1>4. ASSUME UNCHANGED <<att, bill, overlap>>,
               \A r \in Refund : claim'[r].state = claim[r].state /\ claim'[r].due = claim[r].due
        PROVE  Alone' /\ \A p \in Payments' : Clean(p)' => ExactFor(p)'
    <2>1. Alone /\ \A p \in Payments : Clean(p) => ExactFor(p)
      BY <1>2, <1>4 DEF ExactInv
    <2>2. Payments' = Payments /\ Alone'
      BY <1>4, <2>1 DEF Payments, Alone
    <2>3. ASSUME NEW p \in Payments, Clean(p)' PROVE ExactFor(p)'
      <3>1. Finished(p)' = Finished(p)
        BY <1>4 DEF Finished
      <3>2. Clean(p)
        BY <1>4, <2>3, <3>1 DEF Clean, Owns
      <3>3. ExactFor(p)
        BY <2>1, <3>2
      <3>4. /\ DueOf(Finished(p))' = DueOf(Finished(p))
            /\ PaiseOf(Finished(p))' = PaiseOf(Finished(p))
        <4>1. [r \in Refund |-> claim'[r].due] = [r \in Refund |-> claim[r].due]
          BY <1>4
        <4> QED
          BY <1>4, <3>1, <4>1 DEF DueOf, PaiseOf
      <3>5. PICK paid : paid = PaiseOf(Finished(p)) /\ paid = PaiseOf(Finished(p))'
        BY <3>4
      <3>6. DueOf(Finished(p))' = Share(PaiseOf(Finished(p)))'
        BY <3>3, <3>4, <3>5 DEF ExactFor, Share, Smaller
      <3>7. ASSUME NEW v \in Worker PROVE AddedShare(v, p)'
        BY <1>4, <3>3, <3>5 DEF ExactFor, AddedShare, Weighed, Share, Smaller
      <3> QED
        BY <3>6, <3>7 DEF ExactFor
    <2> QED
      BY <2>2, <2>3
  <1>5. ASSUME NEW g \in Refund, GoesStale(g)
        PROVE  Alone' /\ \A p \in Payments' : Clean(p)' => ExactFor(p)'
    BY <1>1, <1>4, <1>5 DEF GoesStale, ClaimsInv, TypeOK, Claim
  <1>6. CASE OthersMove \/ EraseUser \/ UNCHANGED vars
    BY <1>4, <1>6 DEF OthersMove, EraseUser, vars
  <1> QED
    BY <1>3, <1>5, <1>6 DEF ExactInv, Next

\* All refunds of the payment are done: their share is the grant.
LEMMA AllFinished == ExactInv => ExactInTheEnd
  <1> SUFFICES ASSUME ExactInv, NEW p \in Payments, ~overlap,
                      NEW mine, mine = {r \in Refund : bill[r].payment = p},
                      \A r \in mine : claim[r].state = "done",
                      \A r \in Refund \ mine : claim[r].state = "none",
                      PaiseOf(mine) = AmountPaise
               PROVE  DueOf(mine) = GrantUnits
    BY DEF ExactInTheEnd, Payments
  <1>1. Finished(p) = mine
    BY DEF Finished
  <1>2. Clean(p)
    BY <1>1 DEF Clean
  <1>3. DueOf(mine) = Share(AmountPaise)
    BY <1>1, <1>2 DEF ExactInv, ExactFor
  <1> QED
    BY <1>3, ShareIs, PaiseAssumption

\* Refunds of one payment that never overlapped, in parts of any size, and add up
\* to its amount are due exactly the grant: each takes the share of all refunds so
\* far, less what those before it were due, so no rounding is ever lost, and no
\* cap (capAfterClaim) lowers one of them, whatever threw, died or was retried.
THEOREM PartsAddUp == Spec => []ExactInTheEnd
  <1> QED
    BY ExactInit, ExactStep, AllFinished, PTL DEF Spec

================================================================================
