------------------------- MODULE InvoiceSeriesProofs -------------------------
(***************************************************************************)
(* Proofs about InvoiceSeries, for any payments, refunds, webhooks and     *)
(* sweeps at work and failures: credit stays within the invoice, no number *)
(* is given twice, an issued row is never written again, a credit note is  *)
(* issued after its invoice, the numbers have no gap but those lost by     *)
(* freeing a series, and the implementation keeps the abstract book.       *)
(***************************************************************************)
EXTENDS InvoiceSeries, FiniteSetTheorems, WellFoundedInduction, TLAPS

-----------------------------------------------------------------------------
(* Sums over finite sets. MapThenSumSet is a fold; the induction is a       *)
(* minimal counterexample among the subsets of a finite set.                *)

SumOver(f, S) == MapThenSumSet(LAMBDA x : f[x], S)

\* The element a fold takes first.
Taken(s) == CHOOSE x \in s : TRUE

\* g adds up f over every subset of T, in the order of the fold.
Adds(g, f, T) ==
    g = [s \in SUBSET T |-> IF s = {} THEN 0 ELSE f[Taken(s)] + g[s \ {Taken(s)}]]

-----------------------------------------------------------------------------
(* Induction on finite sets. *)

\* Of a set of subsets of a finite set, one has no smaller one in it.
LEMMA Least ==
    ASSUME NEW S, IsFiniteSet(S), NEW C \in SUBSET SUBSET S, C # {}
    PROVE  \E x \in C : \A y \in C : y \subseteq x => y = x
  <1>1. IsWellFoundedOn(StrictSubsetOrdering(S), SUBSET S)
    BY FS_StrictSubsetOrderingWellFounded, FS_FiniteSubsetsOfFinite
  <1>2. \E x \in C : \A y \in C : ~ (<<y, x>> \in StrictSubsetOrdering(S))
    BY <1>1, WFMin
  <1>3. \A x, y \in SUBSET S : y \subseteq x /\ y # x => <<y, x>> \in StrictSubsetOrdering(S)
    BY DEF StrictSubsetOrdering
  <1> QED
    BY <1>2, <1>3

LEMMA TakenIn == ASSUME NEW s, s # {} PROVE Taken(s) \in s
  BY DEF Taken

-----------------------------------------------------------------------------
(* The recursion of the fold has a solution, and only one. *)

LEMMA AddsValue ==
    ASSUME NEW g, NEW f, NEW T, Adds(g, f, T), NEW s \in SUBSET T
    PROVE  /\ s = {} => g[s] = 0
           /\ s # {} => /\ Taken(s) \in s
                        /\ g[s] = f[Taken(s)] + g[s \ {Taken(s)}]
  BY TakenIn DEF Adds

LEMMA AddsAgree ==
    ASSUME NEW S, IsFiniteSet(S), NEW f, NEW g, NEW h,
           NEW T \in SUBSET S, NEW U \in SUBSET S, Adds(g, f, T), Adds(h, f, U)
    PROVE  \A s \in SUBSET S : s \subseteq T /\ s \subseteq U => g[s] = h[s]
  <1> DEFINE Bad == {s \in SUBSET S : s \subseteq T /\ s \subseteq U /\ g[s] # h[s]}
  <1>1. SUFFICES ASSUME Bad # {} PROVE FALSE
    OBVIOUS
  <1>2. PICK b \in Bad : \A y \in Bad : y \subseteq b => y = b
    <2>1. Bad \in SUBSET SUBSET S
      OBVIOUS
    <2> HIDE DEF Bad
    <2> QED
      BY <1>1, <2>1, Least
  <1>3. b # {}
    BY <1>2, AddsValue
  <1>4. /\ Taken(b) \in b
        /\ g[b] = f[Taken(b)] + g[b \ {Taken(b)}]
        /\ h[b] = f[Taken(b)] + h[b \ {Taken(b)}]
    BY <1>2, <1>3, AddsValue
  <1>5. b \ {Taken(b)} \notin Bad
    BY <1>2, <1>4
  <1>6. g[b \ {Taken(b)}] = h[b \ {Taken(b)}]
    BY <1>2, <1>5
  <1> QED
    BY <1>2, <1>4, <1>6

LEMMA AddsExist ==
    ASSUME NEW S, IsFiniteSet(S), NEW f
    PROVE  \A T \in SUBSET S : \E g : Adds(g, f, T)
  <1> DEFINE Bad == {T \in SUBSET S : ~ \E g : Adds(g, f, T)}
  <1>1. SUFFICES ASSUME Bad # {} PROVE FALSE
    OBVIOUS
  <1>2. PICK b \in Bad : \A y \in Bad : y \subseteq b => y = b
    <2>1. Bad \in SUBSET SUBSET S
      OBVIOUS
    <2> HIDE DEF Bad
    <2> QED
      BY <1>1, <2>1, Least
  <1> DEFINE Value(s) == (CHOOSE g : Adds(g, f, s))[s]
             whole == IF b = {} THEN 0 ELSE f[Taken(b)] + Value(b \ {Taken(b)})
             sum == [s \in SUBSET b |-> IF s = b THEN whole ELSE Value(s)]
  <1>3. b \in SUBSET S
    BY <1>2
  <1>4. ASSUME NEW s \in SUBSET b, s # b
        PROVE  Adds(CHOOSE g : Adds(g, f, s), f, s)
    BY <1>2, <1>4
  <1>5. ASSUME NEW s \in SUBSET b, s # b
        PROVE  Value(s) = IF s = {} THEN 0 ELSE f[Taken(s)] + Value(s \ {Taken(s)})
    <2> DEFINE g == CHOOSE g : Adds(g, f, s)
               t == s \ {Taken(s)}
               h == CHOOSE h : Adds(h, f, t)
    <2>1. Adds(g, f, s)
      BY <1>4, <1>5
    <2>2. CASE s = {}
      BY <2>1, <2>2, AddsValue
    <2>3. CASE s # {}
      <3>1. Taken(s) \in s /\ g[s] = f[Taken(s)] + g[t]
        BY <2>1, <2>3, AddsValue
      <3>2. t \in SUBSET b /\ t # b /\ t \subseteq s
        BY <1>5, <3>1
      <3>3. Adds(h, f, t)
        BY <1>4, <3>2
      <3>4. g[t] = h[t]
        <4>1. t \in SUBSET S /\ s \in SUBSET S /\ t \subseteq s
          BY <1>3, <1>5, <3>2
        <4> HIDE DEF g, h, t
        <4> QED
          BY <2>1, <3>3, <4>1, AddsAgree
      <3> QED
        BY <2>3, <3>1, <3>4
    <2> QED
      BY <2>2, <2>3
  <1>6. ASSUME NEW s \in SUBSET b
        PROVE  sum[s] = IF s = {} THEN 0 ELSE f[Taken(s)] + sum[s \ {Taken(s)}]
    <2>1. s # {} => Taken(s) \in s /\ s \ {Taken(s)} \in SUBSET b /\ s \ {Taken(s)} # b
      BY <1>6, TakenIn
    <2>2. s # {} => sum[s \ {Taken(s)}] = Value(s \ {Taken(s)})
      <3> HIDE DEF Value, whole
      <3> QED
        BY <2>1
    <2>3. CASE s = b
      <3>1. sum[s] = whole
        BY <2>3
      <3> HIDE DEF sum, Value
      <3> QED
        BY <2>2, <2>3, <3>1
    <2>4. CASE s # b
      <3>1. sum[s] = Value(s)
        BY <2>4
      <3> HIDE DEF sum, Value
      <3> QED
        BY <1>5, <1>6, <2>2, <2>4, <3>1
    <2> QED
      BY <2>3, <2>4
  <1>7. Adds(sum, f, b)
    <2>1. sum = [s \in SUBSET b |-> sum[s]]
      OBVIOUS
    <2> HIDE DEF sum
    <2> QED
      BY <1>6, <2>1 DEF Adds
  <1> QED
    BY <1>2, <1>7

LEMMA SumAdds ==
    ASSUME NEW S, IsFiniteSet(S), NEW f
    PROVE  \E g : Adds(g, f, S) /\ SumOver(f, S) = g[S]
  <1>1. \E g : g = [s \in SUBSET S |-> IF s = {} THEN 0 ELSE f[Taken(s)] + g[s \ {Taken(s)}]]
    <2>1. S \in SUBSET S
      OBVIOUS
    <2>2. PICK g : Adds(g, f, S)
      BY <2>1, AddsExist
    <2> QED
      BY <2>2 DEF Adds
  <1>2. PICK g : /\ g = [s \in SUBSET S |-> IF s = {} THEN 0
                                            ELSE f[Taken(s)] + g[s \ {Taken(s)}]]
                 /\ SumOver(f, S) = g[S]
    BY <1>1 DEF SumOver, MapThenSumSet, MapThenFoldSet, Taken
  <1> QED
    BY <1>2 DEF Adds

LEMMA SumOfNone == ASSUME NEW f PROVE SumOver(f, {}) = 0
  <1>1. IsFiniteSet({})
    BY FS_EmptySet
  <1>2. PICK g : Adds(g, f, {}) /\ SumOver(f, {}) = g[{}]
    BY <1>1, SumAdds
  <1> QED
    BY <1>2, AddsValue

LEMMA SumTakes ==
    ASSUME NEW S, IsFiniteSet(S), S # {}, NEW f
    PROVE  /\ Taken(S) \in S
           /\ SumOver(f, S) = f[Taken(S)] + SumOver(f, S \ {Taken(S)})
  <1>1. PICK g : Adds(g, f, S) /\ SumOver(f, S) = g[S]
    BY SumAdds
  <1> DEFINE R == S \ {Taken(S)}
  <1>2. Taken(S) \in S /\ g[S] = f[Taken(S)] + g[R]
    BY <1>1, AddsValue
  <1>3. R \in SUBSET S /\ IsFiniteSet(R)
    BY FS_Subset
  <1>4. PICK h : Adds(h, f, R) /\ SumOver(f, R) = h[R]
    BY <1>3, SumAdds
  <1>5. g[R] = h[R]
    <2> HIDE DEF R
    <2> QED
      BY <1>1, <1>3, <1>4, AddsAgree
  <1> QED
    BY <1>1, <1>2, <1>4, <1>5

-----------------------------------------------------------------------------
(* What the proofs use. *)

\* A sum of natural numbers is one.
LEMMA SumNat ==
    ASSUME NEW S, IsFiniteSet(S), NEW f, \A x \in S : f[x] \in Nat
    PROVE  SumOver(f, S) \in Nat
  <1> DEFINE Bad == {T \in SUBSET S : SumOver(f, T) \notin Nat}
  <1>1. SUFFICES ASSUME Bad # {} PROVE FALSE
    OBVIOUS
  <1>2. PICK b \in Bad : \A y \in Bad : y \subseteq b => y = b
    <2>1. Bad \in SUBSET SUBSET S
      OBVIOUS
    <2> HIDE DEF Bad
    <2> QED
      BY <1>1, <2>1, Least
  <1>3. b \in SUBSET S /\ SumOver(f, b) \notin Nat /\ IsFiniteSet(b)
    BY <1>2, FS_Subset
  <1>4. b # {}
    BY <1>3, SumOfNone
  <1>5. Taken(b) \in b /\ SumOver(f, b) = f[Taken(b)] + SumOver(f, b \ {Taken(b)})
    BY <1>3, <1>4, SumTakes
  <1>6. SumOver(f, b \ {Taken(b)}) \in Nat
    BY <1>2, <1>5
  <1>7. f[Taken(b)] \in Nat
    BY <1>3, <1>5
  <1> QED
    BY <1>3, <1>5, <1>6, <1>7

\* The sum is one element's value and that of the others, whichever it is.
LEMMA SumWithout ==
    ASSUME NEW S, IsFiniteSet(S), NEW f, \A x \in S : f[x] \in Nat, NEW e \in S
    PROVE  SumOver(f, S) = f[e] + SumOver(f, S \ {e})
  <1> DEFINE Bad == {T \in SUBSET S : \E x \in T : SumOver(f, T) # f[x] + SumOver(f, T \ {x})}
  <1>1. SUFFICES ASSUME Bad # {} PROVE FALSE
    OBVIOUS
  <1>2. PICK b \in Bad : \A y \in Bad : y \subseteq b => y = b
    <2>1. Bad \in SUBSET SUBSET S
      OBVIOUS
    <2> HIDE DEF Bad
    <2> QED
      BY <1>1, <2>1, Least
  <1>3. PICK x \in b : SumOver(f, b) # f[x] + SumOver(f, b \ {x})
    BY <1>2
  <1>4. b \in SUBSET S /\ IsFiniteSet(b)
    BY <1>2, FS_Subset
  <1>5. PICK t \in b : SumOver(f, b) = f[t] + SumOver(f, b \ {t})
    BY <1>3, <1>4, SumTakes
  <1>6. x # t /\ x \in b \ {t} /\ t \in b \ {x} /\ (b \ {t}) \ {x} = (b \ {x}) \ {t}
    BY <1>3, <1>5
  <1>7. b \ {t} \notin Bad /\ b \ {x} \notin Bad
    BY <1>2, <1>6
  <1>8. /\ SumOver(f, b \ {t}) = f[x] + SumOver(f, (b \ {t}) \ {x})
        /\ SumOver(f, b \ {x}) = f[t] + SumOver(f, (b \ {x}) \ {t})
    BY <1>4, <1>6, <1>7
  <1>9. SumOver(f, (b \ {x}) \ {t}) \in Nat
    <2>1. IsFiniteSet((b \ {x}) \ {t})
      BY <1>4, FS_Subset
    <2> QED
      BY <1>4, <2>1, SumNat
  <1>10. f[x] \in Nat /\ f[t] \in Nat
    BY <1>4
  <1>11. SumOver(f, b \ {t}) = f[x] + SumOver(f, (b \ {x}) \ {t})
    BY <1>6, <1>8
  <1>12. SumOver(f, b) = f[x] + SumOver(f, b \ {x})
    BY <1>5, <1>8, <1>9, <1>10, <1>11
  <1> QED
    BY <1>3, <1>12

\* A sum grows with the set.
LEMMA SumOfMore ==
    ASSUME NEW S, IsFiniteSet(S), NEW f, \A x \in S : f[x] \in Nat, NEW R \in SUBSET S
    PROVE  SumOver(f, R) <= SumOver(f, S)
  <1> DEFINE Bad == {T \in SUBSET S : R \subseteq T /\ ~(SumOver(f, R) <= SumOver(f, T))}
  <1>1. SUFFICES ASSUME Bad # {} PROVE FALSE
    OBVIOUS
  <1>2. PICK b \in Bad : \A y \in Bad : y \subseteq b => y = b
    <2>1. Bad \in SUBSET SUBSET S
      OBVIOUS
    <2> HIDE DEF Bad
    <2> QED
      BY <1>1, <2>1, Least
  <1>3. /\ b \in SUBSET S /\ IsFiniteSet(b) /\ IsFiniteSet(R)
        /\ R \subseteq b /\ ~(SumOver(f, R) <= SumOver(f, b))
    BY <1>2, FS_Subset
  <1>4. SumOver(f, R) \in Nat /\ SumOver(f, b) \in Nat
    BY <1>3, SumNat
  <1>5. PICK t \in b : t \notin R
    BY <1>3, <1>4
  <1>6. SumOver(f, b) = f[t] + SumOver(f, b \ {t})
    BY <1>3, SumWithout
  <1>7. SumOver(f, R) <= SumOver(f, b \ {t})
    BY <1>2, <1>5
  <1>8. SumOver(f, b \ {t}) \in Nat /\ f[t] \in Nat
    <2>1. IsFiniteSet(b \ {t})
      BY <1>3, FS_Subset
    <2> QED
      BY <1>3, <2>1, SumNat
  <1> QED
    BY <1>3, <1>4, <1>6, <1>7, <1>8

-----------------------------------------------------------------------------
(* The properties of the numbers that hold however many are at work. *)

\* No two rows of a series have the same number of the same year.
NoNumberTwice ==
    \A q, r \in Row :
        /\ row[q].state = "issued" /\ row[r].state = "issued"
        /\ SeriesOf(q) = SeriesOf(r)
        /\ row[q].year = row[r].year /\ row[q].seq = row[r].seq
        => q = r

\* A credit note is issued when the invoice it credits is.
CreditFollowsInvoice ==
    \A r \in Refund : row[r].state = "issued" => row[Of[r]].state = "issued"

\* An issued row keeps its number, and a dropped one stays dropped.
FinalForGood ==
    [][\A r \in Row : row[r].state \in {"issued", "dropped"} => row'[r] = row[r]]_vars

-----------------------------------------------------------------------------
(* The inductive invariant. *)

Counting == {"count", "already", "note"}
Numbering == {"check", "allocate", "busy", "recheck"}
Finalizing == {"content", "write", "used", "free", "giveback"}

\* What the program point of an attempt says of its other locals.
LocalsOK(a) ==
    /\ a.pc # "idle" => a.row \in Row
    /\ a.pc = "record" => a.row \in Payment
    /\ a.pc \in {"original", "prior", "seed"} \cup Counting => a.row \in Refund
    /\ a.pc \in {"allocate", "busy"} => a.year \in Year
    /\ a.pc \in Finalizing => a.for \in Row /\ a.year \in Year /\ a.seq \in 1..MaxSeq

\* An attempt that seeds a cap has read all the notes there are, and one that
\* records a note has it counted.
CountsOK(a) ==
    /\ a.pc = "seed" /\ ~cap[Of[a.row]].there => a.prior = Notes(Of[a.row])
    /\ a.pc \in Counting => cap[Of[a.row]].there
    /\ a.pc = "note" => a.row \in cap[Of[a.row]].refunds

InvoiceIssued(r) == r \in Refund => row[Of[r]].state = "issued"

\* Row r may have number n of year y: its series holds it.
Holds(r, y, n) == counter[y][SeriesOf(r)] = [seq |-> n, pending |-> r]

\* While its row waits, the number an attempt writes is the one the counter holds.
NumberOK(a) ==
    /\ a.pc \in {"allocate", "busy"} => row[a.row].state # "none"
    /\ a.pc \in Numbering => InvoiceIssued(a.row)
    /\ a.pc \in Finalizing => /\ row[a.for].state # "none" /\ InvoiceIssued(a.for)
                              /\ a.helping => InvoiceIssued(a.row)
    /\ a.pc \in {"content", "write"} /\ row[a.for].state = "issuing"
       => Holds(a.for, a.year, a.seq)
    /\ a.pc \in {"used", "free", "giveback"} => row[a.for].state # "issuing"
    /\ a.pc = "giveback"
       => row[a.for] # [state |-> "issued", year |-> a.year, seq |-> a.seq]
    /\ a.pc = "free"
       => row[a.for] = [state |-> "issued", year |-> a.year, seq |-> a.seq]

\* Only a payment from before GST_EFFECTIVE_FROM is dropped, once that is known.
DropOK(a) ==
    /\ a.pc \in {"read", "drop"} => config
    /\ a.pc = "drop" => a.row \in Early

AttemptOK(a) == LocalsOK(a) /\ CountsOK(a) /\ NumberOK(a) /\ DropOK(a)

CapOK(p) ==
    /\ cap[p].there => /\ cap[p].total = AmountOf(cap[p].refunds)
                       /\ cap[p].total <= Amount(p)
                       /\ Notes(p) \subseteq cap[p].refunds
    /\ ~cap[p].there => AmountOf(Notes(p)) <= Amount(p) /\ cap[p].refunds = {}

\* A number a counter holds is held for a recorded row of its series.
CounterOK(y, s) ==
    LET r == counter[y][s].pending IN
    r # NoRow => /\ counter[y][s].seq # 0
                 /\ SeriesOf(r) = s /\ row[r].state # "none" /\ InvoiceIssued(r)

\* An issued row has one of the numbers given, and the one held only if it is
\* held for this row.
RowOK(r) ==
    /\ row[r].state = "issued" =>
           /\ InvoiceIssued(r)
           /\ row[r].year \in Year
           /\ LET c == counter[row[r].year][SeriesOf(r)] IN
              /\ row[r].seq \in 1..c.seq
              /\ c.pending # NoRow /\ c.seq = row[r].seq => c.pending = r
    /\ row[r].state = "dropped" => config /\ r \in Early

World ==
    /\ facts \in Starts
    /\ row \in [Row -> Document]
    /\ counter \in [Year -> [Series -> Counter]]
    /\ cap \in [Payment -> Cap]

LostTyped == lost \subseteq [year : Year, series : Series, seq : 1..MaxSeq]

Rest ==
    /\ awaited \subseteq Row /\ year \in Year /\ config \in BOOLEAN
    /\ mishaps \in 0..facts.mishaps
    /\ LostTyped

Books ==
    /\ \A p \in Payment : CapOK(p)
    /\ \A y \in Year, s \in Series : CounterOK(y, s)
    /\ \A r \in Row : RowOK(r)
    /\ NoNumberTwice

Attempts == work \in [Worker -> Attempt] /\ \A w \in Worker : AttemptOK(work[w])

IInv == World /\ Rest /\ Books /\ Attempts

-----------------------------------------------------------------------------
(* Sums of amounts. *)

LEMMA TotalIs == \A f, S : Total(f, S) = SumOver(f, S)
  BY DEF Total, SumOver

LEMMA AmountSum == \A S : AmountOf(S) = SumOver(facts.amount, S)
  BY TotalIs DEF AmountOf

LEMMA AmountsAre ==
    ASSUME facts \in Starts
    PROVE  \A r \in Row : facts.amount[r] \in Nat
  BY StartsAssumption

LEMMA PartIsLess ==
    ASSUME facts \in Starts, NEW S \in SUBSET Refund, NEW T \in SUBSET S
    PROVE  AmountOf(T) \in Nat /\ AmountOf(S) \in Nat /\ AmountOf(T) <= AmountOf(S)
  <1> DEFINE f == facts.amount
  <1>1. IsFiniteSet(S) /\ IsFiniteSet(T)
    BY OfAssumption, FS_Subset
  <1>2. \A x \in S : f[x] \in Nat
    BY AmountsAre DEF Row
  <1> HIDE DEF f
  <1>3. SumOver(f, S) \in Nat /\ SumOver(f, T) \in Nat /\ SumOver(f, T) <= SumOver(f, S)
    BY <1>1, <1>2, SumNat, SumOfMore
  <1> QED
    BY <1>3, AmountSum DEF f

LEMMA OneMore ==
    ASSUME facts \in Starts, NEW S \in SUBSET Refund, NEW r \in Refund \ S
    PROVE  AmountOf(S \cup {r}) = AmountOf(S) + Amount(r)
  <1> DEFINE f == facts.amount
             T == S \cup {r}
  <1>1. IsFiniteSet(T)
    BY OfAssumption, FS_Subset
  <1>2. \A x \in T : f[x] \in Nat
    BY AmountsAre DEF Row
  <1>3. T \ {r} = S /\ r \in T
    OBVIOUS
  <1> HIDE DEF f, T
  <1>4. SumOver(f, T) = f[r] + SumOver(f, T \ {r})
    BY <1>1, <1>2, <1>3, SumWithout
  <1>5. SumOver(f, T \ {r}) \in Nat
    <2>1. IsFiniteSet(S)
      BY OfAssumption, FS_Subset
    <2>2. \A x \in S : f[x] \in Nat
      BY <1>2 DEF T
    <2> QED
      BY <2>1, <2>2, <1>3, SumNat
  <1>6. f[r] \in Nat
    BY <1>2, <1>3
  <1>7. SumOver(f, T) = SumOver(f, S) + f[r]
    <2>1. SumOver(f, T \ {r}) = SumOver(f, S)
      BY <1>3, Zenon
    <2> QED
      BY <1>4, <1>5, <1>6, <2>1
  <1> QED
    BY <1>7, AmountSum DEF f, T, Amount

LEMMA CreditInside == ASSUME IInv PROVE CreditOK
  <1>1. TypeOK
    BY DEF IInv, World, Rest, LostTyped, Attempts, TypeOK
  <1>2. CountedOnce
    BY DEF IInv, Books, CapOK, CountedOnce
  <1>3. ASSUME NEW p \in Payment
        PROVE  AmountOf(Notes(p)) <= Amount(p)
    <2>1. CASE ~cap[p].there
      BY <2>1, <1>3 DEF IInv, Books, CapOK
    <2>2. CASE cap[p].there
      <3>1. cap[p].refunds \in SUBSET Refund /\ Notes(p) \in SUBSET cap[p].refunds
        BY <2>2, <1>3 DEF IInv, World, Books, CapOK, Cap
      <3>2. AmountOf(Notes(p)) \in Nat /\ AmountOf(cap[p].refunds) \in Nat
            /\ AmountOf(Notes(p)) <= AmountOf(cap[p].refunds)
        BY <3>1, PartIsLess DEF IInv, World
      <3>3. AmountOf(cap[p].refunds) <= Amount(p)
        BY <2>2, <1>3 DEF IInv, Books, CapOK
      <3>4. Amount(p) \in Nat
        BY AmountsAre, <1>3 DEF IInv, World, Row, Amount
      <3> QED
        BY <3>2, <3>3, <3>4
    <2> QED
      BY <2>1, <2>2
  <1> QED
    BY <1>1, <1>2, <1>3 DEF CreditOK, CreditWithinInvoice

-----------------------------------------------------------------------------
(* First states. *)

LEMMA IdleOK == Idle \in Attempt /\ Idle.pc = "idle" /\ AttemptOK(Idle)
  BY BoundAssumption DEF Idle, Attempt, AttemptOK, LocalsOK, CountsOK, NumberOK, DropOK,
     Counting, Numbering, Finalizing

LEMMA FirstNotes ==
    ASSUME Init, NEW p \in Payment
    PROVE  AmountOf(Notes(p)) <= Amount(p)
  <1> DEFINE old == {r \in facts.legacy : Of[r] = p}
  <1>1. facts \in Starts /\ facts.legacy \subseteq Refund
    BY StartsAssumption DEF Init
  <1>2. \A r \in Refund : row[r].state # "none" <=> r \in facts.legacy
    BY <1>1, OfAssumption, RowAssumption DEF Init, Row, Recorded, NoDocument
  <1>3. Notes(p) = old
    BY <1>1, <1>2 DEF Notes
  <1>4. SumOver(facts.amount, old) <= facts.amount[p]
    BY <1>1, LegacyAssumption, TotalIs
  <1> QED
    BY <1>3, <1>4, AmountSum DEF Amount

LEMMA InitInv == Init => IInv
  <1> SUFFICES ASSUME Init PROVE IInv
    OBVIOUS
  <1>1. World
    <2>1. NoDocument \in Document /\ Recorded \in Document
      BY BoundAssumption DEF NoDocument, Recorded, Document
    <2>2. row \in [Row -> Document]
      BY <2>1 DEF Init
    <2>3. counter \in [Year -> [Series -> Counter]]
      BY BoundAssumption DEF Init, Counter
    <2>4. cap \in [Payment -> Cap]
      BY DEF Init, Cap
    <2> QED
      BY <2>2, <2>3, <2>4 DEF World, Init
  <1>2. Rest
    BY BoundAssumption, StartsAssumption DEF Rest, LostTyped, Init, Year
  <1>3. Books
    <2>1. ASSUME NEW p \in Payment PROVE CapOK(p)
      BY FirstNotes DEF CapOK, Init
    <2>2. ASSUME NEW y \in Year, NEW s \in Series PROVE CounterOK(y, s)
      BY DEF CounterOK, Init
    <2>3. \A r \in Row : row[r].state \notin {"issued", "dropped"}
      BY DEF Init, Recorded, NoDocument
    <2> QED
      BY <2>1, <2>2, <2>3 DEF Books, RowOK, NoNumberTwice
  <1>4. Attempts
    BY IdleOK DEF Init, Attempts
  <1> QED
    BY <1>1, <1>2, <1>3, <1>4 DEF IInv

-----------------------------------------------------------------------------
(* How a step moves its attempt. *)

Pc == {"idle", "record", "original", "prior", "seed", "count", "already", "note",
       "held", "read", "drop", "check", "allocate", "busy", "recheck",
       "content", "write", "used", "free", "giveback"}

\* In the state of the books there is, the attempt is where it may be.
Goes(w) == \E q \in Attempt : AttemptOK(q) /\ work' = [work EXCEPT ![w] = q]

\* The same, in the books of the next state.
Arrives(w) == \E q \in Attempt : AttemptOK(q)' /\ work' = [work EXCEPT ![w] = q]

LEMMA AttemptIs ==
    ASSUME IInv, NEW w \in Worker
    PROVE  work[w] \in Attempt /\ AttemptOK(work[w])
  BY DEF IInv, Attempts

\* An attempt that goes on to another program point changes nothing else.
LEMMA OtherPc ==
    ASSUME NEW a \in Attempt, NEW pc \in Pc, NEW q, q = [a EXCEPT !.pc = pc]
    PROVE  /\ q \in Attempt /\ q.pc = pc
           /\ q.row = a.row /\ q.prior = a.prior /\ q.year = a.year /\ q.seq = a.seq
           /\ q.for = a.for /\ q.helping = a.helping
  BY DEF Attempt, Pc

LEMMA AllAttempts ==
    ASSUME IInv, NEW w \in Worker, Arrives(w),
           \A a \in Attempt : AttemptOK(a) => AttemptOK(a)'
    PROVE  Attempts'
  <1>1. PICK q \in Attempt : AttemptOK(q)' /\ work' = [work EXCEPT ![w] = q]
    BY DEF Arrives
  <1>2. ASSUME NEW v \in Worker PROVE AttemptOK(work[v])'
    <2>1. CASE v = w
      <3>1. work'[v] = q
        BY <1>1, <2>1 DEF IInv, Attempts
      <3> QED
        BY <1>1, <3>1 DEF AttemptOK, LocalsOK, CountsOK, NumberOK, DropOK
    <2>2. CASE v # w
      <3>1. PICK a \in Attempt : a = work[v] /\ AttemptOK(a)
        BY DEF IInv, Attempts
      <3>2. work'[v] = a
        BY <1>1, <2>2, <3>1 DEF IInv, Attempts
      <3> QED
        BY <3>1, <3>2 DEF AttemptOK, LocalsOK, CountsOK, NumberOK, DropOK
    <2> QED
      BY <2>1, <2>2
  <1>3. work' \in [Worker -> Attempt]
    BY <1>1 DEF IInv, Attempts
  <1> QED
    BY <1>2, <1>3 DEF Attempts

\* A step that writes none of the books.
LEMMA BooksSame ==
    ASSUME IInv, UNCHANGED <<facts, row, counter, cap>>, config => config'
    PROVE  /\ World' /\ Books'
           /\ \A a \in Attempt : AttemptOK(a) => AttemptOK(a)'
  <1>1. World'
    BY DEF IInv, World
  <1>2. Books'
    <2>2. \A S : AmountOf(S)' = AmountOf(S)
      BY DEF AmountOf
    <2>3. ASSUME NEW p \in Payment PROVE CapOK(p)'
      BY <2>2 DEF IInv, Books, CapOK, Notes, Amount
    <2>4. ASSUME NEW y \in Year, NEW s \in Series PROVE CounterOK(y, s)'
      BY DEF IInv, Books, CounterOK, InvoiceIssued
    <2>5. ASSUME NEW r \in Row PROVE RowOK(r)'
      BY DEF IInv, Books, RowOK, InvoiceIssued, Early
    <2>6. NoNumberTwice'
      BY DEF IInv, Books, NoNumberTwice
    <2> QED
      BY <2>3, <2>4, <2>5, <2>6 DEF Books
  <1>3. ASSUME NEW a \in Attempt, AttemptOK(a) PROVE AttemptOK(a)'
    BY <1>3 DEF AttemptOK, LocalsOK, CountsOK, NumberOK, DropOK, Early, Notes, Holds, InvoiceIssued
  <1> QED
    BY <1>1, <1>2, <1>3

LEMMA DoneGoes ==
    ASSUME NEW w \in Worker, Done(w) \/ Become(w, Idle)
    PROVE  Goes(w)
  BY IdleOK DEF Done, Become, Goes

-----------------------------------------------------------------------------
(* The steps that only read. *)

LEMMA FindOriginalGoes ==
    ASSUME IInv, NEW w \in Worker, FindOriginal(w)
    PROVE  Goes(w)
  <1>1. CASE Done(w)
    BY <1>1, DoneGoes
  <1>2. ASSUME NEW pc \in {"held", "prior"}, GoOn(w, pc)
        PROVE  Goes(w)
    <2>1. PICK a \in Attempt : a = work[w] /\ AttemptOK(a)
      BY AttemptIs
    <2>2. PICK q : q = [a EXCEPT !.pc = pc]
      OBVIOUS
    <2>3. /\ q \in Attempt /\ q.pc = pc
          /\ q.row = a.row /\ q.prior = a.prior /\ q.year = a.year /\ q.seq = a.seq
          /\ q.for = a.for /\ q.helping = a.helping
      BY <1>2, <2>2, OtherPc DEF Pc
    <2>4. AttemptOK(q)
      BY <1>2, <2>1, <2>3 DEF FindOriginal, At, MyRow, Done, GoOn, Become, Reads, IInv,
         AttemptOK, LocalsOK, CountsOK, NumberOK, DropOK, Counting, Numbering, Finalizing
    <2>5. work' = [work EXCEPT ![w] = q]
      BY <1>2, <2>1, <2>2 DEF GoOn, Become
    <2> QED
      BY <2>3, <2>4, <2>5 DEF Goes
  <1> QED
    BY <1>1, <1>2 DEF FindOriginal

LEMMA AlreadyCountedGoes ==
    ASSUME IInv, NEW w \in Worker, AlreadyCounted(w)
    PROVE  Goes(w)
  <1>1. CASE Done(w)
    BY <1>1, DoneGoes
  <1>2. ASSUME NEW pc \in {"note"}, GoOn(w, pc),
               Counted(work[w].row)
        PROVE  Goes(w)
    <2>1. PICK a \in Attempt : a = work[w] /\ AttemptOK(a)
      BY AttemptIs
    <2>2. PICK q : q = [a EXCEPT !.pc = pc]
      OBVIOUS
    <2>3. /\ q \in Attempt /\ q.pc = pc
          /\ q.row = a.row /\ q.prior = a.prior /\ q.year = a.year /\ q.seq = a.seq
          /\ q.for = a.for /\ q.helping = a.helping
      BY <1>2, <2>2, OtherPc DEF Pc
    <2>4. AttemptOK(q)
      BY <1>2, <2>1, <2>3 DEF AlreadyCounted, At, MyRow, Done, GoOn, Become, Reads, IInv,
         AttemptOK, LocalsOK, CountsOK, NumberOK, DropOK, Counting, Numbering, Finalizing, Counted
    <2>5. work' = [work EXCEPT ![w] = q]
      BY <1>2, <2>1, <2>2 DEF GoOn, Become
    <2> QED
      BY <2>3, <2>4, <2>5 DEF Goes
  <1> QED
    BY <1>1, <1>2 DEF AlreadyCounted, MyRow

LEMMA ReadRowGoes ==
    ASSUME IInv, NEW w \in Worker, ReadRow(w)
    PROVE  Goes(w)
  <1>1. CASE Done(w)
    BY <1>1, DoneGoes
  <1>2. ASSUME NEW pc \in {"drop", "check"}, GoOn(w, pc),
               /\ pc = "check" => ~Waiting(work[w].row)
               /\ pc = "drop" => work[w].row \in Early
        PROVE  Goes(w)
    <2>1. PICK a \in Attempt : a = work[w] /\ AttemptOK(a)
      BY AttemptIs
    <2>2. PICK q : q = [a EXCEPT !.pc = pc]
      OBVIOUS
    <2>3. /\ q \in Attempt /\ q.pc = pc
          /\ q.row = a.row /\ q.prior = a.prior /\ q.year = a.year /\ q.seq = a.seq
          /\ q.for = a.for /\ q.helping = a.helping
      BY <1>2, <2>2, OtherPc DEF Pc
    <2>4. AttemptOK(q)
      BY <1>2, <2>1, <2>3 DEF ReadRow, At, MyRow, Done, GoOn, Become, Reads, IInv,
         AttemptOK, LocalsOK, CountsOK, NumberOK, DropOK, Counting, Numbering, Finalizing, Waiting, InvoiceIssued
    <2>5. work' = [work EXCEPT ![w] = q]
      BY <1>2, <2>1, <2>2 DEF GoOn, Become
    <2> QED
      BY <2>3, <2>4, <2>5 DEF Goes
  <1> QED
    BY <1>1, <1>2 DEF ReadRow, MyRow

LEMMA ReadContentGoes ==
    ASSUME IInv, NEW w \in Worker, ReadContent(w)
    PROVE  Goes(w)
  <1>1. CASE Done(w)
    BY <1>1, DoneGoes
  <1>2. ASSUME NEW pc \in {"write", "used"}, GoOn(w, pc),
               pc = "used" => row[work[w].for].state # "issuing"
        PROVE  Goes(w)
    <2>1. PICK a \in Attempt : a = work[w] /\ AttemptOK(a)
      BY AttemptIs
    <2>2. PICK q : q = [a EXCEPT !.pc = pc]
      OBVIOUS
    <2>3. /\ q \in Attempt /\ q.pc = pc
          /\ q.row = a.row /\ q.prior = a.prior /\ q.year = a.year /\ q.seq = a.seq
          /\ q.for = a.for /\ q.helping = a.helping
      BY <1>2, <2>2, OtherPc DEF Pc
    <2>4. AttemptOK(q)
      BY <1>2, <2>1, <2>3 DEF ReadContent, At, MyRow, Done, GoOn, Become, Reads, IInv,
         AttemptOK, LocalsOK, CountsOK, NumberOK, DropOK, Counting, Numbering, Finalizing
    <2>5. work' = [work EXCEPT ![w] = q]
      BY <1>2, <2>1, <2>2 DEF GoOn, Become
    <2> QED
      BY <2>3, <2>4, <2>5 DEF Goes
  <1> QED
    BY <1>1, <1>2 DEF ReadContent

LEMMA UsedGoes ==
    ASSUME IInv, NEW w \in Worker, Used(w)
    PROVE  Goes(w)
  <1>1. CASE Done(w)
    BY <1>1, DoneGoes
  <1>2. ASSUME NEW pc \in {"free", "giveback"}, GoOn(w, pc),
               pc = "giveback" => row[work[w].for] # MyNumber(w),
               pc = "free" => row[work[w].for] = MyNumber(w)
        PROVE  Goes(w)
    <2>1. PICK a \in Attempt : a = work[w] /\ AttemptOK(a)
      BY AttemptIs
    <2>2. PICK q : q = [a EXCEPT !.pc = pc]
      OBVIOUS
    <2>3. /\ q \in Attempt /\ q.pc = pc
          /\ q.row = a.row /\ q.prior = a.prior /\ q.year = a.year /\ q.seq = a.seq
          /\ q.for = a.for /\ q.helping = a.helping
      BY <1>2, <2>2, OtherPc DEF Pc
    <2>4. AttemptOK(q)
      BY <1>2, <2>1, <2>3 DEF Used, At, MyRow, Done, GoOn, Become, Reads, IInv,
         AttemptOK, LocalsOK, CountsOK, NumberOK, DropOK, Counting, Numbering, Finalizing, MyNumber
    <2>5. work' = [work EXCEPT ![w] = q]
      BY <1>2, <2>1, <2>2 DEF GoOn, Become
    <2> QED
      BY <2>3, <2>4, <2>5 DEF Goes
  <1> QED
    BY <1>1, <1>2 DEF Used

LEMMA ReadPriorGoes ==
    ASSUME IInv, NEW w \in Worker, ReadPrior(w)
    PROVE  Goes(w)
  <1>1. PICK a \in Attempt : a = work[w] /\ AttemptOK(a)
    BY AttemptIs
  <1>2. PICK q : q = [a EXCEPT !.pc = "seed", !.prior = Notes(Of[a.row])]
    OBVIOUS
  <1>3. q \in Attempt /\ q.pc = "seed" /\ q.row = a.row /\ q.prior = Notes(Of[a.row])
    <2>1. Notes(Of[a.row]) \in SUBSET Refund
      BY DEF Notes
    <2> QED
      BY <1>2, <2>1 DEF Attempt
  <1>4. AttemptOK(q)
    BY <1>1, <1>3 DEF ReadPrior, At, AttemptOK, LocalsOK, CountsOK, NumberOK, DropOK, Counting, Numbering, Finalizing
  <1>5. work' = [work EXCEPT ![w] = q]
    BY <1>1, <1>2 DEF ReadPrior, Become, MyRow
  <1> QED
    BY <1>3, <1>4, <1>5 DEF Goes

LEMMA CheckGoes ==
    ASSUME IInv, NEW w \in Worker, Check(w)
    PROVE  Goes(w)
  <1>1. CASE Done(w)
    BY <1>1, DoneGoes
  <1>2. CASE ~Done(w)
    <2>1. PICK a \in Attempt : a = work[w] /\ AttemptOK(a)
      BY AttemptIs
    <2>2. PICK q : q = [a EXCEPT !.pc = "allocate", !.year = year]
      OBVIOUS
    <2>3. q \in Attempt /\ q.pc = "allocate" /\ q.row = a.row /\ q.year \in Year
      <3>1. year \in Year /\ year \in 0..MaxYear
        BY BoundAssumption DEF IInv, Rest, Year
      <3> QED
        BY <2>2, <3>1 DEF Attempt
    <2>4. AttemptOK(q)
      BY <1>2, <2>1, <2>3 DEF Check, At, MyRow, AttemptOK, LocalsOK, CountsOK, NumberOK, DropOK, Counting, Numbering, Finalizing
    <2>5. work' = [work EXCEPT ![w] = q]
      BY <1>2, <2>1, <2>2 DEF Check, Become
    <2> QED
      BY <2>3, <2>4, <2>5 DEF Goes
  <1> QED
    BY <1>1, <1>2

LEMMA RecheckGoes ==
    ASSUME IInv, NEW w \in Worker, Recheck(w)
    PROVE  Goes(w)
  <1>1. CASE Done(w)
    BY <1>1, DoneGoes
  <1>2. CASE ~Done(w)
    <2>1. PICK a \in Attempt : a = work[w] /\ AttemptOK(a)
      BY AttemptIs
    <2>2. PICK q : q = [a EXCEPT !.pc = "check", !.tries = a.tries + 1]
      OBVIOUS
    <2>3. q \in Attempt /\ q.pc = "check" /\ q.row = a.row
      <3>1. a.tries + 1 \in Nat
        BY DEF Attempt
      <3> QED
        BY <2>2, <3>1 DEF Attempt
    <2>4. AttemptOK(q)
      BY <1>2, <2>1, <2>3 DEF Recheck, At, MyRow, AttemptOK, LocalsOK, CountsOK, NumberOK, DropOK, Counting, Numbering, Finalizing
    <2>5. work' = [work EXCEPT ![w] = q]
      BY <1>2, <2>1, <2>2 DEF Recheck, Become
    <2> QED
      BY <2>3, <2>4, <2>5 DEF Goes
  <1> QED
    BY <1>1, <1>2

\* An attempt that takes over the number a counter holds.
LEMMA FinishingGoes ==
    ASSUME IInv, NEW w \in Worker, NEW y \in Year, NEW s \in Series, NEW helping \in BOOLEAN,
           work[w].pc # "idle", helping => InvoiceIssued(work[w].row),
           counter[y][s].pending # NoRow, Become(w, Finishing(w, y, s, helping))
    PROVE  Goes(w)
  <1>1. PICK a \in Attempt : a = work[w] /\ AttemptOK(a)
    BY AttemptIs
  <1>2. PICK c \in Counter : c = counter[y][s]
    BY DEF IInv, World
  <1>3. PICK q : q = [a EXCEPT !.pc = "content", !.year = y, !.seq = c.seq,
                               !.for = c.pending, !.helping = helping]
    OBVIOUS
  <1>4. /\ q \in Attempt /\ q.pc = "content" /\ q.row = a.row /\ q.year = y
        /\ q.seq = c.seq /\ q.for = c.pending /\ q.helping = helping
    <2>1. y \in 0..MaxYear
      BY BoundAssumption DEF Year
    <2> QED
      BY <1>3, <2>1 DEF Attempt, Counter
  <1>5. /\ c.pending \in Row /\ c.seq \in 1..MaxSeq
        /\ SeriesOf(c.pending) = s /\ row[c.pending].state # "none"
        /\ InvoiceIssued(c.pending)
    BY <1>2, BoundAssumption DEF IInv, Books, CounterOK, Counter
  <1>6. Holds(q.for, q.year, q.seq)
    <2>1. c = [seq |-> c.seq, pending |-> c.pending]
      BY DEF Counter
    <2> QED
      BY <1>2, <1>4, <1>5, <2>1 DEF Holds
  <1>7. AttemptOK(q)
    BY <1>1, <1>4, <1>5, <1>6 DEF AttemptOK, LocalsOK, CountsOK, NumberOK, DropOK, Counting, Numbering, Finalizing
  <1>8. work' = [work EXCEPT ![w] = q]
    BY <1>1, <1>2, <1>3 DEF Become, Finishing
  <1> QED
    BY <1>4, <1>7, <1>8 DEF Goes

LEMMA SeriesOfRow == \A r \in Row : SeriesOf(r) \in Series
  BY DEF SeriesOf, Series

LEMMA FindHeldGoes ==
    ASSUME IInv, NEW w \in Worker, FindHeld(w)
    PROVE  Goes(w)
  <1>1. CASE Done(w)
    BY <1>1, DoneGoes
  <1>2. CASE config /\ GoOn(w, "read")
    <2>1. PICK a \in Attempt : a = work[w] /\ AttemptOK(a)
      BY AttemptIs
    <2>2. PICK q : q = [a EXCEPT !.pc = "read"]
      OBVIOUS
    <2>3. q \in Attempt /\ q.pc = "read" /\ q.row = a.row
      BY <2>2, OtherPc DEF Pc
    <2>4. AttemptOK(q)
      BY <1>2, <2>1, <2>3 DEF FindHeld, At, AttemptOK, LocalsOK, CountsOK, NumberOK, DropOK, Counting, Numbering, Finalizing
    <2> QED
      BY <1>2, <2>1, <2>2, <2>3, <2>4 DEF Goes, GoOn, Become
  <1>3. ASSUME NEW y \in HeldIn(work[w].row),
               Become(w, Finishing(w, y, SeriesOf(work[w].row), FALSE))
        PROVE  Goes(w)
    <2>1. PICK r \in Row : r = work[w].row /\ work[w].pc # "idle"
      BY AttemptIs DEF FindHeld, At, AttemptOK, LocalsOK
    <2>2. y \in Year /\ counter[y][SeriesOf(r)].pending # NoRow
      BY <1>3, <2>1, RowAssumption DEF HeldIn
    <2>3. SeriesOf(r) \in Series
      BY SeriesOfRow
    <2> QED
      BY <1>3, <2>1, <2>2, <2>3, FinishingGoes
  <1> QED
    BY <1>1, <1>2, <1>3 DEF FindHeld, MyRow

LEMMA BusyGoes ==
    ASSUME IInv, NEW w \in Worker, Busy(w)
    PROVE  Goes(w)
  <1>1. CASE Done(w)
    BY <1>1, DoneGoes
  <1>2. CASE GoOn(w, "recheck")
    <2>1. PICK a \in Attempt : a = work[w] /\ AttemptOK(a)
      BY AttemptIs
    <2>2. PICK q : q = [a EXCEPT !.pc = "recheck"]
      OBVIOUS
    <2>3. q \in Attempt /\ q.pc = "recheck" /\ q.row = a.row
      BY <2>2, OtherPc DEF Pc
    <2>4. AttemptOK(q)
      BY <2>1, <2>3 DEF Busy, At, AttemptOK, LocalsOK, CountsOK, NumberOK, DropOK, Counting, Numbering, Finalizing
    <2> QED
      BY <1>2, <2>1, <2>2, <2>3, <2>4 DEF Goes, GoOn, Become
  <1>3. PICK y, r : y = work[w].year /\ r = work[w].row
    OBVIOUS
  <1>4. y \in Year /\ r \in Row /\ work[w].pc = "busy" /\ InvoiceIssued(r)
    BY <1>3, AttemptIs DEF Busy, At, AttemptOK, LocalsOK, CountsOK, NumberOK, DropOK, Counting, Numbering, Finalizing
  <1>5. CASE /\ counter[y][SeriesOf(r)].pending # NoRow
             /\ Become(w, Finishing(w, y, SeriesOf(r), TRUE))
    <2>1. SeriesOf(r) \in Series
      BY <1>4, SeriesOfRow
    <2> QED
      BY <1>3, <1>4, <1>5, <2>1, FinishingGoes
  <1> QED
    BY <1>1, <1>2, <1>3, <1>5 DEF Busy, MyRow

\* A webhook comes in, or the sweep takes a row.
LEMMA StartGoes ==
    ASSUME NEW w \in Worker, NEW q \in Attempt, q.pc \in {"record", "original", "held"},
           q.row \in Row, q.pc = "record" => q.row \in Payment,
           q.pc = "original" => q.row \in Refund, work' = [work EXCEPT ![w] = q]
    PROVE  Goes(w)
  <1>1. AttemptOK(q)
    BY DEF AttemptOK, LocalsOK, CountsOK, NumberOK, DropOK, Counting, Numbering, Finalizing
  <1> QED
    BY <1>1 DEF Goes

-----------------------------------------------------------------------------
(* The steps that write a row. *)

\* What the rest of the proof needs of the books and of the other attempts.
Keeps == World' /\ Books' /\ \A a \in Attempt : AttemptOK(a) => AttemptOK(a)'

LEMMA NotesSame ==
    ASSUME NEW r, row \in [Row -> Document], NEW d, r \in Row,
           row' = [row EXCEPT ![r] = d], row[r].state # "none", d.state # "none"
    PROVE  \A p : Notes(p)' = Notes(p)
  BY DEF Notes, Row

LEMMA AmountsSame ==
    ASSUME UNCHANGED facts
    PROVE  (\A S : AmountOf(S)' = AmountOf(S)) /\ (\A r : Amount(r)' = Amount(r))
  BY DEF AmountOf, Amount

\* A payment, or a counted refund, is recorded.
LEMMA RecordKeeps ==
    ASSUME IInv, NEW r \in Row, row[r].state = "none", row' = [row EXCEPT ![r] = Recorded],
           UNCHANGED <<facts, counter, cap, config>>,
           r \in Refund => cap[Of[r]].there /\ r \in cap[Of[r]].refunds
    PROVE  Keeps
  <1>1. /\ Recorded \in Document /\ Recorded.state = "issuing"
        /\ row \in [Row -> Document]
    BY BoundAssumption DEF Recorded, NoDocument, Document, IInv, World
  <1>2. World'
    BY <1>1 DEF IInv, World
  <1>3. /\ row'[r].state = "issuing"
        /\ \A q \in Row : q # r => row'[q] = row[q]
    BY <1>1
  <1>4. \A q \in Row : InvoiceIssued(q) => InvoiceIssued(q)'
    BY <1>3, OfAssumption DEF InvoiceIssued, Row
  <1>5. \A p \in Payment : ~cap[p].there => Notes(p)' = Notes(p)
    BY <1>3 DEF Notes, Row
  <1>6. Books'
    <2>1. ASSUME NEW p \in Payment PROVE CapOK(p)'
      <3>1. Notes(p)' \subseteq Notes(p) \cup {r} /\ (r \in Notes(p)' => r \in Refund /\ Of[r] = p)
        BY <1>3 DEF Notes, Row
      <3> QED
        BY <1>5, <3>1, AmountsSame DEF IInv, Books, CapOK
    <2>2. ASSUME NEW y \in Year, NEW s \in Series PROVE CounterOK(y, s)'
      <3>1. CounterOK(y, s) /\ counter[y][s] \in Counter
        BY DEF IInv, World, Books
      <3> QED
        BY <1>3, <1>4, <3>1 DEF CounterOK, Counter
    <2>3. ASSUME NEW q \in Row PROVE RowOK(q)'
      <3>1. RowOK(q)
        BY DEF IInv, Books
      <3> QED
        BY <1>3, <1>4, <3>1 DEF RowOK, Early
    <2>4. NoNumberTwice'
      BY <1>3 DEF IInv, Books, NoNumberTwice
    <2> QED
      BY <2>1, <2>2, <2>3, <2>4 DEF Books
  <1>7. ASSUME NEW a \in Attempt, AttemptOK(a) PROVE AttemptOK(a)'
    <2>1. LocalsOK(a)' /\ DropOK(a)'
      BY <1>7 DEF AttemptOK, LocalsOK, DropOK, Early
    <2>2. CountsOK(a)'
      <3>1. a.pc \in {"seed"} \cup Counting => Of[a.row] \in Payment
        BY <1>7, OfAssumption DEF AttemptOK, LocalsOK
      <3> QED
        BY <1>5, <1>7, <3>1 DEF AttemptOK, CountsOK
    <2>3. NumberOK(a)'
      <3>1. /\ a.pc \in Finalizing => a.for \in Row
            /\ a.pc # "idle" => a.row \in Row
        BY <1>7 DEF AttemptOK, LocalsOK
      <3>2. NumberOK(a)
        BY <1>7 DEF AttemptOK
      <3> QED
        BY <1>3, <1>4, <3>1, <3>2 DEF NumberOK, Holds, Numbering, Finalizing
    <2> QED
      BY <2>1, <2>2, <2>3 DEF AttemptOK
  <1> QED
    BY <1>2, <1>6, <1>7 DEF Keeps

\* An issuing payment turns out to be too early for an invoice.
LEMMA DropKeeps ==
    ASSUME IInv, NEW r \in Row, row[r].state = "issuing", config, r \in Early,
           row' = [row EXCEPT ![r].state = "dropped"],
           UNCHANGED <<facts, counter, cap, config>>
    PROVE  Keeps
  <1>1. PICK d : d = [row[r] EXCEPT !.state = "dropped"]
    OBVIOUS
  <1>2. row \in [Row -> Document] /\ d \in Document /\ d.state = "dropped"
    BY <1>1 DEF Document, IInv, World
  <1>3. row' = [row EXCEPT ![r] = d]
    BY <1>1
  <1>4. World'
    BY <1>2, <1>3 DEF IInv, World
  <1>5. /\ row'[r].state = "dropped"
        /\ \A q \in Row : q # r => row'[q] = row[q]
    BY <1>2, <1>3
  <1>6. \A q \in Row : InvoiceIssued(q) => InvoiceIssued(q)'
    BY <1>5, OfAssumption DEF InvoiceIssued, Row
  <1>7. \A p : Notes(p)' = Notes(p)
    BY <1>2, <1>3, NotesSame
  <1>8. Books'
    <2>1. ASSUME NEW p \in Payment PROVE CapOK(p)'
      BY <1>7, AmountsSame DEF IInv, Books, CapOK
    <2>2. ASSUME NEW y \in Year, NEW s \in Series PROVE CounterOK(y, s)'
      <3>1. CounterOK(y, s) /\ counter[y][s] \in Counter
        BY DEF IInv, World, Books
      <3> QED
        BY <1>5, <1>6, <3>1 DEF CounterOK, Counter
    <2>3. ASSUME NEW q \in Row PROVE RowOK(q)'
      <3>1. RowOK(q)
        BY DEF IInv, Books
      <3> QED
        BY <1>5, <1>6, <3>1 DEF RowOK, Early
    <2>4. NoNumberTwice'
      BY <1>5 DEF IInv, Books, NoNumberTwice
    <2> QED
      BY <2>1, <2>2, <2>3, <2>4 DEF Books
  <1>9. ASSUME NEW a \in Attempt, AttemptOK(a) PROVE AttemptOK(a)'
    <2>1. LocalsOK(a)' /\ DropOK(a)' /\ CountsOK(a)'
      BY <1>7, <1>9 DEF AttemptOK, LocalsOK, CountsOK, DropOK, Early
    <2>2. NumberOK(a)'
      <3>1. /\ a.pc \in Finalizing => a.for \in Row
            /\ a.pc # "idle" => a.row \in Row
        BY <1>9 DEF AttemptOK, LocalsOK
      <3>2. NumberOK(a)
        BY <1>9 DEF AttemptOK
      <3> QED
        BY <1>5, <1>6, <3>1, <3>2 DEF NumberOK, Holds, Numbering, Finalizing
    <2> QED
      BY <2>1, <2>2 DEF AttemptOK
  <1> QED
    BY <1>4, <1>8, <1>9 DEF Keeps

\* A row gets the number its series holds for it.
LEMMA WriteKeeps ==
    ASSUME IInv, NEW r \in Row, row[r].state = "issuing", NEW y \in Year, NEW n \in 1..MaxSeq,
           Holds(r, y, n), InvoiceIssued(r),
           row' = [row EXCEPT ![r] = [state |-> "issued", year |-> y, seq |-> n]],
           UNCHANGED <<facts, counter, cap, config>>
    PROVE  Keeps
  <1>1. PICK d : d = [state |-> "issued", year |-> y, seq |-> n]
    OBVIOUS
  <1>2. /\ row \in [Row -> Document] /\ d \in Document
        /\ d.state = "issued" /\ d.year = y /\ d.seq = n
    BY <1>1, BoundAssumption DEF Document, IInv, World, Year
  <1>3. row' = [row EXCEPT ![r] = d]
    BY <1>1
  <1>4. World'
    BY <1>2, <1>3 DEF IInv, World
  <1>5. /\ row'[r] = d
        /\ \A q \in Row : q # r => row'[q] = row[q]
    BY <1>2, <1>3
  <1>6. \A q \in Row : InvoiceIssued(q) => InvoiceIssued(q)'
    BY <1>2, <1>5, OfAssumption DEF InvoiceIssued, Row
  <1>7. \A p : Notes(p)' = Notes(p)
    BY <1>2, <1>3, NotesSame
  <1>8. SeriesOf(r) \in Series /\ counter[y][SeriesOf(r)] = [seq |-> n, pending |-> r]
    BY SeriesOfRow DEF Holds
  <1>9. Books'
    <2>1. ASSUME NEW p \in Payment PROVE CapOK(p)'
      BY <1>7, AmountsSame DEF IInv, Books, CapOK
    <2>2. ASSUME NEW x \in Year, NEW s \in Series PROVE CounterOK(x, s)'
      <3>1. CounterOK(x, s) /\ counter[x][s] \in Counter
        BY DEF IInv, World, Books
      <3> QED
        BY <1>2, <1>5, <1>6, <3>1 DEF CounterOK, Counter
    <2>3. ASSUME NEW q \in Row PROVE RowOK(q)'
      <3>1. RowOK(q)
        BY DEF IInv, Books
      <3>2. CASE q # r
        BY <1>5, <1>6, <3>1, <3>2 DEF RowOK, Early
      <3>3. CASE q = r
        BY <1>2, <1>5, <1>6, <1>8, <3>3 DEF RowOK
      <3> QED
        BY <3>2, <3>3
    <2>4. NoNumberTwice'
      <3>1. ASSUME NEW q \in Row, q # r, row[q].state = "issued", SeriesOf(q) = SeriesOf(r),
                   row[q].year = y, row[q].seq = n
            PROVE  FALSE
        <4>1. RowOK(q)
          BY DEF IInv, Books
        <4> QED
          BY <3>1, <4>1, <1>8, RowAssumption DEF RowOK
      <3>2. NoNumberTwice
        BY DEF IInv, Books
      <3> QED
        BY <1>2, <1>5, <3>1, <3>2 DEF NoNumberTwice
    <2> QED
      BY <2>1, <2>2, <2>3, <2>4 DEF Books
  <1>10. ASSUME NEW a \in Attempt, AttemptOK(a) PROVE AttemptOK(a)'
    <2>1. LocalsOK(a)' /\ DropOK(a)' /\ CountsOK(a)'
      BY <1>7, <1>10 DEF AttemptOK, LocalsOK, CountsOK, DropOK, Early
    <2>2. NumberOK(a)'
      <3>1. /\ a.pc \in Finalizing => a.for \in Row
            /\ a.pc # "idle" => a.row \in Row
        BY <1>10 DEF AttemptOK, LocalsOK
      <3>2. NumberOK(a)
        BY <1>10 DEF AttemptOK
      <3> QED
        BY <1>2, <1>5, <1>6, <3>1, <3>2 DEF NumberOK, Holds, Numbering, Finalizing
    <2> QED
      BY <2>1, <2>2 DEF AttemptOK
  <1> QED
    BY <1>4, <1>9, <1>10 DEF Keeps

-----------------------------------------------------------------------------
(* The steps that write a cap or a counter. *)

LEMMA CapKeeps ==
    ASSUME IInv, NEW p \in Payment, NEW d \in Cap,
           d.there, d.total = AmountOf(d.refunds), d.total <= Amount(p),
           Notes(p) \subseteq d.refunds, cap[p].refunds \subseteq d.refunds,
           cap' = [cap EXCEPT ![p] = d], UNCHANGED <<facts, row, counter, config>>
    PROVE  Keeps
  <1>1. World' /\ cap'[p] = d /\ \A q \in Payment : q # p => cap'[q] = cap[q]
    BY DEF IInv, World
  <1>2. \A q : Notes(q)' = Notes(q)
    BY DEF Notes
  <1>3. Books'
    <2>1. ASSUME NEW q \in Payment PROVE CapOK(q)'
      <3>1. CapOK(q)
        BY DEF IInv, Books
      <3> QED
        BY <1>1, <1>2, <3>1, AmountsSame DEF CapOK
    <2>2. ASSUME NEW y \in Year, NEW s \in Series PROVE CounterOK(y, s)'
      BY DEF IInv, Books, CounterOK, InvoiceIssued
    <2>3. ASSUME NEW r \in Row PROVE RowOK(r)'
      BY DEF IInv, Books, RowOK, InvoiceIssued, Early
    <2>4. NoNumberTwice'
      BY DEF IInv, Books, NoNumberTwice
    <2> QED
      BY <2>1, <2>2, <2>3, <2>4 DEF Books
  <1>4. ASSUME NEW a \in Attempt, AttemptOK(a) PROVE AttemptOK(a)'
    <2>1. LocalsOK(a)' /\ NumberOK(a)' /\ DropOK(a)'
      BY <1>4 DEF AttemptOK, LocalsOK, NumberOK, DropOK, Holds, InvoiceIssued, Early
    <2>2. CountsOK(a)'
      <3>1. a.pc \in {"seed"} \cup Counting => Of[a.row] \in Payment
        BY <1>4, OfAssumption DEF AttemptOK, LocalsOK
      <3>2. CountsOK(a)
        BY <1>4 DEF AttemptOK
      <3> QED
        BY <1>1, <1>2, <3>1, <3>2 DEF CountsOK, Counting
    <2> QED
      BY <2>1, <2>2 DEF AttemptOK
  <1> QED
    BY <1>1, <1>3, <1>4 DEF Keeps

\* A counter changes only when it does not hold a number for a row that waits
\* for it, and every number given is still one of its own.
MayBe(y, s, d) ==
    /\ \A r \in Row : row[r].state = "issuing" => counter[y][s].pending # r
    /\ d.pending # NoRow => /\ d.seq # 0 /\ SeriesOf(d.pending) = s
                            /\ row[d.pending].state # "none" /\ InvoiceIssued(d.pending)
    /\ \A q \in Row : row[q].state = "issued" /\ row[q].year = y /\ SeriesOf(q) = s
           => /\ row[q].seq \in 1..d.seq
              /\ d.pending # NoRow /\ d.seq = row[q].seq => d.pending = q

LEMMA CounterKeeps ==
    ASSUME IInv, NEW y \in Year, NEW s \in Series, NEW d \in Counter,
           counter' = [counter EXCEPT ![y][s] = d], UNCHANGED <<facts, row, cap, config>>,
           MayBe(y, s, d)
    PROVE  Keeps
  <1> USE DEF MayBe
  <1>1. /\ World' /\ counter'[y][s] = d
        /\ \A x \in Year, t \in Series : x # y \/ t # s => counter'[x][t] = counter[x][t]
    BY DEF IInv, World
  <1>2. Books'
    <2>1. ASSUME NEW q \in Payment PROVE CapOK(q)'
      <3>1. CapOK(q) /\ Notes(q)' = Notes(q)
        BY DEF IInv, Books, Notes
      <3> QED
        BY <3>1, AmountsSame DEF CapOK
    <2>2. ASSUME NEW x \in Year, NEW t \in Series PROVE CounterOK(x, t)'
      <3>1. CounterOK(x, t)
        BY DEF IInv, Books
      <3> QED
        BY <1>1, <3>1 DEF CounterOK, InvoiceIssued
    <2>3. ASSUME NEW q \in Row PROVE RowOK(q)'
      <3>1. RowOK(q) /\ SeriesOf(q) \in Series
        BY SeriesOfRow DEF IInv, Books
      <3> QED
        BY <1>1, <3>1 DEF RowOK, InvoiceIssued, Early
    <2>4. NoNumberTwice'
      BY DEF IInv, Books, NoNumberTwice
    <2> QED
      BY <2>1, <2>2, <2>3, <2>4 DEF Books
  <1>3. ASSUME NEW a \in Attempt, AttemptOK(a) PROVE AttemptOK(a)'
    <2>1. LocalsOK(a)' /\ CountsOK(a)' /\ DropOK(a)'
      BY <1>3 DEF AttemptOK, LocalsOK, CountsOK, DropOK, Notes, Early
    <2>2. NumberOK(a)'
      <3>1. NumberOK(a)
        BY <1>3 DEF AttemptOK
      <3>2. a.pc \in Finalizing => a.for \in Row /\ a.year \in Year /\ SeriesOf(a.for) \in Series
        BY <1>3, SeriesOfRow DEF AttemptOK, LocalsOK
      <3>3. ASSUME a.pc \in {"content", "write"}, row[a.for].state = "issuing"
            PROVE  Holds(a.for, a.year, a.seq)'
        <4>1. a.for \in Row /\ Holds(a.for, a.year, a.seq)
          BY <3>1, <3>2, <3>3 DEF NumberOK, Finalizing
        <4>2. ~(a.year = y /\ SeriesOf(a.for) = s)
          BY <3>3, <4>1 DEF Holds
        <4> QED
          BY <1>1, <3>2, <3>3, <4>1, <4>2 DEF Holds, Finalizing
      <3> QED
        BY <3>1, <3>3 DEF NumberOK, InvoiceIssued
    <2> QED
      BY <2>1, <2>2 DEF AttemptOK
  <1> QED
    BY <1>1, <1>2, <1>3 DEF Keeps

-----------------------------------------------------------------------------
(* Each writing step. *)

LEMMA GoesArrives ==
    ASSUME NEW w \in Worker, Goes(w), Keeps
    PROVE  Arrives(w)
  BY DEF Goes, Arrives, Keeps

LEMMA SameKeeps ==
    ASSUME IInv, UNCHANGED <<facts, row, counter, cap, config>>
    PROVE  Keeps
  BY BooksSame DEF Keeps

\* At "held", "already", "used" and "busy" little is asked of an attempt.
LEMMA OnGoes ==
    ASSUME IInv, NEW w \in Worker, NEW pc \in {"held", "already", "used", "busy", "recheck"},
           GoOn(w, pc), work[w].pc # "idle",
           pc = "already" => work[w].pc = "count",
           pc = "used" => work[w].pc = "write" /\ row[work[w].for].state # "issuing",
           pc = "busy" => work[w].pc = "allocate",
           pc = "recheck" => work[w].pc \in Finalizing /\ work[w].helping
    PROVE  Goes(w)
  <1>1. PICK a \in Attempt : a = work[w] /\ AttemptOK(a)
    BY AttemptIs
  <1>2. PICK q : q = [a EXCEPT !.pc = pc]
    OBVIOUS
  <1>3. /\ q \in Attempt /\ q.pc = pc
        /\ q.row = a.row /\ q.prior = a.prior /\ q.year = a.year /\ q.seq = a.seq
        /\ q.for = a.for /\ q.helping = a.helping
    BY <1>2, OtherPc DEF Pc
  <1>4. AttemptOK(q)
    BY <1>1, <1>3 DEF AttemptOK, LocalsOK, CountsOK, NumberOK, DropOK, Counting, Numbering, Finalizing
  <1>5. work' = [work EXCEPT ![w] = q]
    BY <1>1, <1>2 DEF GoOn, Become
  <1> QED
    BY <1>3, <1>4, <1>5 DEF Goes

LEMMA FactsStay ==
    ASSUME NEW w \in Worker,
           \/ Done(w)
           \/ \E pc \in Pc : GoOn(w, pc)
    PROVE  UNCHANGED facts
  BY DEF Done, GoOn, Become

LEMMA RecordStep ==
    ASSUME IInv, NEW w \in Worker, Record(w)
    PROVE  Keeps /\ Arrives(w)
  <1>1. PICK p \in Payment : p = work[w].row /\ work[w].pc = "record"
    BY AttemptIs DEF Record, At, AttemptOK, LocalsOK
  <1>2. Goes(w)
    BY <1>1, DoneGoes, OnGoes DEF Record
  <1>3. UNCHANGED <<facts, counter, cap, config>>
    BY FactsStay DEF Record, Pc
  <1>4. Keeps
    <2>1. CASE row' = row
      BY <2>1, <1>3, SameKeeps
    <2>2. CASE row' # row
      <3>1. row[p].state \notin {"issuing", "issued"} /\ ~(config /\ p \in Early)
            /\ row' = [row EXCEPT ![p] = Recorded]
        BY <2>2, <1>1 DEF Record, MyRow
      <3>2. row[p] \in Document /\ RowOK(p) /\ p \in Row /\ p \notin Refund
        BY RowAssumption DEF IInv, World, Books, Row
      <3>3. row[p].state = "none"
        BY <3>1, <3>2 DEF Document, RowOK
      <3> QED
        BY <3>1, <3>2, <3>3, <1>3, RecordKeeps
    <2> QED
      BY <2>1, <2>2
  <1> QED
    BY <1>2, <1>4, GoesArrives

LEMMA RecordNoteStep ==
    ASSUME IInv, NEW w \in Worker, RecordNote(w)
    PROVE  Keeps /\ Arrives(w)
  <1>1. PICK r \in Refund : /\ r = work[w].row /\ work[w].pc = "note"
                            /\ cap[Of[r]].there /\ r \in cap[Of[r]].refunds
    BY AttemptIs DEF RecordNote, At, AttemptOK, LocalsOK, CountsOK, NumberOK, DropOK, Counting, Numbering, Finalizing
  <1>2. Goes(w)
    BY <1>1, DoneGoes, OnGoes DEF RecordNote
  <1>3. UNCHANGED <<facts, counter, cap, config>>
    BY FactsStay DEF RecordNote, Pc
  <1>4. Keeps
    <2>1. CASE row' = row
      BY <2>1, <1>3, SameKeeps
    <2>2. CASE row' # row
      <3>1. row[r].state = "none" /\ row' = [row EXCEPT ![r] = Recorded] /\ r \in Row
        BY <2>2, <1>1 DEF RecordNote, MyRow, Row
      <3> QED
        BY <1>1, <3>1, <1>3, RecordKeeps
    <2> QED
      BY <2>1, <2>2
  <1> QED
    BY <1>2, <1>4, GoesArrives

LEMMA DropStep ==
    ASSUME IInv, NEW w \in Worker, Drop(w)
    PROVE  Keeps /\ Arrives(w)
  <1>1. PICK r \in Row : r = work[w].row /\ config /\ r \in Early
    BY AttemptIs DEF Drop, At, AttemptOK, LocalsOK, DropOK
  <1>2. Goes(w)
    BY DoneGoes DEF Drop
  <1>3. UNCHANGED <<facts, counter, cap, config>>
    BY FactsStay DEF Drop, Pc
  <1>4. Keeps
    <2>1. CASE row' = row
      BY <2>1, <1>3, SameKeeps
    <2>2. CASE row' # row
      <3>1. row[r].state = "issuing" /\ row' = [row EXCEPT ![r].state = "dropped"]
        BY <2>2, <1>1 DEF Drop, MyRow
      <3> QED
        BY <1>1, <3>1, <1>3, DropKeeps
    <2> QED
      BY <2>1, <2>2
  <1> QED
    BY <1>2, <1>4, GoesArrives

LEMMA WriteStep ==
    ASSUME IInv, NEW w \in Worker, Write(w)
    PROVE  Keeps /\ Arrives(w)
  <1>1. PICK a \in Attempt : a = work[w] /\ AttemptOK(a) /\ a.pc = "write"
    BY AttemptIs DEF Write, At
  <1>2. PICK r \in Row : /\ r = a.for /\ a.year \in Year /\ a.seq \in 1..MaxSeq
                         /\ InvoiceIssued(r) /\ (a.helping => InvoiceIssued(a.row))
    BY <1>1 DEF AttemptOK, LocalsOK, CountsOK, NumberOK, DropOK, Counting, Numbering, Finalizing
  <1>3. UNCHANGED <<facts, counter, cap, config>>
    BY FactsStay DEF Write, Pc
  <1>4. CASE row[r].state # "issuing"
    <2>1. Goes(w)
      BY <1>1, <1>2, <1>4, OnGoes DEF Write
    <2>2. Keeps
      BY <1>1, <1>2, <1>3, <1>4, SameKeeps DEF Write
    <2> QED
      BY <2>1, <2>2, GoesArrives
  <1>5. CASE row[r].state = "issuing"
    <2>1. row' = [row EXCEPT ![r] = [state |-> "issued", year |-> a.year, seq |-> a.seq]]
      BY <1>1, <1>2, <1>5 DEF Write, MyNumber
    <2>2. Holds(r, a.year, a.seq)
      BY <1>1, <1>2, <1>5 DEF AttemptOK, NumberOK
    <2>3. Keeps
      BY <1>2, <1>3, <1>5, <2>1, <2>2, WriteKeeps
    <2>4. PICK q : q = [a EXCEPT !.pc = "free"]
      OBVIOUS
    <2>5. /\ q \in Attempt /\ q.pc = "free"
          /\ q.row = a.row /\ q.year = a.year /\ q.seq = a.seq
          /\ q.for = a.for /\ q.helping = a.helping
      BY <2>4, OtherPc DEF Pc
    <2>6. AttemptOK(q)'
      <3>1. LocalsOK(q)' /\ CountsOK(q)' /\ DropOK(q)'
        BY <1>1, <2>5 DEF AttemptOK, LocalsOK, CountsOK, NumberOK, DropOK, Counting, Numbering, Finalizing
      <3>2. row'[r].state = "issued"
        BY <2>1 DEF IInv, World
      <3>3. /\ InvoiceIssued(r)' /\ (a.helping => InvoiceIssued(a.row)')
        BY <1>1, <1>2, <2>3 DEF Keeps, InvoiceIssued, AttemptOK, LocalsOK, CountsOK, NumberOK, DropOK, Counting, Numbering, Finalizing
      <3> QED
        BY <1>2, <2>1, <2>5, <3>1, <3>2, <3>3 DEF AttemptOK, NumberOK, InvoiceIssued, Numbering, Finalizing, IInv, World
    <2>7. work' = [work EXCEPT ![w] = q]
      BY <1>1, <1>2, <1>5, <2>4 DEF Write, GoOn, Become
    <2> QED
      BY <2>3, <2>5, <2>6, <2>7 DEF Arrives
  <1> QED
    BY <1>4, <1>5

LEMMA SeedCapStep ==
    ASSUME IInv, NEW w \in Worker, SeedCap(w)
    PROVE  Keeps /\ Arrives(w)
  <1>1. PICK a \in Attempt : a = work[w] /\ AttemptOK(a) /\ a.pc = "seed"
    BY AttemptIs DEF SeedCap, At
  <1>2. PICK p \in Payment : p = Of[a.row] /\ a.row \in Refund
    BY <1>1, OfAssumption DEF AttemptOK, LocalsOK
  <1>3. UNCHANGED <<facts, row, counter, config>>
    BY DEF SeedCap, Become
  <1>4. CapOK(p) /\ cap[p] \in Cap
    BY DEF IInv, World, Books
  <1>5. Keeps /\ cap'[p].there
    <2>1. CASE cap[p].there
      <3>1. cap' = cap
        BY <1>1, <1>2, <2>1 DEF SeedCap, MyRow
      <3> QED
        BY <1>3, <2>1, <3>1, SameKeeps
    <2>2. CASE ~cap[p].there
      <3>1. a.prior = Notes(p) /\ Notes(p) \in SUBSET Refund
        BY <1>1, <1>2, <2>2 DEF AttemptOK, CountsOK, Notes
      <3>2. PICK d : d = [there |-> TRUE, total |-> AmountOf(Notes(p)), refunds |-> Notes(p)]
        OBVIOUS
      <3>3. AmountOf(Notes(p)) \in Nat
        BY <3>1, PartIsLess DEF IInv, World
      <3>4. d \in Cap /\ d.there /\ d.total = AmountOf(Notes(p)) /\ d.refunds = Notes(p)
        BY <3>1, <3>2, <3>3 DEF Cap
      <3>5. cap' = [cap EXCEPT ![p] = d]
        BY <1>1, <1>2, <2>2, <3>1, <3>2 DEF SeedCap, Seed, MyRow
      <3>6. AmountOf(Notes(p)) <= Amount(p) /\ cap[p].refunds = {}
        BY <1>4, <2>2 DEF CapOK
      <3>7. Keeps
        BY <1>3, <3>4, <3>5, <3>6, CapKeeps
      <3> QED
        BY <3>4, <3>5, <3>7 DEF IInv, World
    <2> QED
      BY <2>1, <2>2
  <1>6. PICK q : q = [a EXCEPT !.pc = "count", !.prior = {}]
    OBVIOUS
  <1>7. q \in Attempt /\ q.pc = "count" /\ q.row = a.row
    BY <1>6 DEF Attempt
  <1>8. AttemptOK(q)'
    BY <1>1, <1>2, <1>5, <1>7 DEF AttemptOK, LocalsOK, CountsOK, NumberOK, DropOK, Counting, Numbering, Finalizing
  <1>9. work' = [work EXCEPT ![w] = q]
    BY <1>1, <1>6 DEF SeedCap, Become
  <1> QED
    BY <1>5, <1>7, <1>8, <1>9 DEF Arrives

LEMMA CountStep ==
    ASSUME IInv, NEW w \in Worker, Count(w)
    PROVE  Keeps /\ Arrives(w)
  <1>1. PICK a \in Attempt : a = work[w] /\ AttemptOK(a) /\ a.pc = "count"
    BY AttemptIs DEF Count, At
  <1>2. PICK r \in Refund, p \in Payment : r = a.row /\ p = Of[r] /\ cap[p].there
    BY <1>1, OfAssumption DEF AttemptOK, LocalsOK, CountsOK, NumberOK, DropOK, Counting, Numbering, Finalizing
  <1>3. UNCHANGED <<facts, row, counter, config>>
    BY DEF Count, GoOn, Become
  <1>4. CapOK(p) /\ cap[p] \in Cap
    BY DEF IInv, World, Books
  <1>5. CASE ~Fits(r)
    <2>1. cap' = cap /\ GoOn(w, "already")
      BY <1>1, <1>2, <1>5 DEF Count, MyRow
    <2>2. Goes(w)
      BY <1>1, <2>1, OnGoes
    <2>3. Keeps
      BY <1>3, <2>1, SameKeeps
    <2> QED
      BY <2>2, <2>3, GoesArrives
  <1>6. CASE Fits(r)
    <2>1. PICK old : old = cap[p]
      OBVIOUS
    <2>2. PICK d : d = CountIn(old, r)
      OBVIOUS
    <2>3. cap' = [cap EXCEPT ![p] = d] /\ GoOn(w, "note")
      BY <1>1, <1>2, <1>6, <2>1, <2>2 DEF Count, MyRow
    <2>4. /\ old.refunds \in SUBSET Refund /\ r \notin old.refunds
          /\ old.total + Amount(r) <= Amount(p) /\ old.total \in Nat /\ Amount(r) \in Nat
      BY <1>2, <1>4, <1>6, <2>1, AmountsAre DEF Fits, Cap, IInv, World, Amount, Row
    <2>5. AmountOf(old.refunds \cup {r}) = old.total + Amount(r)
      BY <1>2, <1>4, <2>1, <2>4, OneMore DEF IInv, World, CapOK
    <2>6. /\ d \in Cap /\ d.there /\ d.total = old.total + Amount(r)
          /\ d.refunds = old.refunds \cup {r}
      <3>1. old \in Cap /\ old.there
        BY <1>2, <1>4, <2>1
      <3>2. PICK total \in Nat : total = old.total + Amount(r)
        BY <2>4
      <3>3. PICK counted \in SUBSET Refund : counted = old.refunds \cup {r}
        BY <1>2, <2>4
      <3>4. d = [old EXCEPT !.total = total, !.refunds = counted]
        BY <2>2, <3>1, <3>2, <3>3 DEF CountIn, Cap
      <3> QED
        BY <3>1, <3>2, <3>3, <3>4 DEF Cap
    <2>7. Notes(p) \subseteq d.refunds /\ cap[p].refunds \subseteq d.refunds
      BY <1>2, <1>4, <2>1, <2>6 DEF CapOK
    <2>8. Keeps
      BY <1>3, <2>3, <2>4, <2>5, <2>6, <2>7, CapKeeps
    <2>9. PICK q : q = [a EXCEPT !.pc = "note"]
      OBVIOUS
    <2>10. q \in Attempt /\ q.pc = "note" /\ q.row = a.row
      BY <2>9, OtherPc DEF Pc
    <2>11. cap'[p] = d
      BY <2>3 DEF IInv, World
    <2>12. AttemptOK(q)'
      BY <1>2, <2>6, <2>10, <2>11 DEF Row, AttemptOK, LocalsOK, CountsOK, NumberOK, DropOK, Counting, Numbering, Finalizing
    <2>13. work' = [work EXCEPT ![w] = q]
      BY <1>1, <2>3, <2>9 DEF GoOn, Become
    <2> QED
      BY <2>8, <2>10, <2>12, <2>13 DEF Arrives
  <1> QED
    BY <1>5, <1>6

LEMMA AllocateStep ==
    ASSUME IInv, NEW w \in Worker, Allocate(w)
    PROVE  Keeps /\ Arrives(w)
  <1>1. PICK a \in Attempt : a = work[w] /\ AttemptOK(a) /\ a.pc = "allocate"
    BY AttemptIs DEF Allocate, At
  <1>2. PICK r \in Row, y \in Year, s \in Series :
            r = a.row /\ y = a.year /\ s = SeriesOf(r) /\ row[r].state # "none" /\ InvoiceIssued(r)
    BY <1>1, SeriesOfRow DEF AttemptOK, LocalsOK, CountsOK, NumberOK, DropOK, Counting, Numbering, Finalizing
  <1>3. UNCHANGED <<facts, row, cap, config>>
    BY DEF Allocate, GoOn, Become
  <1>4. PICK c \in Counter : c = counter[y][s]
    BY DEF IInv, World
  <1>5. CASE ~Available(c)
    <2>1. counter' = counter /\ GoOn(w, "busy")
      BY <1>1, <1>2, <1>4, <1>5 DEF Allocate, MyRow
    <2>2. Goes(w)
      BY <1>1, <2>1, OnGoes
    <2>3. Keeps
      BY <1>3, <2>1, SameKeeps
    <2> QED
      BY <2>2, <2>3, GoesArrives
  <1>6. CASE Available(c)
    <2>1. PICK d, q : /\ d = [seq |-> c.seq + 1, pending |-> r]
                      /\ q = [a EXCEPT !.pc = "content", !.seq = c.seq + 1,
                                       !.for = r, !.helping = FALSE]
      OBVIOUS
    <2>2. /\ counter' = [counter EXCEPT ![y][s] = d]
          /\ work' = [work EXCEPT ![w] = q]
      BY <1>1, <1>2, <1>4, <1>6, <2>1 DEF Allocate, MyRow, Become
    <2>3. c.seq \in 0..MaxSeq /\ c.seq < MaxSeq /\ c.pending = NoRow /\ c.seq + 1 \in 1..MaxSeq
      BY <1>6, BoundAssumption DEF Available, Counter
    <2>4. d \in Counter /\ d.seq = c.seq + 1 /\ d.pending = r
      BY <2>1, <2>3 DEF Counter
    <2>5. ASSUME NEW x \in Row, row[x].state = "issued", row[x].year = y, SeriesOf(x) = s
          PROVE  row[x].seq \in 1..d.seq /\ d.seq # row[x].seq
      BY <1>4, <2>3, <2>4, <2>5 DEF IInv, Books, RowOK
    <2>6. Keeps
      <3>1. MayBe(y, s, d)
        BY <1>2, <1>4, <2>3, <2>4, <2>5, RowAssumption DEF MayBe
      <3> QED
        BY <1>3, <2>2, <2>4, <3>1, CounterKeeps
    <2>7. /\ q \in Attempt /\ q.pc = "content" /\ q.row = a.row /\ q.year = y
          /\ q.seq = c.seq + 1 /\ q.for = r /\ q.helping = FALSE
      <3>1. PICK n \in 1..MaxSeq : n = c.seq + 1 /\ n \in 0..MaxSeq
        BY <2>3
      <3> QED
        BY <1>2, <2>1, <3>1 DEF Attempt
    <2>8. counter'[y][s] = d
      BY <2>2 DEF IInv, World
    <2>9. AttemptOK(q)'
      <3>1. LocalsOK(q)' /\ CountsOK(q)' /\ DropOK(q)'
        BY <1>1, <1>2, <2>3, <2>7 DEF AttemptOK, LocalsOK, CountsOK, NumberOK, DropOK, Counting, Numbering, Finalizing
      <3>2. NumberOK(q)'
        BY <1>2, <1>3, <2>1, <2>7, <2>8 DEF NumberOK, Holds, InvoiceIssued, Numbering, Finalizing
      <3> QED
        BY <3>1, <3>2 DEF AttemptOK
    <2> QED
      BY <2>2, <2>6, <2>7, <2>9 DEF Arrives
  <1> QED
    BY <1>5, <1>6

LEMMA FinishedGoes ==
    ASSUME IInv, NEW w \in Worker, work[w].pc \in Finalizing, Finished(w)
    PROVE  Goes(w)
  BY DoneGoes, OnGoes DEF Finished, Finalizing

LEMMA FreeSeriesStep ==
    ASSUME IInv, NEW w \in Worker, FreeSeries(w)
    PROVE  Keeps /\ Arrives(w)
  <1>1. PICK a \in Attempt : a = work[w] /\ AttemptOK(a) /\ a.pc = "free"
    BY AttemptIs DEF FreeSeries, At
  <1>2. PICK r \in Row, y \in Year, s \in Series :
            r = a.for /\ y = a.year /\ s = SeriesOf(r) /\ row[r].state # "issuing"
    BY <1>1, SeriesOfRow DEF AttemptOK, LocalsOK, CountsOK, NumberOK, DropOK, Counting, Numbering, Finalizing
  <1>3. UNCHANGED <<facts, row, cap, config>>
    BY FactsStay DEF FreeSeries, Finished, Pc
  <1>4. Goes(w)
    BY <1>1, FinishedGoes DEF FreeSeries, Finalizing
  <1>5. PICK c \in Counter : c = counter[y][s]
    BY DEF IInv, World
  <1>6. CASE c.pending # r
    <2>1. counter' = counter
      BY <1>1, <1>2, <1>5, <1>6 DEF FreeSeries
    <2> QED
      BY <1>3, <1>4, <2>1, SameKeeps, GoesArrives
  <1>7. CASE c.pending = r
    <2>1. PICK d : d = [c EXCEPT !.pending = NoRow]
      OBVIOUS
    <2>2. counter' = [counter EXCEPT ![y][s] = d]
      BY <1>1, <1>2, <1>5, <1>7, <2>1 DEF FreeSeries
    <2>3. d \in Counter /\ d.seq = c.seq /\ d.pending = NoRow
      BY <2>1 DEF Counter
    <2>4. ASSUME NEW x \in Row, row[x].state = "issued", row[x].year = y, SeriesOf(x) = s
          PROVE  row[x].seq \in 1..d.seq
      BY <1>5, <2>3, <2>4 DEF IInv, Books, RowOK
    <2>5. Keeps
      <3>1. MayBe(y, s, d)
        BY <1>2, <1>5, <1>7, <2>3, <2>4 DEF MayBe
      <3> QED
        BY <1>3, <2>2, <2>3, <3>1, CounterKeeps
    <2> QED
      BY <1>4, <2>5, GoesArrives
  <1> QED
    BY <1>6, <1>7

LEMMA GiveBackStep ==
    ASSUME IInv, NEW w \in Worker, GiveBack(w)
    PROVE  Keeps /\ Arrives(w)
  <1>1. PICK a \in Attempt : a = work[w] /\ AttemptOK(a) /\ a.pc = "giveback"
    BY AttemptIs DEF GiveBack, At
  <1>2. PICK r \in Row, y \in Year, s \in Series, n \in 1..MaxSeq :
            /\ r = a.for /\ y = a.year /\ s = SeriesOf(r) /\ n = a.seq
            /\ row[r].state # "issuing"
            /\ row[r] # [state |-> "issued", year |-> y, seq |-> n]
    BY <1>1, SeriesOfRow DEF AttemptOK, LocalsOK, CountsOK, NumberOK, DropOK, Counting, Numbering, Finalizing
  <1>3. UNCHANGED <<facts, row, cap, config>>
    BY FactsStay DEF GiveBack, Finished, Pc
  <1>4. Goes(w)
    BY <1>1, FinishedGoes DEF GiveBack, Finalizing
  <1>5. CASE ~Held(w)
    <2>1. counter' = counter
      BY <1>5 DEF GiveBack
    <2> QED
      BY <1>3, <1>4, <2>1, SameKeeps, GoesArrives
  <1>6. CASE Held(w)
    <2>1. PICK c \in Counter : c = counter[y][s]
      BY DEF IInv, World
    <2>2. c.seq = n /\ c.pending = r
      BY <1>1, <1>2, <1>6, <2>1 DEF Held
    <2>3. PICK d : d = [seq |-> n - 1, pending |-> NoRow]
      OBVIOUS
    <2>4. counter' = [counter EXCEPT ![y][s] = d]
      BY <1>1, <1>2, <1>6, <2>1, <2>2, <2>3 DEF GiveBack, SeqBack
    <2>5. d \in Counter /\ d.seq = n - 1 /\ d.pending = NoRow
      BY <2>3, BoundAssumption DEF Counter
    <2>6. ASSUME NEW x \in Row, row[x].state = "issued", row[x].year = y, SeriesOf(x) = s
          PROVE  row[x].seq \in 1..d.seq
      <3>1. RowOK(x) /\ row[x] \in Document
        BY DEF IInv, World, Books
      <3>2. row[x].seq \in 1..n /\ (row[x].seq = n => x = r)
        BY <2>1, <2>2, <2>6, <3>1, RowAssumption DEF RowOK
      <3>3. row[x].seq # n
        <4>1. SUFFICES ASSUME row[x].seq = n PROVE FALSE
          OBVIOUS
        <4>2. row[x] = [state |-> "issued", year |-> y, seq |-> n]
          BY <2>6, <3>1, <4>1 DEF Document
        <4> QED
          BY <1>2, <3>2, <4>1, <4>2
      <3> QED
        BY <2>5, <3>2, <3>3
    <2>7. Keeps
      <3>1. MayBe(y, s, d)
        BY <1>2, <2>1, <2>2, <2>5, <2>6 DEF MayBe
      <3> QED
        BY <1>3, <2>4, <2>5, <3>1, CounterKeeps
    <2> QED
      BY <1>4, <2>7, GoesArrives
  <1> QED
    BY <1>5, <1>6

-----------------------------------------------------------------------------
(* Every step. *)

LEMMA StepKeeps ==
    ASSUME IInv, NEW w \in Worker, Step(w)
    PROVE  Keeps /\ Arrives(w)
  <1>1. CASE \/ FindOriginal(w) \/ ReadPrior(w) \/ AlreadyCounted(w) \/ FindHeld(w) \/ ReadRow(w)
             \/ Check(w) \/ Busy(w) \/ Recheck(w) \/ ReadContent(w) \/ Used(w)
    <2>1. Goes(w)
      BY <1>1, FindOriginalGoes, ReadPriorGoes, AlreadyCountedGoes, FindHeldGoes, ReadRowGoes,
         CheckGoes, BusyGoes, RecheckGoes, ReadContentGoes, UsedGoes
    <2>2. UNCHANGED facts
      BY <1>1 DEF FindOriginal, ReadPrior, AlreadyCounted, FindHeld, ReadRow, Check, Busy, Recheck,
         ReadContent, Used, GoOn, Done, Become
    <2>3. Reads
      BY <1>1 DEF FindOriginal, ReadPrior, AlreadyCounted, FindHeld, ReadRow, Check, Busy, Recheck,
         ReadContent, Used
    <2>4. Keeps
      BY <2>2, <2>3, SameKeeps DEF Reads
    <2> QED
      BY <2>1, <2>4, GoesArrives
  <1>2. CASE Record(w) \/ RecordNote(w) \/ Drop(w) \/ Write(w)
    BY <1>2, RecordStep, RecordNoteStep, DropStep, WriteStep
  <1>3. CASE SeedCap(w) \/ Count(w) \/ Allocate(w) \/ FreeSeries(w) \/ GiveBack(w)
    BY <1>3, SeedCapStep, CountStep, AllocateStep, FreeSeriesStep, GiveBackStep
  <1> QED
    BY <1>1, <1>2, <1>3 DEF Step

LEMMA DeliverKeeps ==
    ASSUME IInv, NEW w \in Worker, Deliver(w)
    PROVE  Keeps /\ Arrives(w)
  <1>1. PICK r \in Row :
            Become(w, [Idle EXCEPT !.pc = IF r \in Payment THEN "record" ELSE "original",
                                   !.row = r, !.event = TRUE])
    BY DEF Deliver
  <1>2. PICK pc \in {"record", "original"} : /\ pc = IF r \in Payment THEN "record" ELSE "original"
                                             /\ pc = "record" => r \in Payment
                                             /\ pc = "original" => r \in Refund
    BY DEF Row
  <1>3. PICK q : q = [Idle EXCEPT !.pc = pc, !.row = r, !.event = TRUE]
    OBVIOUS
  <1>4. Goes(w)
    <2>1. q \in Attempt /\ q.pc = pc /\ q.row = r
      BY <1>3, IdleOK DEF Attempt
    <2>2. work' = [work EXCEPT ![w] = q]
      BY <1>1, <1>2, <1>3 DEF Become
    <2> QED
      BY <1>2, <2>1, <2>2, StartGoes
  <1>5. Keeps
    BY <1>1, SameKeeps DEF Deliver, Become
  <1> QED
    BY <1>4, <1>5, GoesArrives

LEMMA SweepRowKeeps ==
    ASSUME IInv, NEW r \in Row, SweepRow(r)
    PROVE  Keeps /\ Arrives(Sweep)
  <1>1. Sweep \in Worker
    BY DEF Worker
  <1>2. PICK q : q = [Idle EXCEPT !.pc = "held", !.row = r]
    OBVIOUS
  <1>3. q \in Attempt /\ q.pc = "held" /\ q.row = r
    BY <1>2, IdleOK DEF Attempt
  <1>4. Goes(Sweep)
    <2>1. work' = [work EXCEPT ![Sweep] = q]
      BY <1>2 DEF SweepRow, Become
    <2> QED
      BY <1>1, <1>3, <2>1, StartGoes
  <1>5. Keeps
    BY SameKeeps DEF SweepRow, Become, Reads
  <1> QED
    BY <1>1, <1>4, <1>5, GoesArrives

LEMMA FailKeeps ==
    ASSUME IInv, NEW w \in Worker, Fail(w)
    PROVE  Keeps /\ Arrives(w)
  <1>1. Goes(w)
    BY DoneGoes DEF Fail
  <1>2. Keeps
    BY SameKeeps DEF Fail, Become
  <1> QED
    BY <1>1, <1>2, GoesArrives

\* The clocks, the configuration and the bounds keep their types.
LEMMA FactsKept == ASSUME Next PROVE UNCHANGED facts
  <1>1. ASSUME NEW w \in Worker, Step(w)
        PROVE  UNCHANGED facts
    BY <1>1 DEF Step, FindOriginal, ReadPrior, AlreadyCounted, FindHeld, ReadRow, Check, Busy, Recheck,
       ReadContent, Used, Record, RecordNote, Drop, Write, SeedCap, Count, Allocate, FreeSeries,
       GiveBack, Finished, GoOn, Done, Become
  <1>2. ASSUME NEW w \in Worker, Deliver(w) \/ Fail(w)
        PROVE  UNCHANGED facts
    BY <1>2 DEF Deliver, Fail, Become
  <1>3. ASSUME NewYear \/ Configure \/ \E r \in Row : SweepRow(r)
        PROVE  UNCHANGED facts
    BY <1>3 DEF NewYear, Configure, SweepRow, Become
  <1> QED
    BY <1>1, <1>2, <1>3 DEF Next

\* A number is lost by the freeing of a series alone, and it is one the series held.
LEMMA LostKept ==
    ASSUME IInv, Next, ~ \E w \in Worker : FreeSeries(w)
    PROVE  UNCHANGED lost
  <1>1. ASSUME NEW w \in Worker, Step(w)
        PROVE  UNCHANGED lost
    BY <1>1 DEF Step, FindOriginal, ReadPrior, AlreadyCounted, FindHeld, ReadRow, Check, Busy, Recheck,
       ReadContent, Used, Record, RecordNote, Drop, Write, SeedCap, Count, Allocate, GiveBack, Reads
  <1>2. ASSUME NEW w \in Worker, Deliver(w) \/ Fail(w)
        PROVE  UNCHANGED lost
    BY <1>2 DEF Deliver, Fail
  <1>3. ASSUME NewYear \/ Configure \/ \E r \in Row : SweepRow(r)
        PROVE  UNCHANGED lost
    BY <1>3 DEF NewYear, Configure, SweepRow, Reads
  <1> QED
    BY <1>1, <1>2, <1>3 DEF Next

LEMMA LostIsTyped ==
    ASSUME IInv, Next
    PROVE  LostTyped'
  <1>1. CASE ~ \E w \in Worker : FreeSeries(w)
    BY <1>1, LostKept DEF IInv, Rest, LostTyped
  <1>2. ASSUME NEW w \in Worker, FreeSeries(w)
        PROVE  LostTyped'
    <2>1. PICK r \in Row, y \in Year, s \in Series :
              r = work[w].for /\ y = work[w].year /\ s = SeriesOf(r) /\ r # NoRow
      BY <1>2, AttemptIs, SeriesOfRow, RowAssumption
         DEF FreeSeries, At, AttemptOK, LocalsOK, Finalizing
    <2>2. PICK c \in Counter : c = counter[y][s] /\ CounterOK(y, s)
      BY DEF IInv, World, Books
    <2>3. c.pending = r => c.seq \in 1..MaxSeq
      BY <2>1, <2>2, BoundAssumption DEF CounterOK, Counter
    <2>4. CASE c.pending # r \/ c.seq = work[w].seq
      <3>1. lost' = lost
        BY <1>2, <2>1, <2>2, <2>4 DEF FreeSeries
      <3> QED
        BY <3>1 DEF IInv, Rest, LostTyped
    <2>5. CASE c.pending = r /\ c.seq # work[w].seq
      <3>1. lost' = lost \cup {[year |-> y, series |-> s, seq |-> c.seq]}
        BY <1>2, <2>1, <2>2, <2>5 DEF FreeSeries
      <3> QED
        BY <2>1, <2>3, <2>5, <3>1 DEF IInv, Rest, LostTyped
    <2> QED
      BY <2>4, <2>5
  <1> QED
    BY <1>1, <1>2

LEMMA RestKept ==
    ASSUME IInv, Next
    PROVE  Rest'
  <1>0. UNCHANGED facts /\ LostTyped'
    BY FactsKept, LostIsTyped
  <1>1. ASSUME NEW w \in Worker, Step(w)
        PROVE  awaited' \subseteq Row /\ UNCHANGED <<year, config, mishaps>>
    <2>1. awaited' \subseteq awaited
      BY <1>1 DEF Step, FindOriginal, ReadPrior, AlreadyCounted, FindHeld, ReadRow, Check, Busy, Recheck,
         ReadContent, Used, Record, RecordNote, Drop, Write, SeedCap, Count, Allocate, FreeSeries,
         GiveBack, Finished, GoOn, Done
    <2>2. UNCHANGED <<year, config, mishaps>>
      BY <1>1 DEF Step, FindOriginal, ReadPrior, AlreadyCounted, FindHeld, ReadRow, Check, Busy, Recheck,
         ReadContent, Used, Record, RecordNote, Drop, Write, SeedCap, Count, Allocate, FreeSeries,
         GiveBack, Reads
    <2> QED
      BY <2>1, <2>2 DEF IInv, Rest
  <1>2. ASSUME NEW w \in Worker, Deliver(w) \/ Fail(w)
        PROVE  Rest'
    <2>1. awaited' \subseteq awaited /\ UNCHANGED <<year, config>>
      BY <1>2 DEF Deliver, Fail
    <2>2. mishaps' = mishaps \/ (mishaps < facts.mishaps /\ mishaps' = mishaps + 1)
      BY <1>2 DEF Deliver, Fail, Mishap
    <2>3. mishaps' \in 0..facts'.mishaps
      BY <1>0, <2>2, StartsAssumption DEF IInv, World, Rest
    <2> QED
      BY <1>0, <2>1, <2>3 DEF IInv, Rest
  <1>3. ASSUME NEW r \in Row, SweepRow(r)
        PROVE  Rest'
    BY <1>0, <1>3 DEF IInv, Rest, SweepRow, Reads
  <1>4. CASE NewYear
    <2>1. facts.lastYear \in Year
      BY StartsAssumption DEF IInv, World
    <2> QED
      BY <1>0, <1>4, <2>1, BoundAssumption DEF IInv, Rest, NewYear, Year
  <1>5. CASE Configure
    BY <1>0, <1>5 DEF IInv, Rest, Configure
  <1> QED
    BY <1>0, <1>1, <1>2, <1>3, <1>4, <1>5 DEF Next, IInv, Rest

LEMMA NextInv == IInv /\ [Next]_vars => IInv'
  <1> SUFFICES ASSUME IInv, [Next]_vars PROVE IInv'
    OBVIOUS
  <1>1. ASSUME NEW w \in Worker, Keeps, Arrives(w)
        PROVE  World' /\ Books' /\ Attempts'
    BY <1>1, AllAttempts DEF Keeps
  <1>2. ASSUME NEW w \in Worker, Deliver(w) \/ Step(w) \/ Fail(w)
        PROVE  World' /\ Books' /\ Attempts'
    BY <1>1, <1>2, DeliverKeeps, StepKeeps, FailKeeps
  <1>3. ASSUME NEW r \in Row, SweepRow(r)
        PROVE  World' /\ Books' /\ Attempts'
    BY <1>1, <1>3, SweepRowKeeps DEF Worker
  <1>4. CASE NewYear
    <2>1. World' /\ Books' /\ \A a \in Attempt : AttemptOK(a) => AttemptOK(a)'
      BY <1>4, BooksSame DEF NewYear
    <2>2. ASSUME NEW w \in Worker PROVE Arrives(w)
      <3>1. PICK a \in Attempt : a = work[w] /\ AttemptOK(a)
        BY AttemptIs
      <3>2. work' = [work EXCEPT ![w] = a]
        BY <1>4, <3>1 DEF NewYear, IInv, Attempts
      <3> QED
        BY <2>1, <3>1, <3>2 DEF Arrives
    <2>3. Sweep \in Worker
      BY DEF Worker
    <2> QED
      BY <1>4, <2>1, <2>2, <2>3, AllAttempts, RestKept DEF IInv, Next
  <1>5. CASE Configure
    <2>1. World' /\ Books'
      BY <1>5, BooksSame DEF Configure
    <2>2. \A w \in Worker : work'[w] = Idle /\ work'[w].pc = "idle"
      BY <1>5, IdleOK DEF Configure
    <2>3. work' \in [Worker -> Attempt]
      BY <1>5, IdleOK DEF Configure
    <2>4. Attempts'
      BY <2>2, <2>3 DEF Attempts, AttemptOK, LocalsOK, CountsOK, NumberOK, DropOK,
         Counting, Numbering, Finalizing
    <2> QED
      BY <1>5, <2>1, <2>4, RestKept DEF IInv, Next
  <1>6. CASE UNCHANGED vars
    <2>1. World' /\ Books' /\ \A a \in Attempt : AttemptOK(a) => AttemptOK(a)'
      BY <1>6, BooksSame DEF vars
    <2>2. Arrives(Sweep) /\ Sweep \in Worker
      <3>1. Sweep \in Worker
        BY DEF Worker
      <3>2. PICK a \in Attempt : a = work[Sweep] /\ AttemptOK(a)
        BY <3>1, AttemptIs
      <3>3. work' = [work EXCEPT ![Sweep] = a]
        BY <1>6, <3>1, <3>2 DEF vars, IInv, Attempts
      <3> QED
        BY <2>1, <3>1, <3>2, <3>3 DEF Arrives
    <2>3. Rest'
      BY <1>6 DEF IInv, Rest, LostTyped, vars
    <2> QED
      BY <2>1, <2>2, <2>3, AllAttempts DEF IInv
  <1> QED
    BY <1>2, <1>3, <1>4, <1>5, <1>6, RestKept DEF IInv, Next

-----------------------------------------------------------------------------
(* No gap but the lost numbers.                                              *)

LEMMA FinalizingIs ==
    ASSUME IInv, NEW w \in Worker, work[w].pc \in Finalizing
    PROVE  /\ work[w].for \in Row /\ work[w].year \in Year /\ work[w].seq \in 1..MaxSeq
           /\ SeriesOf(work[w].for) \in Series /\ work[w].for # NoRow
  <1>1. work[w].for \in Row /\ work[w].year \in Year /\ work[w].seq \in 1..MaxSeq
    BY AttemptIs DEF AttemptOK, LocalsOK, Finalizing
  <1> QED
    BY <1>1, SeriesOfRow, RowAssumption

\* What is issued or dropped is never written again.
LEMMA RowStays ==
    ASSUME IInv, Next, NEW r \in Row, row[r].state \in {"issued", "dropped"}
    PROVE  row'[r] = row[r]
  <1>1. ASSUME NEW w \in Worker, Record(w)
        PROVE  row'[r] = row[r]
    <2>1. RowOK(r)
      BY DEF IInv, Books
    <2> QED
      BY <1>1, <2>1 DEF Record, MyRow, RowOK, IInv, World
  <1>2. ASSUME NEW w \in Worker, RecordNote(w) \/ Drop(w) \/ Write(w)
        PROVE  row'[r] = row[r]
    BY <1>2 DEF RecordNote, Drop, Write, MyRow, IInv, World
  <1>3. ASSUME NEW w \in Worker, Step(w), ~Record(w), ~(RecordNote(w) \/ Drop(w) \/ Write(w))
        PROVE  UNCHANGED row
    BY <1>3 DEF Step, FindOriginal, ReadPrior, AlreadyCounted, FindHeld, ReadRow, Check, Busy,
       Recheck, ReadContent, Used, SeedCap, Count, Allocate, FreeSeries, GiveBack, Reads
  <1>4. ASSUME NEW w \in Worker, Deliver(w) \/ Fail(w)
        PROVE  UNCHANGED row
    BY <1>4 DEF Deliver, Fail
  <1>5. ASSUME NewYear \/ Configure \/ \E q \in Row : SweepRow(q)
        PROVE  UNCHANGED row
    BY <1>5 DEF NewYear, Configure, SweepRow, Reads
  <1> QED
    BY <1>1, <1>2, <1>3, <1>4, <1>5 DEF Next

Pending(c) == IF c.pending = NoRow THEN {} ELSE {c.seq}

\* What NoGap says of one series and year, and that the lost numbers are past ones.
Whole(y, s) ==
    /\ Lost(y, s) \subseteq 1..counter[y][s].seq
    /\ Numbers(y, s) \cup Pending(counter[y][s]) = (1..counter[y][s].seq) \ Lost(y, s)

AllWhole == \A y \in Year, s \in Series : Whole(y, s)

LEMMA NumberIs ==
    \A y, s, n : n \in Numbers(y, s) <=>
        \E r \in Row : /\ SeriesOf(r) = s /\ row[r].state = "issued"
                       /\ row[r].year = y /\ row[r].seq = n
  BY DEF Numbers

\* The number a series holds for a row is on no other row.
LEMMA HeldIsNew ==
    ASSUME IInv, NEW y \in Year, NEW s \in Series, NEW c \in Counter, c = counter[y][s],
           c.pending # NoRow, c.seq \in Numbers(y, s)
    PROVE  row[c.pending] = [state |-> "issued", year |-> y, seq |-> c.seq]
  <1>1. PICK x \in Row : /\ SeriesOf(x) = s /\ row[x].state = "issued"
                         /\ row[x].year = y /\ row[x].seq = c.seq
    BY NumberIs
  <1>2. RowOK(x) /\ row[x] \in Document
    BY DEF IInv, World, Books
  <1>3. x = c.pending
    BY <1>1, <1>2 DEF RowOK
  <1> QED
    BY <1>1, <1>2, <1>3 DEF Document

\* A series freed in the name of its number, or of another: then its own is lost.
LEMMA FreeWhole ==
    ASSUME IInv, AllWhole, NEW w \in Worker, FreeSeries(w), NEW y \in Year, NEW s \in Series
    PROVE  Whole(y, s)'
  <1>1. work[w].pc = "free" /\ UNCHANGED row
    BY DEF FreeSeries, At
  <1>2. PICK r \in Row, z \in Year, t \in Series, n \in 1..MaxSeq :
            /\ r = work[w].for /\ z = work[w].year /\ t = SeriesOf(r) /\ r # NoRow
            /\ n = work[w].seq
            /\ row[r] = [state |-> "issued", year |-> z, seq |-> n]
    BY <1>1, FinalizingIs, AttemptIs DEF Finalizing, AttemptOK, NumberOK
  <1>3. Whole(y, s) /\ Numbers(y, s)' = Numbers(y, s)
    BY <1>1 DEF AllWhole, Numbers
  <1>4. PICK c \in Counter, d \in Counter : c = counter[y][s] /\ d = counter[z][t]
    BY DEF IInv, World
  <1>5. CASE d.pending # r
    <2>1. UNCHANGED <<counter, lost>>
      BY <1>2, <1>4, <1>5 DEF FreeSeries
    <2> QED
      BY <1>3, <2>1 DEF Whole, Pending, Lost
  <1>6. CASE d.pending = r
    <2>1. /\ counter' = [counter EXCEPT ![z][t].pending = NoRow]
          /\ lost' = IF d.seq = n THEN lost
                     ELSE lost \cup {[year |-> z, series |-> t, seq |-> d.seq]}
      BY <1>2, <1>4, <1>6 DEF FreeSeries
    <2>2. CASE ~(y = z /\ s = t)
      <3>1. counter'[y][s] = counter[y][s]
        BY <2>1, <2>2 DEF IInv, World
      <3>2. Lost(y, s)' = Lost(y, s)
        BY <2>1, <2>2 DEF Lost
      <3> QED
        BY <1>3, <3>1, <3>2 DEF Whole, Pending
    <2>3. CASE y = z /\ s = t
      <3>1. c = d /\ counter'[y][s] = [c EXCEPT !.pending = NoRow]
        BY <1>4, <2>1, <2>3 DEF IInv, World
      <3>2. /\ counter'[y][s].seq = c.seq
            /\ Pending(counter'[y][s]) = {} /\ Pending(c) = {c.seq}
        BY <1>2, <1>6, <3>1 DEF Counter, Pending
      <3>3. /\ Lost(y, s) \subseteq 1..c.seq
            /\ Numbers(y, s) \cup {c.seq} = (1..c.seq) \ Lost(y, s)
        BY <1>3, <1>4, <3>2 DEF Whole
      <3>4. CASE c.seq = n
        <4>1. Lost(y, s)' = Lost(y, s)
          BY <2>1, <3>1, <3>4 DEF Lost
        <4>2. c.seq \in Numbers(y, s)
          BY <1>2, <2>3, <3>4, NumberIs
        <4> QED
          BY <1>3, <3>2, <3>3, <4>1, <4>2 DEF Whole
      <3>5. CASE c.seq # n
        <4>1. c.seq \in 1..MaxSeq
          BY <1>2, <1>4, <1>6, <3>1, BoundAssumption DEF IInv, Books, CounterOK, Counter
        <4>2. Lost(y, s)' = Lost(y, s) \cup {c.seq}
          BY <2>1, <2>3, <3>1, <3>5, <4>1 DEF Lost
        <4>3. c.seq \notin Numbers(y, s)
          <5>1. SUFFICES ASSUME c.seq \in Numbers(y, s) PROVE FALSE
            OBVIOUS
          <5>2. c.pending = r /\ c.pending # NoRow
            BY <1>2, <1>6, <3>1
          <5>3. row[r] = [state |-> "issued", year |-> y, seq |-> c.seq]
            BY <1>4, <5>1, <5>2, HeldIsNew
          <5> QED
            BY <1>2, <3>5, <5>3
        <4>4. c.seq \in 1..c.seq
          BY <3>3
        <4> QED
          BY <1>3, <3>2, <3>3, <4>2, <4>3, <4>4 DEF Whole
      <3> QED
        BY <3>4, <3>5
    <2> QED
      BY <2>2, <2>3
  <1> QED
    BY <1>5, <1>6

\* A number that is given back is on no row.
LEMMA GiveBackWhole ==
    ASSUME IInv, AllWhole, NEW w \in Worker, GiveBack(w), NEW y \in Year, NEW s \in Series
    PROVE  Whole(y, s)'
  <1>1. work[w].pc = "giveback" /\ UNCHANGED <<row, lost>>
    BY DEF GiveBack, At
  <1>2. PICK r \in Row, z \in Year, t \in Series, n \in 1..MaxSeq :
            /\ r = work[w].for /\ z = work[w].year /\ t = SeriesOf(r) /\ r # NoRow
            /\ n = work[w].seq
            /\ row[r] # [state |-> "issued", year |-> z, seq |-> n]
    BY <1>1, FinalizingIs, AttemptIs DEF Finalizing, AttemptOK, NumberOK
  <1>3. Whole(y, s) /\ Numbers(y, s)' = Numbers(y, s) /\ Lost(y, s)' = Lost(y, s)
    BY <1>1 DEF AllWhole, Numbers, Lost
  <1>4. CASE counter'[y][s] = counter[y][s]
    BY <1>3, <1>4 DEF Whole, Pending
  <1>5. CASE counter'[y][s] # counter[y][s]
    <2>1. PICK c \in Counter : c = counter[y][s]
      BY DEF IInv, World
    <2>2. /\ y = z /\ s = t /\ c = [seq |-> n, pending |-> r]
          /\ counter'[y][s] = [seq |-> n - 1, pending |-> NoRow]
      BY <1>2, <1>5, <2>1 DEF GiveBack, Held, SeqBack, IInv, World
    <2>3. c.seq = n /\ c.pending = r /\ n \notin Numbers(y, s)
      BY <1>2, <2>1, <2>2, HeldIsNew
    <2>4. /\ Numbers(y, s) \cup {n} = (1..n) \ Lost(y, s)
          /\ Lost(y, s) \subseteq 1..n
      BY <1>2, <1>3, <2>1, <2>3 DEF Whole, Pending
    <2>5. n \in Nat /\ n > 0
      BY <1>2, BoundAssumption
    <2>6. 1..(n - 1) = (1..n) \ {n}
      BY <2>5
    <2>7. n \notin Lost(y, s)
      BY <2>4
    <2>8. /\ Numbers(y, s) = (1..(n - 1)) \ Lost(y, s)
          /\ Lost(y, s) \subseteq 1..(n - 1)
      BY <2>3, <2>4, <2>6, <2>7
    <2>9. Pending(counter'[y][s]) = {} /\ counter'[y][s].seq = n - 1
      BY <2>2 DEF Pending
    <2> QED
      BY <1>3, <2>8, <2>9 DEF Whole
  <1> QED
    BY <1>4, <1>5

LEMMA AllocateWhole ==
    ASSUME IInv, AllWhole, NEW w \in Worker, Allocate(w), NEW y \in Year, NEW s \in Series
    PROVE  Whole(y, s)'
  <1>1. PICK r \in Row, z \in Year, t \in Series :
            r = work[w].row /\ z = work[w].year /\ t = SeriesOf(r) /\ r # NoRow
    BY AttemptIs, SeriesOfRow, RowAssumption DEF Allocate, At, AttemptOK, LocalsOK
  <1>2. UNCHANGED <<row, lost>>
    BY DEF Allocate
  <1>3. Whole(y, s) /\ Numbers(y, s)' = Numbers(y, s) /\ Lost(y, s)' = Lost(y, s)
    BY <1>2 DEF AllWhole, Numbers, Lost
  <1>4. CASE counter'[y][s] = counter[y][s]
    BY <1>3, <1>4 DEF Whole, Pending
  <1>5. CASE counter'[y][s] # counter[y][s]
    <2>1. PICK c \in Counter : c = counter[y][s]
      BY DEF IInv, World
    <2>2. /\ y = z /\ s = t /\ c.pending = NoRow
          /\ counter'[y][s] = [seq |-> c.seq + 1, pending |-> r]
      BY <1>1, <1>5, <2>1 DEF Allocate, MyRow, Available, IInv, World
    <2>3. /\ Numbers(y, s) = (1..c.seq) \ Lost(y, s)
          /\ Lost(y, s) \subseteq 1..c.seq
      BY <1>3, <2>1, <2>2 DEF Whole, Pending
    <2>4. c.seq \in Nat
      BY <2>1, BoundAssumption DEF Counter
    <2>5. (1..c.seq) \cup {c.seq + 1} = 1..(c.seq + 1) /\ c.seq + 1 \notin 1..c.seq
      BY <2>4
    <2>6. Pending(counter'[y][s]) = {c.seq + 1} /\ counter'[y][s].seq = c.seq + 1
      BY <1>1, <2>2 DEF Pending
    <2>7. /\ Numbers(y, s) \cup {c.seq + 1} = (1..(c.seq + 1)) \ Lost(y, s)
          /\ Lost(y, s) \subseteq 1..(c.seq + 1)
      BY <2>3, <2>5
    <2> QED
      BY <1>3, <2>6, <2>7 DEF Whole
  <1> QED
    BY <1>4, <1>5

\* The number written is the one the series holds.
LEMMA WriteWhole ==
    ASSUME IInv, AllWhole, NEW w \in Worker, Write(w), NEW y \in Year, NEW s \in Series
    PROVE  Whole(y, s)'
  <1>1. work[w].pc = "write" /\ UNCHANGED <<counter, lost>>
    BY DEF Write, At
  <1>2. PICK r \in Row, z \in Year, n \in 1..MaxSeq :
            /\ r = work[w].for /\ z = work[w].year /\ n = work[w].seq /\ r # NoRow
            /\ row[r].state = "issuing" => Holds(r, z, n)
    BY <1>1, FinalizingIs, AttemptIs DEF Finalizing, AttemptOK, NumberOK
  <1>3. Whole(y, s) /\ Lost(y, s)' = Lost(y, s)
    BY <1>1 DEF AllWhole, Lost
  <1>4. CASE row' = row
    <2>1. Numbers(y, s)' = Numbers(y, s)
      BY <1>4 DEF Numbers
    <2> QED
      BY <1>1, <1>3, <2>1 DEF Whole, Pending
  <1>5. CASE row' # row
    <2>1. /\ row[r].state = "issuing"
          /\ row' = [row EXCEPT ![r] = [state |-> "issued", year |-> z, seq |-> n]]
      BY <1>2, <1>5 DEF Write, MyNumber
    <2>2. row'[r] = [state |-> "issued", year |-> z, seq |-> n]
          /\ \A x \in Row : x # r => row'[x] = row[x]
      BY <2>1 DEF IInv, World
    <2>3. Numbers(y, s)' = Numbers(y, s) \cup (IF y = z /\ s = SeriesOf(r) THEN {n} ELSE {})
      <3>1. \A m : m \in Numbers(y, s)' <=>
                 \E x \in Row : /\ SeriesOf(x) = s /\ row'[x].state = "issued"
                                /\ row'[x].year = y /\ row'[x].seq = m
        BY DEF Numbers
      <3>2. ASSUME NEW m
            PROVE  m \in Numbers(y, s)' <=> m \in Numbers(y, s) \/ (y = z /\ s = SeriesOf(r) /\ m = n)
        BY <2>1, <2>2, <3>1, NumberIs
      <3> QED
        BY <3>2
    <2>4. y = z /\ s = SeriesOf(r) => Pending(counter[y][s]) = {n}
      BY <1>2, <2>1 DEF Holds, Pending
    <2> QED
      BY <1>1, <1>3, <2>3, <2>4 DEF Whole, Pending
  <1> QED
    BY <1>4, <1>5

\* Every other step leaves the numbers and the counters as they are.
LEMMA OtherWhole ==
    ASSUME IInv, AllWhole, Next, UNCHANGED <<counter, lost>>,
           \A r \in Row : row'[r].state = "issued" => row[r].state = "issued",
           NEW y \in Year, NEW s \in Series
    PROVE  Whole(y, s)'
  <1>1. \A r \in Row : row[r].state = "issued" => row'[r] = row[r]
    BY RowStays
  <1>2. \A m : m \in Numbers(y, s)' <=>
             \E x \in Row : /\ SeriesOf(x) = s /\ row'[x].state = "issued"
                            /\ row'[x].year = y /\ row'[x].seq = m
    BY DEF Numbers
  <1>3. ASSUME NEW m PROVE m \in Numbers(y, s)' <=> m \in Numbers(y, s)
    BY <1>1, <1>2, NumberIs
  <1>4. Numbers(y, s)' = Numbers(y, s)
    BY <1>3
  <1> QED
    BY <1>4 DEF AllWhole, Whole, Pending, Lost

LEMMA WholeIs == AllWhole => NoGap
  BY DEF AllWhole, NoGap, Whole, Pending

\* Issued rows come from Write alone, and counters change in three steps.
LEMMA NumberSteps ==
    ASSUME IInv, Next,
           \A w \in Worker : ~(Write(w) \/ Allocate(w) \/ FreeSeries(w) \/ GiveBack(w))
    PROVE  UNCHANGED counter /\ \A r \in Row : row'[r].state = "issued" => row[r].state = "issued"
  <1>1. ASSUME NEW w \in Worker, Record(w) \/ RecordNote(w) \/ Drop(w), NEW r \in Row,
               row'[r].state = "issued"
        PROVE  row[r].state = "issued"
    <2>1. Recorded.state # "issued"
      BY DEF Recorded, NoDocument
    <2>2. row[r] \in Document /\ row \in [Row -> Document]
      BY DEF IInv, World
    <2>3. CASE Record(w) \/ RecordNote(w)
      BY <1>1, <2>1, <2>2, <2>3 DEF Record, RecordNote, MyRow
    <2>4. CASE Drop(w)
      BY <1>1, <2>2, <2>4 DEF Drop, MyRow, Document
    <2> QED
      BY <1>1, <2>3, <2>4
  <1>2. ASSUME NEW w \in Worker, Step(w), ~(Record(w) \/ RecordNote(w) \/ Drop(w))
        PROVE  UNCHANGED row
    BY <1>2 DEF Step, FindOriginal, ReadPrior, AlreadyCounted, FindHeld, ReadRow, Check, Busy,
       Recheck, ReadContent, Used, SeedCap, Count, Reads
  <1>3. ASSUME NEW w \in Worker, Step(w)
        PROVE  UNCHANGED counter
    BY <1>3 DEF Step, Record, RecordNote, Drop, FindOriginal, ReadPrior, AlreadyCounted, FindHeld,
       ReadRow, Check, Busy, Recheck, ReadContent, Used, SeedCap, Count, Reads
  <1>4. ASSUME NEW w \in Worker, Deliver(w) \/ Fail(w)
        PROVE  UNCHANGED <<row, counter>>
    BY <1>4 DEF Deliver, Fail
  <1>5. ASSUME NewYear \/ Configure \/ \E r \in Row : SweepRow(r)
        PROVE  UNCHANGED <<row, counter>>
    BY <1>5 DEF NewYear, Configure, SweepRow, Reads
  <1> QED
    BY <1>1, <1>2, <1>3, <1>4, <1>5 DEF Next

LEMMA WholeStep ==
    ASSUME IInv, AllWhole, [Next]_vars
    PROVE  AllWhole'
  <1>1. CASE UNCHANGED vars
    BY <1>1 DEF AllWhole, Whole, Pending, Numbers, Lost, vars
  <1>2. ASSUME Next, NEW y \in Year, NEW s \in Series
        PROVE  Whole(y, s)'
    <2>1. ASSUME NEW w \in Worker, Write(w) \/ Allocate(w) \/ FreeSeries(w) \/ GiveBack(w)
          PROVE  Whole(y, s)'
      BY <2>1, WriteWhole, AllocateWhole, FreeWhole, GiveBackWhole
    <2> QED
      BY <1>2, <2>1, NumberSteps, LostKept, OtherWhole
  <1>3. CASE Next
    <2>1. \A y \in Year, s \in Series : Whole(y, s)'
      BY <1>2, <1>3
    <2> QED
      BY <2>1 DEF AllWhole
  <1> QED
    BY <1>1, <1>3

LEMMA WholeInit == Init => AllWhole
  <1> SUFFICES ASSUME Init, NEW y \in Year, NEW s \in Series PROVE Whole(y, s)
    BY DEF AllWhole
  <1>1. counter[y][s].seq = 0 /\ counter[y][s].pending = NoRow
    BY DEF Init
  <1>2. \A r \in Row : row[r].state # "issued"
    BY DEF Init, Recorded, NoDocument
  <1>3. Numbers(y, s) = {}
    BY <1>2 DEF Numbers
  <1>4. Lost(y, s) = {}
    BY DEF Init, Lost
  <1> QED
    BY <1>1, <1>3, <1>4 DEF Whole, Pending

-----------------------------------------------------------------------------
(* The book that numbering promises.                                         *)

Line(r) == [row |-> r, year |-> row[r].year, seq |-> row[r].seq]

Book == {Line(r) : r \in {q \in Row : row[q].state = "issued"}}

LEMMA BookCounts == \A S : Promise!Cardinality(S) = Cardinality(S)
  BY DEF Promise!Cardinality, Cardinality

LEMMA BookIn == \A q : Promise!In(q) <=> q \in Row /\ row[q].state = "issued"
  <1>1. \A q : Promise!In(q) <=> \E e \in Book : e.row = q
    BY DEF Promise!In, Book, Line
  <1>2. \A r : Line(r).row = r
    BY DEF Line
  <1>3. \A q : q \in Row /\ row[q].state = "issued" => Line(q) \in Book
    BY DEF Book
  <1>4. \A e \in Book : \E r \in Row : row[r].state = "issued" /\ e = Line(r)
    BY DEF Book
  <1> QED
    BY <1>1, <1>2, <1>3, <1>4

\* The book and the lost numbers, when the number a series holds is on no row yet.
LEMMA NextNumber ==
    ASSUME IInv, AllWhole, NEW y \in Year, NEW s \in Series, NEW c \in Counter,
           c = counter[y][s], c.pending # NoRow, c.seq \notin Numbers(y, s)
    PROVE  Promise!NextIn(y, s) = c.seq
  <1> DEFINE n == c.seq
  <1>1. n \in 0..MaxSeq /\ n \in Nat
    BY BoundAssumption DEF Counter
  <1>2. /\ Lost(y, s) \subseteq 1..n
        /\ Numbers(y, s) \cup {n} = (1..n) \ Lost(y, s)
    BY DEF AllWhole, Whole, Pending
  <1>3. n \in 1..n /\ n \notin Lost(y, s) /\ n - 1 \in Nat
    BY <1>1, <1>2
  <1>4. 1..(n - 1) = (1..n) \ {n}
    BY <1>1, <1>3
  <1>5. Numbers(y, s) \cup Lost(y, s) = 1..(n - 1)
    BY <1>2, <1>3, <1>4
  <1>6. \A m : m \in Numbers(y, s) <=>
             \E e \in Book : e.year = y /\ Promise!SeriesOf(e.row) = s /\ e.seq = m
    <2>1. ASSUME NEW m, NEW e \in Book, e.year = y, Promise!SeriesOf(e.row) = s, e.seq = m
          PROVE  m \in Numbers(y, s)
      BY <2>1, NumberIs DEF Book, Line, Promise!SeriesOf, SeriesOf
    <2>2. ASSUME NEW m \in Numbers(y, s)
          PROVE  \E e \in Book : e.year = y /\ Promise!SeriesOf(e.row) = s /\ e.seq = m
      <3>1. PICK x \in Row : /\ SeriesOf(x) = s /\ row[x].state = "issued"
                             /\ row[x].year = y /\ row[x].seq = m
        BY NumberIs
      <3>2. Line(x) \in Book /\ Line(x).year = y /\ Line(x).row = x /\ Line(x).seq = m
        BY <3>1 DEF Book, Line
      <3> QED
        BY <3>1, <3>2 DEF Promise!SeriesOf, SeriesOf
    <2> QED
      BY <2>1, <2>2
  <1>7. \A m : m \in Lost(y, s) <=> \E e \in lost : e.year = y /\ e.series = s /\ e.seq = m
    <2>1. ASSUME NEW e \in lost
          PROVE  e.seq \in 1..MaxSeq /\ e = [year |-> e.year, series |-> e.series, seq |-> e.seq]
      BY DEF IInv, Rest, LostTyped
    <2> QED
      BY <2>1 DEF Lost
  <1>8. Promise!Gone(y, s) = 1..(n - 1)
    <2>1. ASSUME NEW m
          PROVE  m \in Promise!Gone(y, s) <=> m \in Numbers(y, s) \/ m \in Lost(y, s)
      <3>1. m \in Promise!Gone(y, s)
              <=> \/ \E e \in Book : e.year = y /\ Promise!SeriesOf(e.row) = s /\ e.seq = m
                  \/ \E e \in lost : e.year = y /\ e.series = s /\ e.seq = m
        BY DEF Promise!Gone, Book, Line
      <3> QED
        BY <1>6, <1>7, <3>1
    <2> QED
      BY <1>5, <2>1
  <1>9. Cardinality(1..(n - 1)) = n - 1
    BY <1>3, FS_Interval
  <1> QED
    BY <1>1, <1>8, <1>9, BookCounts DEF Promise!NextIn

\* The write of a number is the next entry of its series and year.
LEMMA BookWrite ==
    ASSUME IInv, AllWhole, NEW w \in Worker, Write(w), row' # row
    PROVE  Promise!Next
  <1>1. work[w].pc = "write"
    BY DEF Write, At
  <1>2. PICK r \in Row, y \in Year, n \in 1..MaxSeq :
            /\ r = work[w].for /\ y = work[w].year /\ n = work[w].seq
            /\ row[r].state = "issuing" => Holds(r, y, n)
            /\ InvoiceIssued(r)
    BY <1>1, FinalizingIs, AttemptIs DEF Finalizing, AttemptOK, NumberOK
  <1>3. /\ row[r].state = "issuing"
        /\ row' = [row EXCEPT ![r] = [state |-> "issued", year |-> y, seq |-> n]]
    BY <1>2 DEF Write, MyNumber
  <1>4. row'[r] = [state |-> "issued", year |-> y, seq |-> n]
        /\ \A x \in Row : x # r => row'[x] = row[x]
    BY <1>3 DEF IInv, World
  <1>5. Book' = Book \cup {[row |-> r, year |-> y, seq |-> n]}
    <2>1. ASSUME NEW e
          PROVE  e \in Book' <=> e \in Book \/ e = [row |-> r, year |-> y, seq |-> n]
      BY <1>3, <1>4 DEF Book, Line
    <2> QED
      BY <2>1
  <1>6. Promise!NextIn(y, Promise!SeriesOf(r)) = n
    <2>1. PICK s \in Series, c \in Counter :
              s = SeriesOf(r) /\ s = Promise!SeriesOf(r) /\ c = counter[y][s]
      BY SeriesOfRow DEF IInv, World, Promise!SeriesOf, SeriesOf
    <2>2. c.pending = r /\ c.seq = n /\ r # NoRow
      BY <1>2, <1>3, <2>1, RowAssumption DEF Holds
    <2>3. c.seq \notin Numbers(y, s)
      <3>1. SUFFICES ASSUME c.seq \in Numbers(y, s) PROVE FALSE
        OBVIOUS
      <3>2. row[c.pending] = [state |-> "issued", year |-> y, seq |-> c.seq]
        BY <2>1, <2>2, <3>1, HeldIsNew
      <3> QED
        BY <1>3, <2>2, <3>2
    <2> QED
      BY <2>1, <2>2, <2>3, NextNumber
  <1>7. ~Promise!In(r) /\ (r \in Refund => Promise!In(Of[r]))
    BY <1>2, <1>3, BookIn, OfAssumption DEF InvoiceIssued, Row
  <1>8. Promise!Issue(r, y)
    <2>1. Book' = Book \cup {[row |-> r, year |-> y, seq |-> Promise!NextIn(y, Promise!SeriesOf(r))]}
      BY <1>5, <1>6
    <2>2. UNCHANGED lost
      BY DEF Write
    <2> QED
      BY <1>7, <2>1, <2>2 DEF Promise!Issue, Book, Line
  <1> QED
    BY <1>8 DEF Promise!Next, Row

\* A number is lost in its turn.
LEMMA BookLose ==
    ASSUME IInv, AllWhole, NEW w \in Worker, FreeSeries(w), lost' # lost
    PROVE  Promise!Next
  <1>1. PICK r \in Row, y \in Year, s \in Series, n \in 1..MaxSeq :
            /\ r = work[w].for /\ y = work[w].year /\ s = SeriesOf(r) /\ r # NoRow
            /\ n = work[w].seq
            /\ row[r] = [state |-> "issued", year |-> y, seq |-> n]
    BY FinalizingIs, AttemptIs DEF FreeSeries, At, Finalizing, AttemptOK, NumberOK
  <1>2. PICK c \in Counter : c = counter[y][s]
    BY DEF IInv, World
  <1>3. /\ c.pending = r /\ c.seq # n
        /\ lost' = lost \cup {[year |-> y, series |-> s, seq |-> c.seq]}
    BY <1>1, <1>2 DEF FreeSeries
  <1>4. c.seq \notin Numbers(y, s)
    <2>1. SUFFICES ASSUME c.seq \in Numbers(y, s) PROVE FALSE
      OBVIOUS
    <2>2. c.pending = r /\ c.pending # NoRow
      BY <1>1, <1>3
    <2>3. row[r] = [state |-> "issued", year |-> y, seq |-> c.seq]
      BY <1>2, <2>1, <2>2, HeldIsNew
    <2> QED
      BY <1>1, <1>3, <2>3
  <1>5. Promise!NextIn(y, s) = c.seq
    BY <1>1, <1>2, <1>3, <1>4, NextNumber
  <1>6. Book' = Book
    BY DEF FreeSeries, Book, Line
  <1>7. Promise!Lose(y, s)
    BY <1>3, <1>5, <1>6 DEF Promise!Lose, Book, Line
  <1> QED
    BY <1>7 DEF Promise!Next, Promise!Series, Series

LEMMA BookSame ==
    ASSUME IInv, Next, \A r \in Row : row'[r].state = "issued" => row[r].state = "issued"
    PROVE  UNCHANGED Book
  <1>1. \A r \in Row : row[r].state = "issued" => row'[r] = row[r]
    BY RowStays
  <1>2. ASSUME NEW e PROVE e \in Book' <=> e \in Book
    BY <1>1 DEF Book, Line
  <1> QED
    BY <1>2

LEMMA BookStep ==
    ASSUME IInv, AllWhole, [Next]_vars
    PROVE  Promise!Next \/ UNCHANGED <<Book, lost>>
  <1>1. CASE UNCHANGED vars
    BY <1>1 DEF vars, Book, Line
  <1>2. ASSUME Next, NEW w \in Worker, FreeSeries(w)
        PROVE  Promise!Next \/ UNCHANGED <<Book, lost>>
    <2>1. UNCHANGED Book
      BY <1>2 DEF FreeSeries, Book, Line
    <2> QED
      BY <1>2, <2>1, BookLose
  <1>3. ASSUME Next, NEW w \in Worker, Write(w) \/ Allocate(w) \/ GiveBack(w)
        PROVE  Promise!Next \/ UNCHANGED <<Book, lost>>
    <2>1. UNCHANGED lost
      BY <1>3 DEF Write, Allocate, GiveBack
    <2>2. CASE row' = row
      BY <2>1, <2>2 DEF Book, Line
    <2>3. CASE row' # row
      BY <1>3, <2>3, BookWrite DEF Allocate, GiveBack
    <2> QED
      BY <2>2, <2>3
  <1> QED
    BY <1>1, <1>2, <1>3, NumberSteps, BookSame, LostKept

-----------------------------------------------------------------------------
(* Theorems. *)

\* recordCreditNoteForRefund, invoice-sweep, finalizeAllocation: the inductive
\* invariant of the books, the caps and the attempts holds in every state.
THEOREM InvoiceInvariant == Spec => []IInv
  BY InitInv, NextInv, PTL DEF Spec

\* recordCreditNoteForRefund: refunds processed at the same time, repeated or
\* cut off are counted once each, and are together never credited for more than
\* the invoice.
THEOREM CreditStaysWithin == Spec => []CreditOK
  BY InvoiceInvariant, CreditInside, PTL

\* issueInvoiceNumber and finalizeAllocation: however many attempts allocate,
\* help and give back, no number is given to two rows.
THEOREM NumbersGivenOnce == Spec => []NoNumberTwice
  <1>1. IInv => NoNumberTwice
    BY DEF IInv, Books
  <1> QED
    BY <1>1, InvoiceInvariant, PTL

\* issueRow: a credit note has a number only once its invoice has one.
THEOREM CreditAfterInvoice == Spec => []CreditFollowsInvoice
  <1>1. IInv => CreditFollowsInvoice
    BY DEF IInv, Books, RowOK, InvoiceIssued, CreditFollowsInvoice, Row
  <1> QED
    BY <1>1, InvoiceInvariant, PTL

\* The conditional writes of recordInvoiceForPayment, dropPending and
\* finalizeAllocation: what is issued or dropped is never written again.
THEOREM IssuedIsFinal == Spec => FinalForGood
  <1>1. IInv /\ [Next]_vars
           => [\A r \in Row : row[r].state \in {"issued", "dropped"} => row'[r] = row[r]]_vars
    BY RowStays
  <1> QED
    BY <1>1, InvoiceInvariant, PTL DEF Spec, FinalForGood

\* InvoiceCounter, "no gaps": however many requests and sweeps are at work and whatever
\* fails or dies, a series' numbers are 1 to seq, save the one it holds for a row and
\* those it was holding when it was freed in the name of another number of their row.
THEOREM GapFree == Spec => []NoGap
  <1>1. Spec => []AllWhole
    <2>1. Init => AllWhole
      BY WholeInit
    <2>2. IInv /\ AllWhole /\ [Next]_vars => AllWhole'
      BY WholeStep
    <2> QED
      BY <2>1, <2>2, InvoiceInvariant, PTL DEF Spec
  <1> QED
    BY <1>1, WholeIs, PTL

\* issueInvoiceNumber and finalizeAllocation, however many are at work: each number
\* written, or lost, is the next of its series and year.
THEOREM BookKept == Spec => KeepsTheBook
  <1>1. Init => Promise!Init
    <2> SUFFICES ASSUME Init PROVE Promise!Init
      OBVIOUS
    <2>1. \A r \in Row : row[r].state # "issued"
      BY DEF Init, Recorded, NoDocument
    <2> QED
      BY <2>1 DEF Promise!Init, Init
  <1>2. IInv /\ AllWhole /\ [Next]_vars => [Promise!Next]_<<Book, lost>>
    BY BookStep
  <1>3. Spec => []AllWhole
    <2>1. Init => AllWhole
      BY WholeInit
    <2>2. IInv /\ AllWhole /\ [Next]_vars => AllWhole'
      BY WholeStep
    <2> QED
      BY <2>1, <2>2, InvoiceInvariant, PTL DEF Spec
  <1> QED
    BY <1>1, <1>2, <1>3, InvoiceInvariant, PTL DEF Spec, KeepsTheBook, Promise!Spec, Book, Line
==============================================================================
