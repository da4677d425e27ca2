-------------------------- MODULE DraftChargeProofs --------------------------
(***************************************************************************)
(* Proofs about the Ink account, InkHold, for every set of drafts and      *)
(* callers and any bounds: typing, the accounting of every bucket, the pin *)
(* that lets settleInk compute its refund from a hold it read earlier, and *)
(* the sweep; and about DraftCharge, for any number of requests, runs,     *)
(* faults, crashes and expiries: it implements InkHold, keeps the charge   *)
(* rule, charges one attempt of a run, and, of an attempt that was sent    *)
(* once, charges it once, charges only what was answered with done, and    *)
(* answers with done only what was charged as shown.                       *)
(***************************************************************************)
EXTENDS DraftCharge, WellFoundedInduction, TLAPS

-----------------------------------------------------------------------------
(* The Ink account. *)

\* The inductive invariant: typing, and what holds of each hold and call.

HoldOK(k) ==
    /\ Total(holds[k].split) = holds[k].units
    /\ holds[k].settleUnits <= holds[k].units
    /\ ~holds[k].open => holds[k].split = Zero
    /\ holds[k].expiresAt <= stamp[k]

\* A pin that matches names a hold no later write has touched.
CallOK(c) ==
    /\ call[c].step \notin {"idle", "next"} => call[c].key \in Key
    /\ call[c].step \in {"mark", "pull"} =>
          /\ call[c].hold.expiresAt <= stamp[call[c].key]
          /\ Pinned(call[c].key, call[c].hold) =>
                /\ holds[call[c].key].split = call[c].hold.split
                /\ holds[call[c].key].units = call[c].hold.units
    /\ call[c].step = "rows" => Within(call[c].rows, kept[call[c].key])

IInv ==
    /\ TypeOK
    /\ \A k \in Key : HoldOK(k)
    /\ \A c \in Caller : CallOK(c)
    /\ LedgerWithinKept

-----------------------------------------------------------------------------
(* Amounts. *)

\* Taking a number of units from an amount takes a part of it.
LEMMA TakeSplitPart ==
    ASSUME NEW a \in Amount, NEW u \in Nat
    PROVE  /\ TakeSplit(a, u) \in Amount
           /\ Within(TakeSplit(a, u), a)
           /\ Total(TakeSplit(a, u)) = Lesser(Total(a), u)
  BY DEF TakeSplit, Amount, Within, Total, Lesser

\* Sums and differences of amounts are amounts.
LEMMA AmountClosed ==
    ASSUME NEW a \in Amount, NEW b \in Amount
    PROVE  /\ Plus(a, b) \in Amount
           /\ Within(b, a) => Minus(a, b) \in Amount
           /\ Total(a) \in Nat
           /\ Zero \in Amount
  BY DEF Plus, Minus, Within, Total, Zero, Amount

\* A settle keeps a natural number of units.
LEMMA ChargedNat ==
    ASSUME NEW h \in Snapshot, NEW actual \in Nat \cup {Unset}
    PROVE  Charged(h, actual) \in Nat
  BY DEF Charged, Snapshot, Lesser, Unset

-----------------------------------------------------------------------------
(* What an action leaves of the invariant. *)

\* A call that returns goes to its loop or to rest; the other calls stay.
LEMMA ReturnEffect ==
    ASSUME TypeOK, NEW c \in Caller, NEW out \in Outcome, NEW units \in Nat,
           Return(c, out, units)
    PROVE  /\ call' \in [Caller -> Call]
           /\ call'[c].step \in {"idle", "next"}
           /\ \A d \in Caller \ {c} : call'[d] = call[d]
  <1>1. call[c] \in Call
    BY DEF TypeOK
  <1>2. Idle \in Call
    BY DEF Idle, Call, NoSnapshot, Snapshot, Zero, Amount, Step, Outcome, Unset
  <1>3. /\ [Idle EXCEPT !.step = "next", !.sweeping = TRUE, !.todo = call[c].todo] \in Call
        /\ [Idle EXCEPT !.out = out, !.units = units] \in Call
    BY <1>1, <1>2 DEF Idle, Call, Step
  <1> QED
    BY <1>3 DEF Return, TypeOK, Idle

\* A write that leaves the hold of k with its pin and its split.
Undisturbed(k) ==
    /\ holds'[k].open => holds[k].open
    /\ holds'[k].expiresAt = holds[k].expiresAt
    /\ holds'[k].split = holds[k].split
    /\ holds'[k].units = holds[k].units

LEMMA KeptFrame ==
    ASSUME TypeOK, kept' = kept
    PROVE  \A k \in Key : Within(kept[k], kept'[k])
  <1> SUFFICES ASSUME NEW k \in Key
               PROVE  Within(kept[k], kept[k])
    OBVIOUS
  <1>1. kept[k] \in Amount
    BY DEF TypeOK
  <1> QED
    BY <1>1 DEF Within, Amount

\* A caller that does not act keeps its part of the invariant, provided each
\* hold is closed, given a new expiresAt, or left with its split and pin.
LEMMA CallFrame ==
    ASSUME TypeOK, NEW c \in Caller, CallOK(c), call'[c] = call[c],
           \A k \in Key : stamp[k] <= stamp'[k],
           \A k \in Key : Within(kept[k], kept'[k]),
           stamp' \in [Key -> Nat], holds' \in [Key -> Hold], kept' \in [Key -> Amount],
           \A k \in Key :
              \/ ~holds'[k].open
              \/ holds'[k].expiresAt > stamp[k]
              \/ Undisturbed(k)
    PROVE  CallOK(c)'
  <1> DEFINE k == call[c].key
             h == call[c].hold
  <1>1. call[c] \in Call
    BY DEF TypeOK
  <1>2. h.expiresAt \in Nat /\ call[c].rows \in Amount
    BY <1>1 DEF Call, Snapshot
  <1>3. CASE call[c].step \in {"idle", "next"}
    BY <1>3 DEF CallOK
  <1>4. CASE call[c].step \in {"mark", "pull"}
    <2>1. k \in Key /\ h.expiresAt <= stamp[k] /\ h.expiresAt <= stamp'[k]
      BY <1>2, <1>4 DEF CallOK, TypeOK
    <2>2. ASSUME Pinned(k, h)'
          PROVE  holds'[k].split = h.split /\ holds'[k].units = h.units
      <3>1. holds'[k].open /\ holds'[k].expiresAt = h.expiresAt
        BY <2>2 DEF Pinned
      <3>2. stamp[k] \in Nat
        BY <2>1 DEF TypeOK
      <3>3. /\ holds[k].open /\ holds'[k].expiresAt = holds[k].expiresAt
            /\ holds'[k].split = holds[k].split /\ holds'[k].units = holds[k].units
        BY <1>2, <2>1, <3>1, <3>2 DEF Undisturbed
      <3> QED
        BY <1>4, <3>1, <3>3 DEF CallOK, Pinned
    <2> QED
      BY <1>4, <2>1, <2>2 DEF CallOK
  <1>5. CASE call[c].step = "rows"
    <2>1. k \in Key /\ Within(call[c].rows, kept[k])
      BY <1>5 DEF CallOK
    <2>2. Within(call[c].rows, kept'[k])
      <3>1. kept[k] \in Amount /\ kept'[k] \in Amount /\ Within(kept[k], kept'[k])
        BY <2>1 DEF TypeOK
      <3> QED
        BY <1>2, <2>1, <3>1 DEF Within, Amount
    <2> QED
      BY <1>5, <2>1, <2>2 DEF CallOK
  <1>6. CASE call[c].step \notin {"idle", "next", "mark", "pull", "rows"}
    BY <1>6 DEF CallOK
  <1> QED
    BY <1>3, <1>4, <1>5, <1>6

\* A write of one hold that keeps its shape and either closes it, gives it a new
\* expiresAt, or leaves its pin and split, disturbs no other hold and no other call.
LEMMA HoldWrite ==
    ASSUME IInv, NEW k \in Key, NEW h \in Hold, holds' = [holds EXCEPT ![k] = h],
           stamp' \in [Key -> Nat], \A j \in Key : stamp[j] <= stamp'[j],
           kept' \in [Key -> Amount], \A j \in Key : Within(kept[j], kept'[j]),
           Total(h.split) = h.units, h.settleUnits <= h.units,
           ~h.open => h.split = Zero, h.expiresAt <= stamp'[k],
           \/ ~h.open
           \/ h.expiresAt > stamp[k]
           \/ /\ holds[k].open
              /\ h.expiresAt = holds[k].expiresAt
              /\ h.split = holds[k].split
              /\ h.units = holds[k].units
    PROVE  /\ holds' \in [Key -> Hold]
           /\ \A j \in Key : HoldOK(j)'
           /\ \A c \in Caller : call'[c] = call[c] => CallOK(c)'
  <1>1. TypeOK
    BY DEF IInv
  <1>2. holds' \in [Key -> Hold] /\ holds'[k] = h
    BY <1>1 DEF TypeOK
  <1>3. \A j \in Key \ {k} : holds'[j] = holds[j]
    BY <1>1 DEF TypeOK
  <1>4. ASSUME NEW j \in Key
        PROVE  HoldOK(j)'
    <2>1. CASE j = k
      BY <1>2, <2>1 DEF HoldOK
    <2>2. CASE j # k
      <3>1. HoldOK(j) /\ holds'[j] = holds[j] /\ stamp[j] <= stamp'[j]
        BY <1>3, <2>2 DEF IInv
      <3>2. holds[j] \in Hold /\ stamp[j] \in Nat /\ stamp'[j] \in Nat
        BY <1>1 DEF TypeOK
      <3>3. holds[j].expiresAt \in Nat
        BY <3>2 DEF Hold
      <3> QED
        BY <3>1, <3>2, <3>3 DEF HoldOK
    <2> QED
      BY <2>1, <2>2
  <1>5. \A j \in Key :
           ~holds'[j].open \/ holds'[j].expiresAt > stamp[j] \/ Undisturbed(j)
    BY <1>2, <1>3 DEF Undisturbed
  <1>6. ASSUME NEW c \in Caller, call'[c] = call[c]
        PROVE  CallOK(c)'
    <2>1. CallOK(c)
      BY DEF IInv
    <2> QED
      BY <1>1, <1>2, <1>5, <1>6, <2>1, CallFrame
  <1> QED
    BY <1>2, <1>4, <1>6

\* The stamps of a step that gives at most key k a new one.
LEMMA StampFrame ==
    ASSUME TypeOK, NEW k \in Key, stamp' \in {stamp, [stamp EXCEPT ![k] = @ + 1]}
    PROVE  /\ stamp' \in [Key -> Nat]
           /\ \A j \in Key : stamp[j] <= stamp'[j]
  <1>1. \A j \in Key : stamp[j] \in Nat
    BY DEF TypeOK
  <1>2. CASE stamp' = stamp
    BY <1>1, <1>2 DEF TypeOK
  <1>3. CASE stamp' = [stamp EXCEPT ![k] = @ + 1]
    BY <1>1, <1>3 DEF TypeOK
  <1> QED
    BY <1>2, <1>3

-----------------------------------------------------------------------------
(* The single-write operations preserve the invariant. *)

LEMMA NewHoldTyped ==
    ASSUME NEW u \in Nat, NEW split \in Amount, NEW e \in Nat
    PROVE  /\ NewHold(u, split, e) \in Hold
           /\ NewHold(u, split, e).split = split
           /\ NewHold(u, split, e).units = u
           /\ NewHold(u, split, e).settleUnits <= u
           /\ NewHold(u, split, e).expiresAt = e
           /\ NewHold(u, split, e).open
  BY DEF NewHold, Hold, Unset

LEMMA NoHoldTyped == NoHold \in Hold /\ Total(NoHold.split) = NoHold.units
  BY DEF NoHold, Hold, Unset, Zero, Amount, Total

LEMMA HoldInkInv ==
    ASSUME IInv, NEW k \in Key, NEW u \in CostSet, HoldInk(k, u)
    PROVE  IInv'
  <1> DEFINE split == TakeSplit(ink, u)
             h == NewHold(u, split, FreshExpiry(k))
  <1>1. TypeOK /\ u \in Nat /\ ink \in Amount /\ stamp[k] \in Nat /\ Total(ink) >= u
    BY UnitsAssumption DEF IInv, TypeOK, HoldInk, MayHold
  <1>2. split \in Amount /\ Within(split, ink) /\ Total(split) = u
    <2>1. split \in Amount /\ Within(split, ink) /\ Total(split) = Lesser(Total(ink), u)
      BY <1>1, TakeSplitPart
    <2>2. Total(ink) \in Nat
      BY <1>1, AmountClosed
    <2> QED
      BY <1>1, <2>1, <2>2 DEF Lesser
  <1>3. ink' \in Amount
    BY <1>1, <1>2, AmountClosed DEF HoldInk
  <1>4. holds' = [holds EXCEPT ![k] = h]
    BY DEF HoldInk
  <1>5. FreshExpiry(k) = stamp[k] + 1 /\ stamp'[k] = stamp[k] + 1
    BY <1>1 DEF HoldInk, FreshExpiry, TypeOK
  <1>6. /\ h \in Hold
        /\ h.split = split /\ h.units = u /\ h.settleUnits <= h.units
        /\ h.expiresAt = stamp[k] + 1 /\ h.open
    <2> HIDE DEF split, h
    <2>1. u \in Nat /\ split \in Amount /\ FreshExpiry(k) \in Nat
      BY <1>1, <1>2, <1>5
    <2>2. h = NewHold(u, split, FreshExpiry(k))
      BY DEF h
    <2>3. /\ h \in Hold
          /\ h.split = split /\ h.units = u /\ h.settleUnits <= u
          /\ h.expiresAt = FreshExpiry(k) /\ h.open
      BY ONLY <2>1, <2>2, NewHoldTyped
    <2> QED
      BY <1>5, <2>3
  <1>7. /\ stamp' \in [Key -> Nat]
        /\ \A j \in Key : stamp[j] <= stamp'[j]
        /\ kept' \in [Key -> Amount]
        /\ \A j \in Key : Within(kept[j], kept'[j])
    BY <1>1, StampFrame, KeptFrame DEF HoldInk, TypeOK
  <1> HIDE DEF h, split
  <1>8. /\ holds' \in [Key -> Hold]
        /\ \A j \in Key : HoldOK(j)'
        /\ \A c \in Caller : call'[c] = call[c] => CallOK(c)'
    <2>1. /\ Total(h.split) = h.units
          /\ h.settleUnits <= h.units
          /\ ~h.open => h.split = Zero
          /\ h.expiresAt <= stamp'[k]
          /\ h.expiresAt > stamp[k]
      BY <1>1, <1>2, <1>5, <1>6
    <2> QED
      BY <1>4, <1>6, <1>7, <2>1, HoldWrite
  <1> QED
    BY <1>1, <1>3, <1>7, <1>8 DEF IInv, TypeOK, LedgerWithinKept, HoldInk

LEMMA ExtendInkHoldInv ==
    ASSUME IInv, NEW k \in Key, ExtendInkHold(k)
    PROVE  IInv'
  <1> DEFINE h == [holds[k] EXCEPT !.expiresAt = FreshExpiry(k), !.expired = FALSE]
  <1>1. TypeOK /\ holds[k] \in Hold /\ stamp[k] \in Nat /\ HoldOK(k) /\ holds[k].open
    BY DEF IInv, TypeOK, ExtendInkHold
  <1>2. holds' = [holds EXCEPT ![k] = h]
    BY <1>1 DEF ExtendInkHold, TypeOK
  <1>3. FreshExpiry(k) = stamp[k] + 1 /\ stamp'[k] = stamp[k] + 1
    BY <1>1 DEF ExtendInkHold, FreshExpiry, TypeOK
  <1>4. /\ h \in Hold
        /\ Total(h.split) = h.units
        /\ h.settleUnits <= h.units
        /\ ~h.open => h.split = Zero
        /\ h.expiresAt <= stamp'[k]
        /\ h.expiresAt > stamp[k]
    <2>1. FreshExpiry(k) \in Nat
      BY <1>1, <1>3
    <2>2. h \in Hold /\ h.open /\ h.expiresAt = FreshExpiry(k)
      BY <1>1, <2>1 DEF Hold
    <2>3. h.split = holds[k].split /\ h.units = holds[k].units
          /\ h.settleUnits = holds[k].settleUnits
      BY <1>1 DEF Hold
    <2> QED
      BY <1>1, <1>3, <2>2, <2>3 DEF HoldOK
  <1>5. /\ stamp' \in [Key -> Nat]
        /\ \A j \in Key : stamp[j] <= stamp'[j]
        /\ kept' \in [Key -> Amount]
        /\ \A j \in Key : Within(kept[j], kept'[j])
    BY <1>1, StampFrame, KeptFrame DEF ExtendInkHold, TypeOK
  <1> HIDE DEF h
  <1>6. /\ holds' \in [Key -> Hold]
        /\ \A j \in Key : HoldOK(j)'
        /\ \A c \in Caller : call'[c] = call[c] => CallOK(c)'
    BY <1>2, <1>4, <1>5, HoldWrite
  <1> QED
    BY <1>1, <1>5, <1>6 DEF IInv, TypeOK, LedgerWithinKept, ExtendInkHold

LEMMA SetHoldSettleUnitsInv ==
    ASSUME IInv, NEW k \in Key, NEW u \in FigureSet, SetHoldSettleUnits(k, u)
    PROVE  IInv'
  <1> DEFINE h == [holds[k] EXCEPT !.settleUnits = Lesser(u, holds[k].units)]
  <1>1. TypeOK /\ holds[k] \in Hold /\ HoldOK(k) /\ holds[k].open /\ u \in Nat
    BY UnitsAssumption DEF IInv, TypeOK, SetHoldSettleUnits
  <1>2. holds' = [holds EXCEPT ![k] = h] /\ stamp' = stamp
    BY <1>1 DEF SetHoldSettleUnits, TypeOK
  <1>3. /\ h \in Hold
        /\ Total(h.split) = h.units
        /\ h.settleUnits <= h.units
        /\ ~h.open => h.split = Zero
        /\ h.expiresAt <= stamp'[k]
        /\ h.expiresAt = holds[k].expiresAt
        /\ h.split = holds[k].split
        /\ h.units = holds[k].units
    BY <1>1, <1>2 DEF Hold, HoldOK, Lesser
  <1>4. /\ stamp' \in [Key -> Nat]
        /\ \A j \in Key : stamp[j] <= stamp'[j]
        /\ kept' \in [Key -> Amount]
        /\ \A j \in Key : Within(kept[j], kept'[j])
    BY <1>1, StampFrame, KeptFrame DEF SetHoldSettleUnits, TypeOK
  <1> HIDE DEF h
  <1>5. /\ holds' \in [Key -> Hold]
        /\ \A j \in Key : HoldOK(j)'
        /\ \A c \in Caller : call'[c] = call[c] => CallOK(c)'
    BY <1>1, <1>2, <1>3, <1>4, HoldWrite
  <1> QED
    BY <1>1, <1>4, <1>5 DEF IInv, TypeOK, LedgerWithinKept, SetHoldSettleUnits

LEMMA ExpireInv ==
    ASSUME IInv, NEW k \in Key, Expire(k)
    PROVE  IInv'
  <1> DEFINE h == [holds[k] EXCEPT !.expired = TRUE]
  <1>1. TypeOK /\ holds[k] \in Hold /\ HoldOK(k) /\ holds[k].open
    BY DEF IInv, TypeOK, Expire
  <1>2. holds' = [holds EXCEPT ![k] = h] /\ stamp' = stamp
    BY <1>1 DEF Expire, TypeOK
  <1>3. /\ h \in Hold
        /\ Total(h.split) = h.units
        /\ h.settleUnits <= h.units
        /\ ~h.open => h.split = Zero
        /\ h.expiresAt <= stamp'[k]
        /\ h.expiresAt = holds[k].expiresAt
        /\ h.split = holds[k].split
        /\ h.units = holds[k].units
    BY <1>1, <1>2 DEF Hold, HoldOK
  <1>4. /\ stamp' \in [Key -> Nat]
        /\ \A j \in Key : stamp[j] <= stamp'[j]
        /\ kept' \in [Key -> Amount]
        /\ \A j \in Key : Within(kept[j], kept'[j])
    BY <1>1, StampFrame, KeptFrame DEF Expire, TypeOK
  <1> HIDE DEF h
  <1>5. /\ holds' \in [Key -> Hold]
        /\ \A j \in Key : HoldOK(j)'
        /\ \A c \in Caller : call'[c] = call[c] => CallOK(c)'
    BY <1>1, <1>2, <1>3, <1>4, HoldWrite
  <1> QED
    BY <1>1, <1>4, <1>5 DEF IInv, TypeOK, LedgerWithinKept, Expire

\* A hold that goes, its split back on the balance.
LEMMA RefundWrite ==
    ASSUME IInv, NEW k \in Key, Refund(k), stamp' = stamp, kept' = kept
    PROVE  /\ ink' \in Amount
           /\ holds' \in [Key -> Hold]
           /\ \A j \in Key : HoldOK(j)'
           /\ \A c \in Caller : call'[c] = call[c] => CallOK(c)'
  <1>1. TypeOK /\ holds[k] \in Hold /\ HoldOK(k) /\ ink \in Amount /\ stamp[k] \in Nat
    BY DEF IInv, TypeOK
  <1>2. ink' \in Amount
    BY <1>1, AmountClosed DEF Refund, Hold
  <1>3. /\ NoHold.settleUnits <= NoHold.units
        /\ ~NoHold.open
        /\ NoHold.split = Zero
        /\ NoHold.expiresAt <= stamp'[k]
    BY <1>1 DEF NoHold, Unset
  <1>4. /\ stamp' \in [Key -> Nat]
        /\ \A j \in Key : stamp[j] <= stamp'[j]
        /\ kept' \in [Key -> Amount]
        /\ \A j \in Key : Within(kept[j], kept'[j])
    BY <1>1, StampFrame, KeptFrame DEF TypeOK
  <1> QED
    BY <1>2, <1>3, <1>4, NoHoldTyped, HoldWrite DEF Refund

LEMMA ReleaseInkInv ==
    ASSUME IInv, NEW k \in Key, ReleaseInk(k)
    PROVE  IInv'
  BY RefundWrite DEF IInv, TypeOK, LedgerWithinKept, ReleaseInk

\* The writes of the balance alone, and of the Generation rows.
LEMMA BalanceOnly ==
    ASSUME IInv, ink' \in Amount, generation' \in [Key -> {"none", "completed", "failed"}],
           UNCHANGED <<holds, stamp, inkSettled, ledger, call, kept>>
    PROVE  IInv'
  <1>1. \A k \in Key : HoldOK(k)'
    BY DEF IInv, HoldOK
  <1>2. \A c \in Caller : CallOK(c)'
    BY DEF IInv, CallOK, Pinned
  <1> QED
    BY <1>1, <1>2 DEF IInv, TypeOK, LedgerWithinKept

LEMMA RecordGenerationInv ==
    ASSUME IInv, NEW k \in Key, NEW status \in {"completed", "failed"},
           RecordGeneration(k, status)
    PROVE  IInv'
  <1>1. generation' \in [Key -> {"none", "completed", "failed"}]
    BY DEF IInv, TypeOK, RecordGeneration
  <1> QED
    BY <1>1, BalanceOnly DEF IInv, TypeOK, RecordGeneration

LEMMA OtherWriterInv ==
    ASSUME IInv, OtherWriter
    PROVE  IInv'
  <1>1. ink \in Amount
    BY DEF IInv, TypeOK
  <1>2. ASSUME NEW u \in CreditSet, GrantSubscriptionInk(u)
        PROVE  ink' \in Amount
    BY <1>1, <1>2, UnitsAssumption DEF GrantSubscriptionInk, Amount
  <1>3. ASSUME NEW u \in CreditSet, GrantTopupInk(u)
        PROVE  ink' \in Amount
    BY <1>1, <1>3, UnitsAssumption DEF GrantTopupInk, Amount
  <1>4. ASSUME NEW u \in CreditSet, ReverseRefundInk(u)
        PROVE  ink' \in Amount
    <2>1. u \in Nat
      BY UnitsAssumption
    <2> QED
      BY <1>1, <1>4, <2>1, TakeSplitPart, AmountClosed DEF ReverseRefundInk
  <1>5. ASSUME CancelSubscriptionInk
        PROVE  ink' \in Amount
    BY <1>1, <1>5 DEF CancelSubscriptionInk, Amount
  <1>6. ink' \in Amount
    BY <1>2, <1>3, <1>4, <1>5 DEF OtherWriter
  <1>7. UNCHANGED <<holds, stamp, inkSettled, ledger, generation, call, kept>>
    BY DEF OtherWriter, GrantSubscriptionInk, GrantTopupInk, ReverseRefundInk,
           CancelSubscriptionInk
  <1> QED
    BY <1>6, <1>7, BalanceOnly DEF IInv, TypeOK

-----------------------------------------------------------------------------
(* The calls preserve the invariant. *)

\* A step of caller c that only moves its call.
LEMMA CallOnly ==
    ASSUME IInv, NEW c \in Caller, call' \in [Caller -> Call], CallOK(c)',
           \A d \in Caller \ {c} : call'[d] = call[d],
           UNCHANGED <<ink, holds, stamp, inkSettled, ledger, generation, kept>>
    PROVE  IInv'
  <1>1. \A k \in Key : HoldOK(k)'
    BY DEF IInv, HoldOK
  <1>2. \A d \in Caller \ {c} : CallOK(d)'
    BY DEF IInv, CallOK, Pinned
  <1> QED
    BY <1>1, <1>2 DEF IInv, TypeOK, LedgerWithinKept

\* A call at rest, or between two holds, claims nothing.
LEMMA RestOK ==
    ASSUME NEW c \in Caller, call'[c].step \in {"idle", "next"}
    PROVE  CallOK(c)'
  BY DEF CallOK

LEMMA ReturnInv ==
    ASSUME IInv, NEW c \in Caller, NEW out \in Outcome, NEW units \in Nat,
           Return(c, out, units),
           UNCHANGED <<ink, holds, stamp, inkSettled, ledger, generation, kept>>
    PROVE  IInv'
  BY ReturnEffect, RestOK, CallOnly DEF IInv

LEMMA IdleTyped == Idle \in Call /\ Idle.step = "idle"
  BY DEF Idle, Call, NoSnapshot, Snapshot, Zero, Amount, Step, Outcome, Unset

LEMMA SettleBeginInv ==
    ASSUME IInv, NEW c \in Caller, NEW k \in Key, NEW a \in FigureSet \cup {Unset},
           SettleBegin(c, k, a)
    PROVE  IInv'
  <1> DEFINE r == [Idle EXCEPT !.step = "read", !.key = k, !.actual = a]
  <1>1. TypeOK /\ a \in Nat \cup {Unset}
    BY UnitsAssumption DEF IInv
  <1>2. r \in Call /\ r.step = "read" /\ r.key = k
    BY <1>1, IdleTyped DEF Call, Step
  <1>3. call' \in [Caller -> Call] /\ call'[c] = r
    BY <1>1, <1>2 DEF SettleBegin, TypeOK
  <1>4. CallOK(c)'
    BY <1>2, <1>3 DEF CallOK
  <1> QED
    BY <1>1, <1>3, <1>4, CallOnly DEF SettleBegin, TypeOK

LEMMA SettleReadInv ==
    ASSUME IInv, NEW c \in Caller, SettleRead(c)
    PROVE  IInv'
  <1> DEFINE k == call[c].key
             snap == [units |-> holds[k].units, split |-> holds[k].split,
                      expiresAt |-> holds[k].expiresAt,
                      settleUnits |-> holds[k].settleUnits]
             r == [call[c] EXCEPT !.step = "mark", !.hold = snap]
  <1>1. TypeOK /\ call[c] \in Call /\ k \in Key
    BY DEF IInv, TypeOK, CallOK, SettleRead
  <1>2. holds[k] \in Hold /\ HoldOK(k)
    BY <1>1 DEF IInv, TypeOK
  <1>3. CASE ~holds[k].open
    BY <1>3, ReturnInv DEF SettleRead, Outcome
  <1>4. CASE holds[k].open
    <2>1. call' = [call EXCEPT ![c] = r]
      BY <1>1, <1>4 DEF SettleRead, TypeOK
    <2>2. snap \in Snapshot
      BY <1>2 DEF Hold, Snapshot
    <2>3. r \in Call /\ r.step = "mark" /\ r.key = k /\ r.hold = snap
      BY <1>1, <2>2 DEF Call, Step
    <2>4. call' \in [Caller -> Call] /\ call'[c] = r
      BY <1>1, <2>1, <2>3 DEF TypeOK
    <2>5. /\ holds' = holds /\ stamp' = stamp
          /\ snap.expiresAt <= stamp[k]
          /\ snap.split = holds[k].split /\ snap.units = holds[k].units
      BY <1>2 DEF SettleRead, HoldOK
    <2>6. CallOK(c)'
      <3> HIDE DEF r, snap
      <3> QED
        BY <2>3, <2>4, <2>5, <1>1 DEF CallOK
    <2> QED
      BY <1>1, <2>1, <2>4, <2>6, CallOnly DEF SettleRead, TypeOK
  <1> QED
    BY <1>3, <1>4

LEMMA SettleMarkInv ==
    ASSUME IInv, NEW c \in Caller, SettleMark(c)
    PROVE  IInv'
  <1> DEFINE k == call[c].key
             actual == call[c].actual
             figure == IF actual = Unset THEN holds[k].settleUnits
                       ELSE Lesser(actual, call[c].hold.units)
             h == [holds[k] EXCEPT !.deliver = TRUE, !.settleUnits = figure]
             r == [call[c] EXCEPT !.step = "pull"]
  <1>1. /\ TypeOK /\ call[c] \in Call /\ CallOK(c) /\ call[c].step = "mark"
        /\ k \in Key
    BY DEF IInv, TypeOK, CallOK, SettleMark
  <1>2. holds[k] \in Hold /\ HoldOK(k)
    BY <1>1 DEF IInv, TypeOK
  <1>3. CASE ~Pinned(k, call[c].hold)
    BY <1>3, ReturnInv DEF SettleMark, Outcome
  <1>4. CASE Pinned(k, call[c].hold)
    <2>1. /\ holds[k].open /\ holds[k].units = call[c].hold.units
      BY <1>1, <1>4 DEF CallOK, Pinned
    <2>2. figure \in Nat \cup {Unset} /\ figure <= holds[k].units
      <3>1. holds[k].units \in Nat /\ actual \in Nat \cup {Unset}
        BY <1>1, <1>2 DEF Hold, Call
      <3>2. holds[k].settleUnits \in Nat \cup {Unset} /\ holds[k].settleUnits <= holds[k].units
        BY <1>2 DEF Hold, HoldOK
      <3> QED
        BY <2>1, <3>1, <3>2 DEF Lesser, Unset
    <2>3. holds' = [holds EXCEPT ![k] = h] /\ call' = [call EXCEPT ![c] = r]
      BY <1>1, <1>4 DEF SettleMark, TypeOK
    <2>4. /\ h \in Hold
          /\ Total(h.split) = h.units
          /\ h.settleUnits <= h.units
          /\ ~h.open => h.split = Zero
          /\ h.expiresAt <= stamp'[k]
          /\ h.expiresAt = holds[k].expiresAt
          /\ h.split = holds[k].split
          /\ h.units = holds[k].units
      <3> HIDE DEF figure
      <3> QED
        BY <1>2, <2>1, <2>2 DEF Hold, HoldOK, SettleMark
    <2>5. /\ stamp' \in [Key -> Nat]
          /\ \A j \in Key : stamp[j] <= stamp'[j]
          /\ kept' \in [Key -> Amount]
          /\ \A j \in Key : Within(kept[j], kept'[j])
      BY <1>1, StampFrame, KeptFrame DEF SettleMark, TypeOK
    <2>6. r \in Call /\ r.step = "pull" /\ r.key = k /\ r.hold = call[c].hold
      BY <1>1 DEF Call, Step
    <2> HIDE DEF h, r
    <2>7. /\ holds' \in [Key -> Hold]
          /\ \A j \in Key : HoldOK(j)'
          /\ \A d \in Caller : call'[d] = call[d] => CallOK(d)'
      BY <1>1, <2>1, <2>3, <2>4, <2>5, HoldWrite
    <2>8. /\ call' \in [Caller -> Call] /\ call'[c] = r
          /\ \A d \in Caller \ {c} : call'[d] = call[d]
      BY <1>1, <2>3, <2>6 DEF TypeOK
    <2>9. CallOK(c)'
      <3>1. holds'[k] = h /\ stamp' = stamp
        BY <1>1, <2>3 DEF SettleMark, TypeOK
      <3>2. call[c].hold.expiresAt <= stamp[k]
        BY <1>1 DEF CallOK
      <3>3. h.split = call[c].hold.split /\ h.units = call[c].hold.units
        BY <1>1, <1>4, <2>4 DEF CallOK
      <3> QED
        BY <1>1, <2>6, <2>8, <3>1, <3>2, <3>3 DEF CallOK
    <2> QED
      BY <1>1, <2>5, <2>7, <2>8, <2>9 DEF IInv, TypeOK, LedgerWithinKept, SettleMark
  <1> QED
    BY <1>3, <1>4

\* The list of settled keys stays a list of keys, and no longer than its cap.
LEMMA PushSettledTyped ==
    ASSUME NEW s \in Seq(Key), Len(s) <= SettledKeep, NEW k \in Key
    PROVE  PushSettled(s, k) \in Seq(Key) /\ Len(PushSettled(s, k)) <= SettledKeep
  <1>1. SettledKeep \in Nat \ {0} /\ Len(s) \in Nat
    BY KeepAssumption
  <1>2. CASE Len(s) < SettledKeep
    BY <1>1, <1>2 DEF PushSettled
  <1>3. CASE ~(Len(s) < SettledKeep)
    <2>1. s # <<>> /\ Len(s) = SettledKeep
      BY <1>1, <1>3
    <2>2. Tail(s) \in Seq(Key) /\ Len(Tail(s)) = Len(s) - 1
      BY <2>1
    <2> QED
      BY <1>1, <1>3, <2>1, <2>2 DEF PushSettled
  <1> QED
    BY <1>2, <1>3

\* What a settle keeps and gives back, of the hold it read.
LEMMA PullParts ==
    ASSUME NEW h \in Snapshot, NEW a \in Nat \cup {Unset}
    PROVE  LET part == TakeSplit(h.split, Charged(h, a))
           IN  /\ part \in Amount
               /\ Within(part, h.split)
               /\ Minus(h.split, part) \in Amount
  <1>1. h.split \in Amount /\ Charged(h, a) \in Nat
    BY ChargedNat DEF Snapshot
  <1> QED
    BY <1>1, TakeSplitPart, AmountClosed

LEMMA SettlePullInv ==
    ASSUME IInv, NEW c \in Caller, SettlePull(c)
    PROVE  IInv'
  <1> DEFINE k == call[c].key
             h == call[c].hold
             part == TakeSplit(h.split, Charged(h, call[c].actual))
             r == [call[c] EXCEPT !.step = "rows", !.rows = part, !.units = Total(part)]
  <1>1. /\ TypeOK /\ call[c] \in Call /\ call[c].step = "pull" /\ k \in Key
        /\ ink \in Amount /\ kept[k] \in Amount
    BY DEF IInv, TypeOK, CallOK, SettlePull
  <1>2. part \in Amount /\ Minus(h.split, part) \in Amount /\ Total(part) \in Nat
    <2>1. h \in Snapshot /\ call[c].actual \in Nat \cup {Unset}
      BY <1>1 DEF Call
    <2> QED
      BY <2>1, PullParts, AmountClosed
  <1>3. CASE ~Pinned(k, h)
    BY <1>3, ReturnInv DEF SettlePull, PullMissed, Outcome
  <1>4. CASE Pinned(k, h)
    <2>1. /\ ink' = Plus(ink, Minus(h.split, part))
          /\ holds' = [holds EXCEPT ![k] = NoHold]
          /\ inkSettled' = PushSettled(inkSettled, k)
          /\ kept' = [kept EXCEPT ![k] = Plus(@, part)]
          /\ UNCHANGED <<stamp, ledger, generation>>
      BY <1>4 DEF SettlePull
    <2>2. ink' \in Amount
      BY <1>1, <1>2, <2>1, AmountClosed
    <2>3. inkSettled' \in Seq(Key) /\ Len(inkSettled') <= SettledKeep
      BY <1>1, <2>1, PushSettledTyped DEF TypeOK
    <2>4. /\ kept' \in [Key -> Amount]
          /\ kept'[k] = Plus(kept[k], part)
          /\ \A j \in Key \ {k} : kept'[j] = kept[j]
      BY <1>1, <1>2, <2>1, AmountClosed DEF TypeOK
    <2>5. \A j \in Key : Within(kept[j], kept'[j])
      <3>1. Within(kept[k], kept'[k]) /\ Within(part, kept'[k])
        <4> HIDE DEF part
        <4> QED
          BY <1>1, <1>2, <2>4 DEF Within, Plus, Amount
      <3>2. ASSUME NEW j \in Key \ {k}
            PROVE  Within(kept[j], kept'[j])
        <4>1. kept[j] \in Amount /\ kept'[j] = kept[j]
          BY <1>1, <2>4 DEF TypeOK
        <4> QED
          BY <4>1 DEF Within, Amount
      <3> QED
        BY <3>1, <3>2
    <2>6. Within(part, kept'[k])
      <3> HIDE DEF part
      <3> QED
        BY <1>1, <1>2, <2>4 DEF Within, Plus, Amount
    <2>7. /\ holds' \in [Key -> Hold]
          /\ \A j \in Key : HoldOK(j)'
          /\ \A d \in Caller : call'[d] = call[d] => CallOK(d)'
      <3>1. /\ NoHold.settleUnits <= NoHold.units /\ ~NoHold.open
            /\ NoHold.split = Zero /\ NoHold.expiresAt <= stamp'[k]
        <4>1. stamp'[k] \in Nat
          BY <1>1, <2>1 DEF TypeOK
        <4> QED
          BY <4>1 DEF NoHold, Unset
      <3>2. stamp' \in [Key -> Nat] /\ \A j \in Key : stamp[j] <= stamp'[j]
        BY <1>1, <2>1, StampFrame
      <3> QED
        BY <1>1, <2>1, <2>4, <2>5, <3>1, <3>2, NoHoldTyped, HoldWrite
    <2>8. /\ call' \in [Caller -> Call]
          /\ \A d \in Caller \ {c} : call'[d] = call[d]
          /\ CallOK(c)'
      <3>1. CASE Return(c, "settled", 0)
        BY <1>1, <3>1, ReturnEffect, RestOK DEF Outcome
      <3>2. CASE call' = [call EXCEPT ![c] = r]
        <4>1. r \in Call /\ r.step = "rows" /\ r.key = k /\ r.rows = part
          <5> HIDE DEF part
          <5> QED
            BY <1>1, <1>2 DEF Call, Step
        <4> HIDE DEF r, part
        <4>2. call' \in [Caller -> Call] /\ call'[c] = r
          BY <1>1, <3>2, <4>1 DEF TypeOK
        <4>3. CallOK(c)'
          BY <1>1, <2>6, <4>1, <4>2 DEF CallOK
        <4> QED
          BY <1>1, <3>2, <4>2, <4>3 DEF TypeOK
      <3>3. \/ Return(c, "settled", 0)
            \/ call' = [call EXCEPT ![c] = r]
        BY <1>1, <1>4 DEF SettlePull, TypeOK
      <3> QED
        BY <3>1, <3>2, <3>3
    <2>9. LedgerWithinKept'
      <3>1. ASSUME NEW j \in Key
            PROVE  Within(ledger[j], kept'[j])
        <4>1. /\ ledger[j] \in Amount /\ kept[j] \in Amount /\ kept'[j] \in Amount
              /\ Within(ledger[j], kept[j]) /\ Within(kept[j], kept'[j])
          BY <1>1, <2>4, <2>5 DEF IInv, TypeOK, LedgerWithinKept
        <4> QED
          BY <4>1 DEF Within, Amount
      <3> QED
        BY <2>1, <3>1 DEF LedgerWithinKept
    <2> QED
      BY <1>1, <2>1, <2>2, <2>3, <2>4, <2>7, <2>8, <2>9 DEF IInv, TypeOK
  <1> QED
    BY <1>3, <1>4

LEMMA PrefixPart ==
    ASSUME NEW all \in Amount, NEW rows \in RowPrefixes(all)
    PROVE  rows \in Amount /\ Within(rows, all)
  <1>1. CASE rows = Zero
    BY <1>1 DEF Amount, Within, Zero
  <1>2. CASE rows = [Zero EXCEPT !.sub = all.sub]
    BY <1>2 DEF Amount, Within, Zero
  <1>3. CASE rows = [all EXCEPT !.topup = 0]
    BY <1>3 DEF Amount, Within
  <1>4. CASE rows = all
    BY <1>4 DEF Amount, Within
  <1> QED
    BY <1>1, <1>2, <1>3, <1>4 DEF RowPrefixes

LEMMA WriteRowsInv ==
    ASSUME IInv, NEW c \in Caller, NEW rows \in RowPrefixes(call[c].rows), WriteRows(c, rows)
    PROVE  IInv'
  <1> DEFINE k == call[c].key
  <1>1. /\ TypeOK /\ call[c] \in Call /\ call[c].step = "rows" /\ k \in Key
        /\ Within(call[c].rows, kept[k])
    BY DEF IInv, TypeOK, CallOK, WriteRows
  <1>2. call[c].rows \in Amount /\ call[c].units \in Nat
    BY <1>1 DEF Call
  <1>3. rows \in Amount /\ Within(rows, call[c].rows)
    BY <1>2, PrefixPart
  <1>4. ledger[k] \in Amount /\ kept[k] \in Amount /\ Within(ledger[k], kept[k])
    BY <1>1 DEF IInv, TypeOK, LedgerWithinKept
  <1>5. Upserted(ledger[k], rows) \in Amount /\ Within(Upserted(ledger[k], rows), kept[k])
    BY <1>1, <1>2, <1>3, <1>4 DEF Upserted, Amount, Within
  <1>6. ledger' \in [Key -> Amount] /\ LedgerWithinKept'
    BY <1>1, <1>5 DEF WriteRows, IInv, TypeOK, LedgerWithinKept
  <1>7. /\ call' \in [Caller -> Call]
        /\ \A d \in Caller \ {c} : call'[d] = call[d]
        /\ CallOK(c)'
    BY <1>1, <1>2, ReturnEffect, RestOK DEF WriteRows, Outcome
  <1>8. \A j \in Key : HoldOK(j)'
    BY DEF IInv, HoldOK, WriteRows
  <1>9. \A d \in Caller \ {c} : CallOK(d)'
    BY <1>7 DEF IInv, CallOK, Pinned, WriteRows
  <1> QED
    BY <1>1, <1>6, <1>7, <1>8, <1>9 DEF IInv, TypeOK, WriteRows

LEMMA CallThrowsInv ==
    ASSUME IInv, NEW c \in Caller, CallThrows(c)
    PROVE  IInv'
  <1>1. CASE call[c].step # "next"
    BY <1>1, ReturnInv DEF CallThrows, Outcome
  <1>2. CASE call[c].step = "next"
    <2> DEFINE r == [Idle EXCEPT !.out = "threw"]
    <2>1. r \in Call /\ r.step = "idle"
      BY IdleTyped DEF Call, Outcome
    <2>2. /\ call' = [call EXCEPT ![c] = r]
          /\ call \in [Caller -> Call]
      BY <1>2 DEF CallThrows, IInv, TypeOK
    <2> HIDE DEF r
    <2>3. /\ call' \in [Caller -> Call] /\ call'[c] = r
          /\ \A d \in Caller \ {c} : call'[d] = call[d]
      BY <2>1, <2>2
    <2> QED
      BY <2>1, <2>3, RestOK, CallOnly DEF CallThrows
  <1> QED
    BY <1>1, <1>2

LEMMA ProcessDiesInv ==
    ASSUME IInv, ProcessDies
    PROVE  IInv'
  <1>1. call' \in [Caller -> Call]
    BY IdleTyped DEF ProcessDies
  <1>2. \A c \in Caller : CallOK(c)'
    BY IdleTyped, RestOK DEF ProcessDies
  <1>3. \A k \in Key : HoldOK(k)'
    BY DEF IInv, HoldOK, ProcessDies
  <1> QED
    BY <1>1, <1>2, <1>3 DEF IInv, TypeOK, LedgerWithinKept, ProcessDies

-----------------------------------------------------------------------------
(* The sweep preserves the invariant. *)

LEMMA SweepReadInv ==
    ASSUME IInv, NEW c \in Caller, SweepRead(c)
    PROVE  IInv'
  <1> DEFINE r == IF Expired = {} THEN Idle
                  ELSE [Idle EXCEPT !.step = "next", !.sweeping = TRUE, !.todo = Expired]
  <1>1. TypeOK
    BY DEF IInv
  <1>2. Expired \subseteq Sighting
    <2>1. \A k \in Key : [key |-> k, expiresAt |-> holds[k].expiresAt,
                          deliver |-> holds[k].deliver] \in Sighting
      BY <1>1 DEF TypeOK, Hold, Sighting
    <2> QED
      BY <2>1 DEF Expired
  <1>3. r \in Call /\ r.step \in {"idle", "next"}
    BY <1>2, IdleTyped DEF Call, Step
  <1>4. call' = [call EXCEPT ![c] = r]
    BY DEF SweepRead
  <1> HIDE DEF r
  <1>5. /\ call' \in [Caller -> Call] /\ call'[c] = r
        /\ \A d \in Caller \ {c} : call'[d] = call[d]
    BY <1>1, <1>3, <1>4 DEF TypeOK
  <1> QED
    BY <1>3, <1>5, RestOK, CallOnly DEF SweepRead

LEMMA SweepNextInv ==
    ASSUME IInv, NEW c \in Caller, SweepNext(c)
    PROVE  IInv'
  <1>1. TypeOK /\ call[c] \in Call
    BY DEF IInv, TypeOK
  <1>2. PICK d \in call[c].todo :
           call' = [call EXCEPT ![c] =
                      [Idle EXCEPT !.step = IF d.deliver THEN "read" ELSE "look",
                                   !.sweeping = TRUE, !.key = d.key,
                                   !.hold = [NoSnapshot EXCEPT !.expiresAt = d.expiresAt],
                                   !.todo = call[c].todo \ {d}]]
    BY DEF SweepNext
  <1>3. d \in Sighting /\ call[c].todo \ {d} \in SUBSET Sighting
    BY <1>1 DEF Call
  <1> DEFINE step == IF d.deliver THEN "read" ELSE "look"
             snap == [NoSnapshot EXCEPT !.expiresAt = d.expiresAt]
             rest == call[c].todo \ {d}
             r == [Idle EXCEPT !.step = step, !.sweeping = TRUE, !.key = d.key,
                               !.hold = snap, !.todo = rest]
  <1>4. /\ d.key \in Key /\ snap \in Snapshot /\ step \in {"read", "look"}
        /\ rest \in SUBSET Sighting
    BY <1>3 DEF Sighting, NoSnapshot, Snapshot, Zero, Amount, Unset
  <1>5. call' = [call EXCEPT ![c] = r]
    BY <1>2
  <1> HIDE DEF step, snap, rest
  <1>6. r \in Call /\ r.step = step /\ r.key = d.key
    BY <1>4, IdleTyped DEF Call, Step
  <1> HIDE DEF r
  <1>7. /\ call' \in [Caller -> Call] /\ call'[c] = r
        /\ \A e \in Caller \ {c} : call'[e] = call[e]
    BY <1>1, <1>5, <1>6 DEF TypeOK
  <1>8. CallOK(c)'
    BY <1>4, <1>6, <1>7 DEF CallOK
  <1> QED
    BY <1>7, <1>8, CallOnly DEF SweepNext

LEMMA SweepEndInv ==
    ASSUME IInv, NEW c \in Caller, SweepEnd(c)
    PROVE  IInv'
  <1>1. /\ call' \in [Caller -> Call] /\ call'[c] = Idle
        /\ \A d \in Caller \ {c} : call'[d] = call[d]
    BY IdleTyped DEF SweepEnd, IInv, TypeOK
  <1> QED
    BY <1>1, IdleTyped, RestOK, CallOnly DEF SweepEnd

\* A call that moves on to a step with no snapshot to rely on.
LEMMA MoveOn ==
    ASSUME IInv, NEW c \in Caller, NEW step \in {"look", "release", "reread", "read"},
           call[c].step \notin {"idle", "next"},
           call' = [call EXCEPT ![c].step = step]
    PROVE  /\ call' \in [Caller -> Call]
           /\ \A d \in Caller \ {c} : call'[d] = call[d]
           /\ CallOK(c)'
  <1> DEFINE r == [call[c] EXCEPT !.step = step]
  <1>1. /\ call \in [Caller -> Call] /\ call[c] \in Call /\ call[c].key \in Key
    BY DEF IInv, TypeOK, CallOK
  <1>2. r \in Call /\ r.step = step /\ r.key = call[c].key
    BY <1>1 DEF Call, Step
  <1>3. call' \in [Caller -> Call] /\ call'[c] = r
    BY <1>1, <1>2
  <1> HIDE DEF r
  <1>4. CallOK(c)'
    BY <1>1, <1>2, <1>3 DEF CallOK
  <1> QED
    BY <1>1, <1>3, <1>4

LEMMA SweepLookInv ==
    ASSUME IInv, NEW c \in Caller, SweepLook(c)
    PROVE  IInv'
  <1> DEFINE step == IF generation[call[c].key] = "completed" THEN "read" ELSE "release"
  <1>1. /\ step \in {"look", "release", "reread", "read"}
        /\ call' = [call EXCEPT ![c].step = step]
        /\ call[c].step \notin {"idle", "next"}
    BY DEF Completed, SweepLook
  <1> HIDE DEF step
  <1> QED
    BY <1>1, MoveOn, CallOnly DEF SweepLook

LEMMA SweepReleaseInv ==
    ASSUME IInv, NEW c \in Caller, SweepRelease(c)
    PROVE  IInv'
  <1> DEFINE k == call[c].key
  <1>1. k \in Key /\ call[c].step \notin {"idle", "next"}
    BY DEF IInv, CallOK, SweepRelease
  <1>2. CASE Releasable(k, call[c].hold)
    <2>1. Refund(k) /\ Return(c, "none", 0)
      BY <1>2 DEF SweepRelease
    <2>2. /\ ink' \in Amount
          /\ holds' \in [Key -> Hold]
          /\ \A j \in Key : HoldOK(j)'
          /\ \A d \in Caller : call'[d] = call[d] => CallOK(d)'
      BY <1>1, <2>1, RefundWrite DEF SweepRelease
    <2>3. /\ call' \in [Caller -> Call]
          /\ \A d \in Caller \ {c} : call'[d] = call[d]
          /\ CallOK(c)'
      BY <2>1, ReturnEffect, RestOK DEF Outcome, IInv
    <2> QED
      BY <2>2, <2>3 DEF IInv, TypeOK, LedgerWithinKept, SweepRelease
  <1>3. CASE ~Releasable(k, call[c].hold)
    BY <1>1, <1>3, MoveOn, CallOnly DEF SweepRelease
  <1> QED
    BY <1>2, <1>3

LEMMA SweepRereadInv ==
    ASSUME IInv, NEW c \in Caller, SweepReread(c)
    PROVE  IInv'
  <1> DEFINE h == holds[call[c].key]
  <1>1. call[c].step \notin {"idle", "next"}
    BY DEF SweepReread
  <1>2. CASE h.open /\ h.deliver
    BY <1>1, <1>2, MoveOn, CallOnly DEF SweepReread
  <1>3. CASE ~(h.open /\ h.deliver)
    BY <1>3, ReturnInv DEF SweepReread, Outcome
  <1> QED
    BY <1>2, <1>3

-----------------------------------------------------------------------------
(* Every step, and the specification. *)

LEMMA InitInv == InkInit => IInv
  <1> SUFFICES ASSUME InkInit
               PROVE  IInv
    OBVIOUS
  <1>1. ink \in Amount
    BY StartAssumption DEF InkInit, Amount
  <1>2. <<>> \in Seq(Key) /\ Len(<<>>) <= SettledKeep
    BY KeepAssumption
  <1>3. TypeOK
    BY <1>1, <1>2, NoHoldTyped, IdleTyped, AmountClosed DEF InkInit, TypeOK, Zero, Amount
  <1>4. \A k \in Key : HoldOK(k)
    <2>1. NoHold.split = Zero /\ NoHold.settleUnits <= NoHold.units /\ NoHold.expiresAt <= 0
      BY DEF NoHold, Unset
    <2>2. \A k \in Key : holds[k] = NoHold /\ stamp[k] = 0
      BY DEF InkInit
    <2> QED
      BY <2>1, <2>2, NoHoldTyped DEF HoldOK
  <1>5. \A c \in Caller : CallOK(c)
    BY IdleTyped DEF InkInit, CallOK
  <1>6. LedgerWithinKept
    <2>1. Within(Zero, Zero)
      BY DEF Within, Zero
    <2>2. \A k \in Key : ledger[k] = Zero /\ kept[k] = Zero
      BY DEF InkInit
    <2> QED
      BY <2>1, <2>2 DEF LedgerWithinKept
  <1> QED
    BY <1>3, <1>4, <1>5, <1>6 DEF IInv

LEMMA NextInv ==
    ASSUME IInv, [InkNext]_inkVars
    PROVE  IInv'
  <1>1. ASSUME NEW k \in Key, RouteWrite(k)
        PROVE  IInv'
    BY <1>1, HoldInkInv, SetHoldSettleUnitsInv, ExtendInkHoldInv, ReleaseInkInv,
       RecordGenerationInv DEF RouteWrite
  <1>2. ASSUME NEW k \in Key, Expire(k)
        PROVE  IInv'
    BY <1>2, ExpireInv
  <1>3. ASSUME NEW c \in Caller, NEW k \in Key, NEW a \in FigureSet \cup {Unset},
               SettleBegin(c, k, a)
        PROVE  IInv'
    BY <1>3, SettleBeginInv
  <1>4. ASSUME NEW c \in Caller, SettleStep(c)
        PROVE  IInv'
    <2>1. CASE SettleRead(c) \/ SettleMark(c) \/ SettlePull(c)
      BY <2>1, SettleReadInv, SettleMarkInv, SettlePullInv
    <2>2. CASE SettleRows(c)
      BY <2>2, WriteRowsInv DEF SettleRows, RowPrefixes
    <2>3. CASE SettleRowsFail(c)
      BY <2>3, WriteRowsInv DEF SettleRowsFail
    <2> QED
      BY <1>4, <2>1, <2>2, <2>3 DEF SettleStep
  <1>5. ASSUME NEW c \in Caller, SweepStep(c)
        PROVE  IInv'
    BY <1>5, SweepReadInv, SweepNextInv, SweepEndInv, SweepLookInv, SweepReleaseInv,
       SweepRereadInv DEF SweepStep
  <1>6. CASE UNCHANGED inkVars
    <2>1. UNCHANGED <<ink, holds, stamp, inkSettled, ledger, generation, call, kept>>
      BY <1>6 DEF inkVars
    <2> QED
      BY <2>1, BalanceOnly DEF IInv, TypeOK
  <1> QED
    BY <1>1, <1>2, <1>3, <1>4, <1>5, <1>6, CallThrowsInv, OtherWriterInv, ProcessDiesInv
    DEF InkNext

\* The invariant holds throughout.
THEOREM InkInvariant == InkSpec => []IInv
  <1>1. InkInit => IInv
    BY InitInv
  <1>2. IInv /\ [InkNext]_inkVars => IInv'
    BY NextInv
  <1> QED
    BY <1>1, <1>2, PTL DEF InkSpec

\* Type correctness: no interleaving of holds, settles, releases, sweeps and
\* other writers takes a bucket, a split or a figure below zero.
THEOREM InkTypeCorrect == InkSpec => []TypeOK
  <1>1. IInv => TypeOK
    BY DEF IInv
  <1> QED
    BY <1>1, InkInvariant, PTL

\* Every hold accounts for its units by bucket, and is never told to keep more.
THEOREM HoldsWellFormed == InkSpec => []HoldShape
  <1>1. IInv => HoldShape
    BY DEF IInv, HoldShape, HoldOK
  <1> QED
    BY <1>1, InkInvariant, PTL

\* The claim settleInk's refund rests on: a hold whose pin still matches has the
\* split and the units that the settle read.
THEOREM PinnedSplitHolds == InkSpec => []PinnedSplit
  <1>1. IInv => PinnedSplit
    BY DEF IInv, PinnedSplit, CallOK
  <1> QED
    BY <1>1, InkInvariant, PTL

\* The account's invariant, as the runs check it: what settleInk pinned, released
\* or keeps is read from holds that are whole, whatever races it.
THEOREM HoldsSound == InkSpec => []HoldsOK
  <1>1. TypeOK /\ HoldShape /\ PinnedSplit => HoldsOK
    BY DEF HoldsOK
  <1> QED
    BY <1>1, InkTypeCorrect, HoldsWellFormed, PinnedSplitHolds, PTL

\* No bucket of the ledger is ever charged more than settles kept from it.
THEOREM LedgerNeverOvercharges == InkSpec => []LedgerWithinKept
  <1>1. IInv => LedgerWithinKept
    BY DEF IInv
  <1> QED
    BY <1>1, InkInvariant, PTL

-----------------------------------------------------------------------------
(* No step makes or loses Ink. *)

\* Sums of amounts, bucket by bucket.
LEMMA AmountSums ==
    ASSUME NEW a \in Amount, NEW s \in Amount, NEW p \in Amount, NEW q \in Amount
    PROVE  /\ Within(s, a) => Plus(Minus(a, s), Plus(s, q)) = Plus(a, Plus(Zero, q))
           /\ Plus(Plus(a, s), Plus(Zero, q)) = Plus(a, Plus(s, q))
           /\ Within(p, s) => Plus(Plus(a, Minus(s, p)), Plus(Zero, Plus(q, p)))
                                 = Plus(a, Plus(s, q))
  BY DEF Amount, Within, Plus, Minus, Zero

\* A step that leaves the balance, the splits and the kept units as they are.
LEMMA NothingMoves ==
    ASSUME ink' = ink, kept' = kept, \A k \in Key : holds'[k].split = holds[k].split
    PROVE  \E k \in Key : Conserves(k)
  <1>1. PICK k \in Key : TRUE
    BY KeyAssumption
  <1>2. Conserves(k)
    BY DEF Conserves, InkOf
  <1> QED
    BY <1>2

LEMMA HoldInkConserves ==
    ASSUME IInv, NEW k \in Key, NEW u \in CostSet, HoldInk(k, u)
    PROVE  Conserves(k)
  <1> DEFINE split == TakeSplit(ink, u)
  <1>1. ink \in Amount /\ u \in Nat /\ kept[k] \in Amount /\ kept' = kept
    BY UnitsAssumption DEF IInv, TypeOK, HoldInk
  <1>2. split \in Amount /\ Within(split, ink)
    BY <1>1, TakeSplitPart
  <1>3. holds[k].split = Zero
    BY DEF IInv, HoldOK, HoldInk, MayHold
  <1>4. /\ ink' = Minus(ink, split)
        /\ holds'[k].split = split
        /\ \A j \in Key \ {k} : holds'[j] = holds[j]
    BY DEF HoldInk, IInv, TypeOK, NewHold
  <1> HIDE DEF split
  <1> QED
    BY <1>1, <1>2, <1>3, <1>4, AmountSums DEF Conserves, InkOf

LEMMA RefundConserves ==
    ASSUME IInv, NEW k \in Key, Refund(k), kept' = kept
    PROVE  Conserves(k)
  <1>1. ink \in Amount /\ kept[k] \in Amount /\ holds[k].split \in Amount
    BY DEF IInv, TypeOK, Hold
  <1>2. /\ ink' = Plus(ink, holds[k].split)
        /\ holds'[k].split = Zero
        /\ \A j \in Key \ {k} : holds'[j] = holds[j]
    BY DEF Refund, IInv, TypeOK, NoHold
  <1> QED
    BY <1>1, <1>2, AmountSums DEF Conserves, InkOf

\* The split the pull removes is the one the refund was computed from.
LEMMA SettlePullConserves ==
    ASSUME IInv, NEW c \in Caller, SettlePull(c)
    PROVE  \E k \in Key : Conserves(k)
  <1>0. PICK k \in Key : k = call[c].key
    BY DEF IInv, CallOK, SettlePull
  <1> DEFINE h == call[c].hold
             part == TakeSplit(h.split, Charged(h, call[c].actual))
  <1>1. CASE ~Pinned(k, h)
    BY <1>0, <1>1, NothingMoves DEF SettlePull, PullMissed
  <1>2. CASE Pinned(k, h)
    <2>1. holds[k].split = h.split /\ call[c] \in Call
      BY <1>0, <1>2 DEF IInv, TypeOK, CallOK, SettlePull
    <2>2. ink \in Amount /\ kept[k] \in Amount /\ h.split \in Amount
      BY <2>1 DEF IInv, TypeOK, Call, Snapshot
    <2>3. part \in Amount /\ Within(part, h.split)
      <3>1. h \in Snapshot /\ call[c].actual \in Nat \cup {Unset}
        BY <2>1 DEF Call
      <3> QED
        BY <3>1, PullParts
    <2>4. /\ ink' = Plus(ink, Minus(h.split, part))
          /\ holds' = [holds EXCEPT ![k] = NoHold]
          /\ kept' = [kept EXCEPT ![k] = Plus(@, part)]
      BY <1>0, <1>2 DEF SettlePull
    <2> HIDE DEF part
    <2>5. /\ holds'[k].split = Zero
          /\ kept'[k] = Plus(kept[k], part)
          /\ \A j \in Key \ {k} : holds'[j] = holds[j] /\ kept'[j] = kept[j]
      BY <2>1, <2>4 DEF IInv, TypeOK, NoHold
    <2>6. Conserves(k)
      <3>1. InkOf(k) = Plus(ink, Plus(h.split, kept[k]))
        BY <2>1 DEF InkOf
      <3>2. InkOf(k)' = Plus(Plus(ink, Minus(h.split, part)),
                             Plus(Zero, Plus(kept[k], part)))
        BY <2>4, <2>5 DEF InkOf
      <3>3. InkOf(k)' = InkOf(k)
        BY <2>2, <2>3, <3>1, <3>2, AmountSums
      <3> QED
        BY <2>5, <3>3 DEF Conserves
    <2> QED
      BY <2>6
  <1> QED
    BY <1>1, <1>2

LEMMA NextConserves ==
    ASSUME IInv, InkNext
    PROVE  OtherWriter \/ \E k \in Key : Conserves(k)
  <1>1. ASSUME NEW k \in Key, RouteWrite(k)
        PROVE  \E j \in Key : Conserves(j)
    <2>1. ASSUME NEW u \in CostSet, HoldInk(k, u)
          PROVE  Conserves(k)
      BY <2>1, HoldInkConserves
    <2>2. ASSUME NEW u \in FigureSet, SetHoldSettleUnits(k, u)
          PROVE  \A j \in Key : holds'[j].split = holds[j].split
      BY <2>2 DEF SetHoldSettleUnits, IInv, TypeOK, Hold
    <2>3. ASSUME ExtendInkHold(k)
          PROVE  \A j \in Key : holds'[j].split = holds[j].split
      BY <2>3 DEF ExtendInkHold, IInv, TypeOK, Hold
    <2>4. ASSUME ReleaseInk(k)
          PROVE  Conserves(k)
      BY <2>4, RefundConserves DEF ReleaseInk
    <2>5. ASSUME NEW u \in FigureSet, SetHoldSettleUnits(k, u)
          PROVE  \E j \in Key : Conserves(j)
      BY <2>2, <2>5, NothingMoves DEF SetHoldSettleUnits
    <2>6. ASSUME ExtendInkHold(k)
          PROVE  \E j \in Key : Conserves(j)
      BY <2>3, <2>6, NothingMoves DEF ExtendInkHold
    <2>7. ASSUME NEW status \in {"completed", "failed"}, RecordGeneration(k, status)
          PROVE  \E j \in Key : Conserves(j)
      BY <2>7, NothingMoves DEF RecordGeneration
    <2> QED
      BY <1>1, <2>1, <2>4, <2>5, <2>6, <2>7 DEF RouteWrite
  <1>2. ASSUME NEW k \in Key, Expire(k)
        PROVE  \E j \in Key : Conserves(j)
    <2>1. \A j \in Key : holds'[j].split = holds[j].split
      BY <1>2 DEF Expire, IInv, TypeOK, Hold
    <2> QED
      BY <1>2, <2>1, NothingMoves DEF Expire
  <1>3. ASSUME NEW c \in Caller, SettleStep(c)
        PROVE  \E j \in Key : Conserves(j)
    <2>1. CASE SettleRead(c) \/ SettleRows(c) \/ SettleRowsFail(c)
      BY <2>1, NothingMoves DEF SettleRead, SettleRows, SettleRowsFail, WriteRows
    <2>2. CASE SettleMark(c)
      <3>1. ASSUME NEW j \in Key
            PROVE  holds'[j].split = holds[j].split
        <4>1. CASE holds' = holds
          BY <4>1
        <4>2. CASE Pinned(call[c].key, call[c].hold)
          <5> DEFINE u == IF call[c].actual = Unset THEN holds[call[c].key].settleUnits
                          ELSE Lesser(call[c].actual, call[c].hold.units)
          <5>1. /\ holds \in [Key -> Hold] /\ holds[j] \in Hold
                /\ holds' = [holds EXCEPT ![call[c].key].deliver = TRUE,
                                         ![call[c].key].settleUnits = u]
            BY <2>2, <4>2 DEF SettleMark, IInv, TypeOK, CallOK
          <5> HIDE DEF u
          <5> QED
            BY <5>1 DEF Hold
        <4> QED
          BY <2>2, <4>1, <4>2 DEF SettleMark
      <3> QED
        BY <2>2, <3>1, NothingMoves DEF SettleMark
    <2>3. CASE SettlePull(c)
      BY <2>3, SettlePullConserves
    <2> QED
      BY <1>3, <2>1, <2>2, <2>3 DEF SettleStep
  <1>4. ASSUME NEW c \in Caller, SweepStep(c)
        PROVE  \E j \in Key : Conserves(j)
    <2>1. CASE SweepRelease(c)
      <3>1. PICK k \in Key : k = call[c].key
        BY <2>1 DEF SweepRelease, IInv, CallOK
      <3>2. CASE Refund(k)
        BY <2>1, <3>2, RefundConserves DEF SweepRelease
      <3>3. CASE UNCHANGED <<ink, holds>>
        BY <2>1, <3>3, NothingMoves DEF SweepRelease
      <3> QED
        BY <2>1, <3>1, <3>2, <3>3 DEF SweepRelease
    <2>2. CASE SweepRead(c) \/ SweepNext(c) \/ SweepEnd(c) \/ SweepLook(c) \/ SweepReread(c)
      BY <2>2, NothingMoves DEF SweepRead, SweepNext, SweepEnd, SweepLook, SweepReread
    <2> QED
      BY <1>4, <2>1, <2>2 DEF SweepStep
  <1>5. ASSUME ProcessDies \/ \E c \in Caller : CallThrows(c)
        PROVE  \E j \in Key : Conserves(j)
    BY <1>5, NothingMoves DEF ProcessDies, CallThrows
  <1>6. ASSUME NEW c \in Caller, NEW k \in Key, NEW a \in FigureSet \cup {Unset},
               SettleBegin(c, k, a)
        PROVE  \E j \in Key : Conserves(j)
    BY <1>6, NothingMoves DEF SettleBegin
  <1> QED
    BY <1>1, <1>2, <1>3, <1>4, <1>5, <1>6 DEF InkNext

\* Every bucket is accounted for: a step of the service, or a crash between two
\* of its writes, moves Ink only between the balance, one hold and what is kept.
THEOREM InkConserved == InkSpec => Conserve
  <1>1. IInv /\ [InkNext]_inkVars => [OtherWriter \/ \E k \in Key : Conserves(k)]_inkVars
    BY NextConserves
  <1> QED
    BY <1>1, InkInvariant, PTL DEF InkSpec, Conserve

-----------------------------------------------------------------------------
(* The sweep's release. *)

\* The hold that was seen with this expiresAt, if it is still there, is expired.
StillExpired(k, e) ==
    /\ e <= stamp[k]
    /\ holds[k].open /\ holds[k].expiresAt = e => holds[k].expired

\* What each sweep has seen, and the hold it is about to release.
SeenOK(c) ==
    /\ \A d \in call[c].todo : StillExpired(d.key, d.expiresAt)
    /\ call[c].step \in {"look", "release"} => StillExpired(call[c].key, call[c].hold.expiresAt)

SweepsOK == \A c \in Caller : SeenOK(c)

\* A hold that is written stays expired, or goes, or has a new expiresAt.
Ages(k) ==
    \/ ~holds'[k].open
    \/ holds'[k].expiresAt > stamp[k]
    \/ /\ holds[k].open
       /\ holds'[k].expiresAt = holds[k].expiresAt
       /\ holds[k].expired => holds'[k].expired

Older == \A k \in Key : Ages(k) /\ stamp[k] <= stamp'[k]

LEMMA StillExpiredStep ==
    ASSUME TypeOK, TypeOK', Older, NEW k \in Key, NEW e \in Nat, StillExpired(k, e)
    PROVE  StillExpired(k, e)'
  <1>1. stamp[k] \in Nat /\ stamp'[k] \in Nat /\ stamp[k] <= stamp'[k] /\ Ages(k)
    BY DEF TypeOK, Older
  <1> QED
    BY <1>1 DEF StillExpired, Ages

\* A caller that sees nothing new keeps what it knows.
LEMMA SeenStep ==
    ASSUME TypeOK, TypeOK', Older, NEW c \in Caller, SeenOK(c),
           call'[c].todo \subseteq call[c].todo,
           call'[c].step \in {"look", "release"} =>
              /\ call[c].step \in {"look", "release"}
              /\ call'[c].key = call[c].key /\ call'[c].hold = call[c].hold
              /\ call[c].key \in Key
    PROVE  SeenOK(c)'
  <1>1. call[c] \in Call
    BY DEF TypeOK
  <1>2. /\ call[c].hold.expiresAt \in Nat
        /\ \A d \in call[c].todo : d.key \in Key /\ d.expiresAt \in Nat
    BY <1>1 DEF Call, Snapshot, Sighting
  <1>3. \A d \in call'[c].todo : StillExpired(d.key, d.expiresAt)'
    BY <1>2, StillExpiredStep DEF SeenOK
  <1>4. CASE call'[c].step \in {"look", "release"}
    <2>1. StillExpired(call[c].key, call[c].hold.expiresAt)
      BY <1>4 DEF SeenOK
    <2>3. PICK k \in Key : k = call[c].key
      BY <1>4
    <2>4. PICK e \in Nat : e = call[c].hold.expiresAt
      BY <1>2
    <2>5. StillExpired(k, e)'
      BY <2>1, <2>3, <2>4, StillExpiredStep
    <2>6. call'[c].key = k /\ call'[c].hold.expiresAt = e
      BY <1>4, <2>3, <2>4
    <2> QED
      BY <1>3, <2>5, <2>6 DEF SeenOK
  <1>5. CASE call'[c].step \notin {"look", "release"}
    BY <1>3, <1>5 DEF SeenOK
  <1> QED
    BY <1>4, <1>5

\* Every step, but a sweep's own, that leaves the calls of others as they are.
LEMMA OthersSee ==
    ASSUME TypeOK, TypeOK', Older, SweepsOK, NEW c \in Caller, SeenOK(c)',
           \A d \in Caller \ {c} : call'[d] = call[d],
           \A d \in Caller : call[d].step \notin {"idle", "next"} => call[d].key \in Key
    PROVE  SweepsOK'
  <1> SUFFICES ASSUME NEW d \in Caller \ {c}
               PROVE  SeenOK(d)'
    BY DEF SweepsOK
  <1>1. SeenOK(d) /\ call'[d] = call[d]
    BY DEF SweepsOK
  <1> QED
    BY <1>1, SeenStep

LEMMA AllSee ==
    ASSUME TypeOK, TypeOK', Older, SweepsOK, UNCHANGED call,
           \A d \in Caller : call[d].step \notin {"idle", "next"} => call[d].key \in Key
    PROVE  SweepsOK'
  <1> SUFFICES ASSUME NEW d \in Caller
               PROVE  SeenOK(d)'
    BY DEF SweepsOK
  <1>1. SeenOK(d) /\ call'[d] = call[d]
    BY DEF SweepsOK
  <1> QED
    BY <1>1, SeenStep

\* A write of one hold, and the stamps that are not.
LEMMA OlderWrite ==
    ASSUME TypeOK, NEW k \in Key, \A j \in Key \ {k} : holds'[j] = holds[j],
           stamp' \in {stamp, [stamp EXCEPT ![k] = @ + 1]},
           \/ ~holds'[k].open
           \/ holds'[k].expiresAt > stamp[k]
           \/ /\ holds[k].open
              /\ holds'[k].expiresAt = holds[k].expiresAt
              /\ holds[k].expired => holds'[k].expired
    PROVE  Older
  <1>1. \A j \in Key : stamp[j] \in Nat /\ stamp[j] <= stamp'[j]
    BY StampFrame DEF TypeOK
  <1> QED
    BY <1>1 DEF Older, Ages

LEMMA OlderSame ==
    ASSUME TypeOK, UNCHANGED <<holds, stamp>>
    PROVE  Older
  <1>1. \A j \in Key : stamp[j] \in Nat
    BY DEF TypeOK
  <1> QED
    BY <1>1 DEF Older, Ages

\* Only holdInk and a heartbeat un-expire a hold, and both give it a new expiresAt.
LEMMA RouteAges ==
    ASSUME TypeOK, NEW k \in Key, RouteWrite(k) \/ Expire(k)
    PROVE  Older
  <1>1. holds \in [Key -> Hold] /\ stamp \in [Key -> Nat] /\ holds[k] \in Hold /\ stamp[k] \in Nat
    BY DEF TypeOK
  <1>2. ASSUME NEW u \in CostSet, HoldInk(k, u)
        PROVE  Older
    <2>1. holds' = [holds EXCEPT ![k] = NewHold(u, TakeSplit(ink, u), FreshExpiry(k))]
      BY <1>2 DEF HoldInk
    <2>2. /\ \A j \in Key \ {k} : holds'[j] = holds[j]
          /\ holds'[k].expiresAt = stamp[k] + 1
      BY <1>1, <2>1 DEF NewHold, FreshExpiry
    <2>3. holds'[k].expiresAt > stamp[k] /\ stamp' = [stamp EXCEPT ![k] = @ + 1]
      BY <1>1, <1>2, <2>2 DEF HoldInk
    <2> QED
      BY <2>2, <2>3, OlderWrite
  <1>3. ASSUME NEW u \in FigureSet, SetHoldSettleUnits(k, u)
        PROVE  Older
    <2>1. /\ \A j \in Key \ {k} : holds'[j] = holds[j]
          /\ holds[k].open
          /\ holds'[k].expiresAt = holds[k].expiresAt /\ holds'[k].expired = holds[k].expired
      BY <1>1, <1>3 DEF SetHoldSettleUnits, Hold
    <2> QED
      BY <1>3, <2>1, OlderWrite DEF SetHoldSettleUnits
  <1>4. CASE ExtendInkHold(k)
    <2>1. /\ \A j \in Key \ {k} : holds'[j] = holds[j]
          /\ holds'[k].expiresAt = stamp[k] + 1
      BY <1>1, <1>4 DEF ExtendInkHold, Hold, FreshExpiry
    <2>3. holds'[k].expiresAt > stamp[k] /\ stamp' = [stamp EXCEPT ![k] = @ + 1]
      BY <1>1, <1>4, <2>1 DEF ExtendInkHold
    <2> QED
      BY <2>1, <2>3, OlderWrite
  <1>5. CASE ReleaseInk(k)
    <2>1. (\A j \in Key \ {k} : holds'[j] = holds[j]) /\ ~holds'[k].open
      BY <1>1, <1>5 DEF ReleaseInk, Refund, NoHold
    <2> QED
      BY <1>5, <2>1, OlderWrite DEF ReleaseInk
  <1>6. ASSUME NEW status \in {"completed", "failed"}, RecordGeneration(k, status)
        PROVE  Older
    BY <1>6, OlderSame DEF RecordGeneration
  <1>7. CASE Expire(k)
    <2>1. /\ \A j \in Key \ {k} : holds'[j] = holds[j]
          /\ holds[k].open
          /\ holds'[k].expiresAt = holds[k].expiresAt /\ holds'[k].expired
      BY <1>1, <1>7 DEF Expire, Hold
    <2> QED
      BY <1>7, <2>1, OlderWrite DEF Expire
  <1> QED
    BY <1>2, <1>3, <1>4, <1>5, <1>6, <1>7 DEF RouteWrite

\* The calls: only the sweep's cursor and its next entry see anything new.
LEMMA ReturnSees ==
    ASSUME TypeOK, TypeOK', Older, NEW c \in Caller, SeenOK(c), NEW out \in Outcome,
           NEW units \in Nat, Return(c, out, units)
    PROVE  SeenOK(c)'
  <1>1. call \in [Caller -> Call] /\ call'[c].step \in {"idle", "next"}
    BY ReturnEffect DEF TypeOK
  <1>2. call'[c].todo \subseteq call[c].todo
    BY <1>1 DEF Return, Idle
  <1> QED
    BY <1>1, <1>2, SeenStep

LEMMA SettleSees ==
    ASSUME TypeOK, TypeOK', Older, NEW c \in Caller, SeenOK(c), SettleStep(c)
    PROVE  SeenOK(c)'
  <1>1. call \in [Caller -> Call] /\ call[c] \in Call
    BY DEF TypeOK
  <1>2. CASE Return(c, "no_hold", 0) \/ Return(c, "settled", 0) \/ Return(c, "settled", call[c].units)
    BY <1>1, <1>2, ReturnSees DEF Outcome, Call
  <1>3. ASSUME NEW hold, call' = [call EXCEPT ![c].step = "mark", ![c].hold = hold]
        PROVE  SeenOK(c)'
    <2>1. call'[c].todo = call[c].todo /\ call'[c].step = "mark"
      BY <1>1, <1>3 DEF Call
    <2> QED
      BY <2>1, SeenStep
  <1>4. CASE call' = [call EXCEPT ![c].step = "pull"]
    <2>1. call'[c].todo = call[c].todo /\ call'[c].step = "pull"
      BY <1>1, <1>4 DEF Call
    <2> QED
      BY <2>1, SeenStep
  <1>5. ASSUME NEW rows, NEW units,
               call' = [call EXCEPT ![c].step = "rows", ![c].rows = rows, ![c].units = units]
        PROVE  SeenOK(c)'
    <2>1. call'[c].todo = call[c].todo /\ call'[c].step = "rows"
      BY <1>1, <1>5 DEF Call
    <2> QED
      BY <2>1, SeenStep
  <1>6. CASE SettleRead(c)
    BY <1>2, <1>3, <1>6 DEF SettleRead
  <1>7. CASE SettleMark(c)
    BY <1>2, <1>4, <1>7 DEF SettleMark
  <1>8. CASE SettlePull(c)
    BY <1>2, <1>5, <1>8 DEF SettlePull, PullMissed
  <1>9. CASE SettleRows(c) \/ SettleRowsFail(c)
    BY <1>2, <1>9 DEF SettleRows, SettleRowsFail, WriteRows
  <1> QED
    BY <1>6, <1>7, <1>8, <1>9 DEF SettleStep

LEMMA SweepSees ==
    ASSUME IInv, TypeOK', Older, NEW c \in Caller, SeenOK(c), SweepStep(c)
    PROVE  SeenOK(c)'
  <1>1. TypeOK /\ call \in [Caller -> Call] /\ call[c] \in Call /\ CallOK(c)
    BY DEF IInv, TypeOK
  <1>2. CASE SweepRead(c)
    <2>1. call'[c].step \in {"idle", "next"} /\ call'[c].todo \subseteq Expired
      BY <1>1, <1>2 DEF SweepRead, Idle
    <2>2. \A d \in Expired : StillExpired(d.key, d.expiresAt)'
      <3>1. SUFFICES ASSUME NEW k \in Key, NEW e, e = holds[k].expiresAt, holds[k].expired
                     PROVE  StillExpired(k, e)'
        BY DEF Expired
      <3>2. e <= stamp[k]
        BY <3>1 DEF IInv, HoldOK
      <3> QED
        BY <1>2, <3>1, <3>2 DEF SweepRead, StillExpired
    <2> QED
      BY <2>1, <2>2 DEF SeenOK
  <1>3. CASE SweepNext(c)
    <2>1. PICK d \in call[c].todo :
             call' = [call EXCEPT ![c] =
                        [Idle EXCEPT !.step = IF d.deliver THEN "read" ELSE "look",
                                     !.sweeping = TRUE, !.key = d.key,
                                     !.hold = [NoSnapshot EXCEPT !.expiresAt = d.expiresAt],
                                     !.todo = call[c].todo \ {d}]]
      BY <1>3 DEF SweepNext
    <2>2. /\ call'[c].todo \subseteq call[c].todo /\ call'[c].key = d.key
          /\ call'[c].hold.expiresAt = d.expiresAt
      BY <1>1, <2>1 DEF Idle, NoSnapshot
    <2>3. d.key \in Key /\ d.expiresAt \in Nat
      BY <1>1 DEF Call, Sighting
    <2>4. \A e \in call[c].todo : e.key \in Key /\ e.expiresAt \in Nat
      BY <1>1 DEF Call, Sighting
    <2>5. \A e \in call[c].todo : StillExpired(e.key, e.expiresAt)'
      BY <1>1, <2>4, StillExpiredStep DEF SeenOK
    <2> QED
      BY <2>2, <2>5 DEF SeenOK
  <1>4. CASE SweepEnd(c)
    <2>1. call'[c].todo = {} /\ call'[c].step = "idle"
      BY <1>1, <1>4 DEF SweepEnd, Idle
    <2> QED
      BY <2>1 DEF SeenOK
  <1>5. CASE SweepLook(c)
    <2>1. /\ call'[c].todo = call[c].todo /\ call'[c].step \in {"read", "release"}
          /\ call'[c].key = call[c].key /\ call'[c].hold = call[c].hold
      BY <1>1, <1>5 DEF SweepLook, Call
    <2>2. call[c].step = "look" /\ call[c].key \in Key
      BY <1>1, <1>5 DEF SweepLook, CallOK
    <2> QED
      BY <1>1, <2>1, <2>2, SeenStep
  <1>6. ASSUME NEW step \in {"reread", "read"}, call' = [call EXCEPT ![c].step = step]
        PROVE  SeenOK(c)'
    <2>1. call'[c].todo = call[c].todo /\ call'[c].step = step
      BY <1>1, <1>6 DEF Call
    <2> QED
      BY <1>1, <2>1, SeenStep
  <1>7. CASE Return(c, "none", 0)
    BY <1>1, <1>7, ReturnSees DEF Outcome
  <1>8. CASE SweepRelease(c) \/ SweepReread(c)
    BY <1>6, <1>7, <1>8 DEF SweepRelease, SweepReread
  <1> QED
    BY <1>2, <1>3, <1>4, <1>5, <1>8 DEF SweepStep

\* What each caller's step does to the holds, and to the other calls.
LEMMA CallerAges ==
    ASSUME TypeOK, NEW c \in Caller, SettleStep(c) \/ SweepStep(c) \/ CallThrows(c)
    PROVE  Older /\ \A d \in Caller \ {c} : call'[d] = call[d]
  <1>1. holds \in [Key -> Hold] /\ call \in [Caller -> Call]
    BY DEF TypeOK
  <1>2. \A d \in Caller \ {c} : call'[d] = call[d]
    BY <1>1 DEF SettleStep, SweepStep, CallThrows, SettleRead, SettleMark, SettlePull, PullMissed,
       SettleRows, SettleRowsFail, WriteRows, SweepRead, SweepNext, SweepEnd, SweepLook,
       SweepRelease, SweepReread, Return
  <1>3. UNCHANGED stamp
    BY DEF SettleStep, SweepStep, CallThrows, SettleRead, SettleMark, SettlePull, PullMissed,
       SettleRows, SettleRowsFail, WriteRows, SweepRead, SweepNext, SweepEnd, SweepLook,
       SweepRelease, SweepReread
  <1>4. CASE UNCHANGED holds
    BY <1>2, <1>3, <1>4, OlderSame
  <1>5. CASE ~UNCHANGED holds
    <2> DEFINE k == call[c].key
    <2>1. CASE SettleMark(c)
      <3>1. k \in Key
        BY <1>1, <1>5, <2>1 DEF SettleMark
      <3>2. /\ \A j \in Key \ {k} : holds'[j] = holds[j]
            /\ holds[k].open
            /\ holds'[k].expiresAt = holds[k].expiresAt /\ holds'[k].expired = holds[k].expired
        BY <1>1, <1>5, <2>1, <3>1 DEF SettleMark, Pinned, Hold
      <3> QED
        BY <1>2, <1>3, <3>1, <3>2, OlderWrite
    <2>2. CASE SettlePull(c) \/ SweepRelease(c)
      <3>1. holds' = [holds EXCEPT ![k] = NoHold]
        BY <1>5, <2>2 DEF SettlePull, PullMissed, SweepRelease, Refund
      <3>2. k \in Key
        BY <1>1, <1>5, <3>1
      <3>3. (\A j \in Key \ {k} : holds'[j] = holds[j]) /\ ~holds'[k].open
        BY <1>1, <3>1, <3>2 DEF NoHold
      <3> QED
        BY <1>2, <1>3, <3>2, <3>3, OlderWrite
    <2> QED
      BY <1>5, <2>1, <2>2 DEF SettleStep, SweepStep, CallThrows, SettleRead, SettleRows,
         SettleRowsFail, WriteRows, SweepRead, SweepNext, SweepEnd, SweepLook, SweepReread
  <1> QED
    BY <1>2, <1>4, <1>5

LEMMA SweepsStep ==
    ASSUME IInv, TypeOK', SweepsOK, [InkNext]_inkVars
    PROVE  SweepsOK'
  <1>1. TypeOK /\ \A d \in Caller : call[d].step \notin {"idle", "next"} => call[d].key \in Key
    BY DEF IInv, CallOK
  <1>2. ASSUME NEW k \in Key, RouteWrite(k) \/ Expire(k)
        PROVE  SweepsOK'
    <2>1. UNCHANGED call
      BY <1>2 DEF RouteWrite, HoldInk, SetHoldSettleUnits, ExtendInkHold, ReleaseInk,
                  RecordGeneration, Expire
    <2> QED
      BY <1>1, <1>2, <2>1, RouteAges, AllSee
  <1>3. ASSUME NEW c \in Caller, NEW k \in Key, NEW a, SettleBegin(c, k, a)
        PROVE  SweepsOK'
    <2>1. Older
      BY <1>1, <1>3, OlderSame DEF SettleBegin
    <2>2. /\ \A d \in Caller \ {c} : call'[d] = call[d]
          /\ call'[c].todo = {} /\ call'[c].step = "read"
      BY <1>1, <1>3 DEF SettleBegin, TypeOK, Idle
    <2>3. SeenOK(c)'
      BY <2>2 DEF SeenOK
    <2> QED
      BY <1>1, <2>1, <2>2, <2>3, OthersSee
  <1>4. ASSUME NEW c \in Caller, SettleStep(c) \/ SweepStep(c) \/ CallThrows(c)
        PROVE  SweepsOK'
    <2>1. Older /\ SeenOK(c) /\ \A d \in Caller \ {c} : call'[d] = call[d]
      BY <1>1, <1>4, CallerAges DEF SweepsOK
    <2>2. ASSUME CallThrows(c)
          PROVE  SeenOK(c)'
      <3>1. CASE Return(c, "threw", 0)
        BY <1>1, <2>1, <3>1, ReturnSees DEF Outcome
      <3>2. CASE call' = [call EXCEPT ![c] = [Idle EXCEPT !.out = "threw"]]
        <4>1. call'[c].todo = {} /\ call'[c].step = "idle"
          BY <1>1, <3>2 DEF TypeOK, Idle
        <4> QED
          BY <4>1 DEF SeenOK
      <3> QED
        BY <2>2, <3>1, <3>2 DEF CallThrows
    <2>3. SeenOK(c)'
      BY <1>1, <1>4, <2>1, <2>2, SettleSees, SweepSees
    <2> QED
      BY <1>1, <2>1, <2>3, OthersSee
  <1>5. CASE OtherWriter \/ UNCHANGED inkVars
    <2>1. UNCHANGED <<holds, stamp, call>>
      BY <1>5 DEF OtherWriter, GrantSubscriptionInk, GrantTopupInk, CancelSubscriptionInk,
                  ReverseRefundInk, inkVars
    <2> QED
      BY <1>1, <2>1, OlderSame, AllSee
  <1>6. CASE ProcessDies
    BY <1>6 DEF ProcessDies, SweepsOK, SeenOK, Idle
  <1> QED
    BY <1>2, <1>3, <1>4, <1>5, <1>6 DEF InkNext

\* A hold that a sweep's release closes was expired, and nobody had marked it.
LEMMA ReleasesExpired ==
    ASSUME IInv, SweepsOK, InkNext, NEW c \in Caller, NEW k \in Key,
           call[c].step = "release", call[c].key = k, holds[k].open,
           call'[c].step = "next", ~holds'[k].open
    PROVE  holds[k].expired /\ ~holds[k].deliver
  <1>1. TypeOK /\ call \in [Caller -> Call] /\ call'[c] # call[c] /\ holds' # holds
    BY DEF IInv, TypeOK
  <1>2. SettleStep(c) \/ SweepStep(c)
    <2>1. ASSUME NEW d \in Caller, SettleStep(d) \/ SweepStep(d) \/ CallThrows(d)
          PROVE  d = c
      BY <1>1, <2>1, CallerAges
    <2>2. UNCHANGED holds \/ UNCHANGED call \/ \E d \in Caller : SettleStep(d) \/ SweepStep(d)
      BY DEF InkNext, RouteWrite, HoldInk, SetHoldSettleUnits, ExtendInkHold, ReleaseInk,
             RecordGeneration, Expire, SettleBegin, CallThrows, OtherWriter, ProcessDies,
             GrantSubscriptionInk, GrantTopupInk, CancelSubscriptionInk, ReverseRefundInk
    <2> QED
      BY <1>1, <2>1, <2>2
  <1>3. SweepRelease(c)
    BY <1>2 DEF SettleStep, SweepStep, SettleRead, SettleMark, SettlePull, SettleRows,
       SettleRowsFail, WriteRows, SweepRead, SweepNext, SweepEnd, SweepLook, SweepReread
  <1>4. Releasable(k, call[c].hold)
    BY <1>1, <1>3 DEF SweepRelease
  <1>5. StillExpired(k, call[c].hold.expiresAt)
    BY DEF SweepsOK, SeenOK
  <1> QED
    BY <1>4, <1>5 DEF Releasable, Pinned, StillExpired

\* However old a sweep's reading is, what it gives back is a hold that is expired
\* and not marked delivered at the moment of the write: never one that a late
\* heartbeat extended, a settle marked, or a request took again.
THEOREM SweepReleasesExpired == InkSpec => SweepReleasesOnlyExpired
  <1>1. InkInit => SweepsOK
    BY DEF InkInit, SweepsOK, SeenOK, Idle
  <1>2. IInv /\ IInv' /\ SweepsOK /\ [InkNext]_inkVars => SweepsOK'
    BY SweepsStep DEF IInv
  <1>3. IInv /\ SweepsOK /\ [InkNext]_inkVars =>
          [\A c \in Caller : \A k \in Key :
             (call[c].step = "release" /\ call[c].key = k /\ holds[k].open
                /\ call'[c].step = "next" /\ ~holds'[k].open)
             => holds[k].expired /\ ~holds[k].deliver]_inkVars
    BY ReleasesExpired
  <1> QED
    BY <1>1, <1>2, <1>3, InkInvariant, PTL DEF InkSpec, SweepReleasesOnlyExpired

-----------------------------------------------------------------------------
(* The draft charge: the inductive invariant of the requests. *)

\* Where no draft exists yet, and where the settle has been decided.
Early == {"idle", "sweep", "hold", "run", "giveup", "failed", "deliver", "save"}
Settling == {"settle", "lost", "resweep", "rehold", "classify", "repay", "resettle", "undo"}

\* What the program point of a request says of its other locals.
RequestOK(q) ==
    /\ q.pc = "idle" => q.key = NoKey
    /\ q.pc # "idle" => q.key \in Key
    /\ q.band \in FigureSet \cup {Unset}
    /\ q.pc = "deliver" => q.band \in FigureSet
    /\ q.pc \in Early => ~q.saved /\ ~q.present /\ ~q.dup
    /\ q.pc = "record" => q.saved /\ ~q.dup
    /\ q.pc \in Settling => ~q.dup /\ (q.saved \/ q.present)

RequestInv == RequestsOK /\ \A r \in Request : RequestOK(rq[r])

\* A delivered draft that can no longer turn out to be a duplicate.
Earns(q) == q.pc # "record" /\ ~q.dup /\ (q.saved \/ q.present)

EarnedKeys == {k \in Key : \E r \in Request : rq[r].key = k /\ Earns(rq[r])}

-----------------------------------------------------------------------------
(* One request's step. *)

LimitsOK == expiries \in 0..MaxExpiries /\ faults \in 0..MaxFaults /\ crashes \in 0..MaxCrashes

\* Requests' locals are their own: the others are as before.
LEMMA OneRequest ==
    ASSUME RequestInv, NEW r \in Request, NEW q \in RequestState,
           rq' = [rq EXCEPT ![r] = q], RequestOK(q), LimitsOK',
           Earns(rq[r]) => Earns(q) /\ q.key = rq[r].key
    PROVE  RequestInv' /\ EarnedKeys \subseteq EarnedKeys'
  <1>1. rq \in [Request -> RequestState] /\ \A s \in Request : RequestOK(rq[s])
    BY DEF RequestInv, RequestsOK
  <1>2. /\ rq' \in [Request -> RequestState] /\ rq'[r] = q
        /\ \A s \in Request \ {r} : rq'[s] = rq[s]
    BY <1>1
  <1>3. \A s \in Request : RequestOK(rq'[s])
    BY <1>1, <1>2
  <1>4. EarnedKeys \subseteq EarnedKeys'
    BY <1>1, <1>2 DEF EarnedKeys
  <1> QED
    BY <1>2, <1>3, <1>4 DEF RequestInv, RequestsOK, LimitsOK

LEMMA SameRequests ==
    ASSUME RequestInv, UNCHANGED rq, LimitsOK'
    PROVE  RequestInv' /\ EarnedKeys \subseteq EarnedKeys'
  BY DEF RequestInv, RequestsOK, LimitsOK, EarnedKeys

LEMMA LimitsStep ==
    ASSUME RequestInv, NoFault \/ Fault
    PROVE  LimitsOK'
  BY LimitAssumption DEF RequestInv, RequestsOK, LimitsOK, NoFault, Fault, limits

\* A step of the program point alone, where the new point claims no more.
LEMMA GoStep ==
    ASSUME RequestInv, NEW r \in Request, NEW pc \in Pc \ {"idle", "deliver", "record"},
           Go(r, pc), LimitsOK', rq[r].pc \notin {"idle", "record"},
           pc \in Early => rq[r].pc \in Early,
           pc \in Settling => rq[r].pc \in Settling
    PROVE  RequestInv' /\ EarnedKeys \subseteq EarnedKeys'
  <1> DEFINE q == [rq[r] EXCEPT !.pc = pc]
  <1>1. rq \in [Request -> RequestState] /\ rq[r] \in RequestState /\ RequestOK(rq[r])
    BY DEF RequestInv, RequestsOK
  <1>2. q \in RequestState /\ rq' = [rq EXCEPT ![r] = q]
    BY <1>1 DEF RequestState, Go
  <1>3. RequestOK(q) /\ (Earns(rq[r]) => Earns(q) /\ q.key = rq[r].key)
    BY <1>1 DEF RequestState, RequestOK, Earns
  <1> QED
    BY <1>2, <1>3, OneRequest

LEMMA AnsweredStep ==
    ASSUME RequestInv, NEW r \in Request, NEW answer \in Answer, Answered(r, answer), LimitsOK',
           rq[r].pc \notin {"idle", "record"}
    PROVE  RequestInv' /\ EarnedKeys \subseteq EarnedKeys'
  <1> DEFINE q == [rq[r] EXCEPT !.pc = "end", !.answer = answer]
  <1>1. rq \in [Request -> RequestState] /\ rq[r] \in RequestState /\ RequestOK(rq[r])
    BY DEF RequestInv, RequestsOK
  <1>2. q \in RequestState /\ rq' = [rq EXCEPT ![r] = q]
    BY <1>1 DEF RequestState, Answered, Pc
  <1>3. RequestOK(q) /\ (Earns(rq[r]) => Earns(q) /\ q.key = rq[r].key)
    BY <1>1 DEF RequestState, RequestOK, Earns, Early, Settling
  <1> QED
    BY <1>2, <1>3, OneRequest

LEMMA StartStep ==
    ASSUME RequestInv, NEW r \in Request, Start(r)
    PROVE  RequestInv' /\ EarnedKeys \subseteq EarnedKeys'
  <1>1. PICK k \in Key : rq' = [rq EXCEPT ![r].pc = "sweep", ![r].key = k]
    BY DEF Start
  <1> DEFINE q == [rq[r] EXCEPT !.pc = "sweep", !.key = k]
  <1>2. rq \in [Request -> RequestState] /\ rq[r] \in RequestState /\ RequestOK(rq[r])
    BY DEF RequestInv, RequestsOK
  <1>3. q \in RequestState /\ rq' = [rq EXCEPT ![r] = q]
    BY <1>1, <1>2 DEF RequestState, Pc
  <1>4. rq[r].pc = "idle" /\ LimitsOK'
    BY LimitsStep DEF Start, At
  <1>5. RequestOK(q) /\ ~Earns(rq[r])
    BY <1>2, <1>4 DEF RequestState, RequestOK, Earns, Early, Settling
  <1> QED
    BY <1>3, <1>4, <1>5, OneRequest

\* The steps before there is a draft.
LEMMA EarlySteps ==
    ASSUME RequestInv, NEW r \in Request,
           \/ CourtUnavailable(r) \/ OwnSweep(r) \/ TakeHold(r)
           \/ RunFails(r) \/ GiveUp(r) \/ RecordFailed(r)
    PROVE  RequestInv' /\ EarnedKeys \subseteq EarnedKeys'
  <1>1. LimitsOK'
    BY LimitsStep DEF CourtUnavailable, OwnSweep, TakeHold, RunFails, GiveUp, RecordFailed,
                      Maybe, TryRelease
  <1>2. CASE CourtUnavailable(r)
    BY <1>1, <1>2, GoStep DEF CourtUnavailable, At, Pc, Early, Settling
  <1>3. CASE OwnSweep(r)
    BY <1>1, <1>3, GoStep DEF OwnSweep, At, Pc, Early, Settling
  <1>4. CASE TakeHold(r)
    <2>1. At(r, "hold") /\ (Go(r, "run") \/ Answered(r, "refused") \/ Answered(r, "error"))
      BY <1>4 DEF TakeHold
    <2> QED
      BY <1>1, <2>1, GoStep, AnsweredStep DEF At, Pc, Early, Settling, Answer
  <1>5. CASE RunFails(r)
    BY <1>1, <1>5, GoStep DEF RunFails, At, Pc, Early, Settling
  <1>6. CASE GiveUp(r)
    BY <1>1, <1>6, GoStep DEF GiveUp, At, Pc, Early, Settling
  <1>7. CASE RecordFailed(r)
    BY <1>1, <1>7, AnsweredStep DEF RecordFailed, At, Answer
  <1> QED
    BY <1>2, <1>3, <1>4, <1>5, <1>6, <1>7

\* Heartbeats and a client that leaves change nothing the invariant reads.
LEMMA BesideSteps ==
    ASSUME RequestInv, NEW r \in Request, Beat(r) \/ ClientGone(r)
    PROVE  RequestInv' /\ EarnedKeys \subseteq EarnedKeys'
  <1>1. LimitsOK'
    BY LimitsStep DEF Beat, ClientGone
  <1>2. rq \in [Request -> RequestState] /\ rq[r] \in RequestState /\ RequestOK(rq[r])
    BY DEF RequestInv, RequestsOK
  <1>3. CASE Beat(r)
    <2> DEFINE q == [rq[r] EXCEPT !.beats = @ + 1]
    <2>1. q \in RequestState /\ rq' = [rq EXCEPT ![r] = q]
      BY <1>2, <1>3, LimitAssumption DEF RequestState, Beat
    <2>2. RequestOK(q) /\ (Earns(rq[r]) => Earns(q) /\ q.key = rq[r].key)
      BY <1>2 DEF RequestState, RequestOK, Earns
    <2> QED
      BY <1>1, <2>1, <2>2, OneRequest
  <1>4. CASE ClientGone(r)
    <2> DEFINE q == [rq[r] EXCEPT !.gone = TRUE]
    <2>1. q \in RequestState /\ rq' = [rq EXCEPT ![r] = q]
      BY <1>2, <1>4 DEF RequestState, ClientGone
    <2>2. RequestOK(q) /\ (Earns(rq[r]) => Earns(q) /\ q.key = rq[r].key)
      BY <1>2 DEF RequestState, RequestOK, Earns
    <2> QED
      BY <1>1, <2>1, <2>2, OneRequest
  <1> QED
    BY <1>3, <1>4

\* From the finished draft to its Generation row.
LEMMA SaveSteps ==
    ASSUME RequestInv, NEW r \in Request,
           RunSucceeds(r) \/ Deliver(r) \/ Save(r) \/ RecordCompleted(r)
    PROVE  RequestInv' /\ EarnedKeys \subseteq EarnedKeys'
  <1>1. LimitsOK'
    BY LimitsStep DEF RunSucceeds, Deliver, Save, RecordCompleted, Maybe
  <1>2. rq \in [Request -> RequestState] /\ rq[r] \in RequestState /\ RequestOK(rq[r])
    BY DEF RequestInv, RequestsOK
  <1>3. CASE RunSucceeds(r)
    <2>1. ASSUME NEW b \in FigureSet, rq' = [rq EXCEPT ![r].pc = "deliver", ![r].band = b]
          PROVE  RequestInv' /\ EarnedKeys \subseteq EarnedKeys'
      <3> DEFINE q == [rq[r] EXCEPT !.pc = "deliver", !.band = b]
      <3>1. q \in RequestState /\ rq' = [rq EXCEPT ![r] = q]
        BY <1>2, <2>1, UnitsAssumption DEF RequestState, Pc
      <3>2. RequestOK(q) /\ ~Earns(rq[r])
        BY <1>2, <1>3 DEF RequestState, RequestOK, Earns, RunSucceeds, At, Early, Settling
      <3> QED
        BY <1>1, <3>1, <3>2, OneRequest
    <2>2. CASE Go(r, "save")
      BY <1>1, <1>3, <2>2, GoStep DEF RunSucceeds, At, Pc, Early, Settling
    <2> QED
      BY <1>3, <2>1, <2>2 DEF RunSucceeds
  <1>4. CASE Deliver(r)
    <2>1. ASSUME NEW stored \in BOOLEAN,
                 rq' = [rq EXCEPT ![r].pc = "save", ![r].stored = stored]
          PROVE  RequestInv' /\ EarnedKeys \subseteq EarnedKeys'
      <3> DEFINE q == [rq[r] EXCEPT !.pc = "save", !.stored = stored]
      <3>1. q \in RequestState /\ rq' = [rq EXCEPT ![r] = q]
        BY <1>2, <2>1 DEF RequestState, Pc
      <3>2. RequestOK(q) /\ ~Earns(rq[r])
        BY <1>2, <1>4 DEF RequestState, RequestOK, Earns, Deliver, At, Early, Settling
      <3> QED
        BY <1>1, <3>1, <3>2, OneRequest
    <2>2. CASE Go(r, "save")
      BY <1>1, <1>4, <2>2, GoStep DEF Deliver, At, Pc, Early, Settling
    <2>3. Stores(rq[r].key) \in BOOLEAN
      BY DEF Stores
    <2> QED
      BY <1>4, <2>1, <2>2, <2>3 DEF Deliver
  <1>5. CASE Save(r)
    <2>1. CASE rq' = [rq EXCEPT ![r].pc = "record", ![r].saved = TRUE]
      <3> DEFINE q == [rq[r] EXCEPT !.pc = "record", !.saved = TRUE]
      <3>1. q \in RequestState /\ rq' = [rq EXCEPT ![r] = q]
        BY <1>2, <2>1 DEF RequestState, Pc
      <3>2. RequestOK(q) /\ ~Earns(rq[r])
        BY <1>2, <1>5 DEF RequestState, RequestOK, Earns, Save, At, Early, Settling
      <3> QED
        BY <1>1, <3>1, <3>2, OneRequest
    <2>2. CASE Go(r, "finish")
      BY <1>1, <1>5, <2>2, GoStep DEF Save, At, Pc, Early, Settling
    <2> QED
      BY <1>5, <2>1, <2>2 DEF Save
  <1>6. CASE RecordCompleted(r)
    <2>1. ASSUME NEW dup \in BOOLEAN,
                 rq' = [rq EXCEPT ![r].pc = "finish", ![r].dup = dup]
          PROVE  RequestInv' /\ EarnedKeys \subseteq EarnedKeys'
      <3> DEFINE q == [rq[r] EXCEPT !.pc = "finish", !.dup = dup]
      <3>1. q \in RequestState /\ rq' = [rq EXCEPT ![r] = q]
        BY <1>2, <2>1 DEF RequestState, Pc
      <3>2. RequestOK(q) /\ ~Earns(rq[r])
        BY <1>2, <1>6 DEF RequestState, RequestOK, Earns, RecordCompleted, At, Early, Settling
      <3> QED
        BY <1>1, <3>1, <3>2, OneRequest
    <2>2. ~rq[r].dup /\ (Go(r, "finish") => rq' = [rq EXCEPT ![r].pc = "finish", ![r].dup = FALSE])
      <3>1. rq[r].dup = FALSE
        BY <1>2, <1>6 DEF RequestState, RequestOK, RecordCompleted, At
      <3> QED
        BY <1>2, <3>1 DEF Go, RequestState
    <2> QED
      BY <1>6, <2>1, <2>2 DEF RecordCompleted
  <1> QED
    BY <1>3, <1>4, <1>5, <1>6

\* After the decision only the program point, the debit and the marks change.
LEMMA LaterStep ==
    ASSUME RequestInv, NEW r \in Request, NEW q \in RequestState,
           rq' = [rq EXCEPT ![r] = q], LimitsOK',
           rq[r].pc \notin Early \cup {"record"}, q.pc \notin Early \cup {"record"},
           q.pc \in Settling => rq[r].pc \in Settling,
           q.key = rq[r].key, q.band = rq[r].band, q.saved = rq[r].saved,
           q.dup = rq[r].dup, q.present = rq[r].present
    PROVE  RequestInv' /\ EarnedKeys \subseteq EarnedKeys'
  <1>1. RequestOK(rq[r])
    BY DEF RequestInv
  <1>2. RequestOK(q) /\ (Earns(rq[r]) => Earns(q) /\ q.key = rq[r].key)
    BY <1>1 DEF RequestOK, Earns, Early
  <1> QED
    BY <1>2, OneRequest

LEMMA FinishStep ==
    ASSUME RequestInv, NEW r \in Request, Finish(r)
    PROVE  RequestInv' /\ EarnedKeys \subseteq EarnedKeys'
  <1>1. LimitsOK' /\ rq[r].pc = "finish"
    BY LimitsStep DEF Finish, At
  <1>2. rq \in [Request -> RequestState] /\ rq[r] \in RequestState /\ RequestOK(rq[r])
    BY DEF RequestInv, RequestsOK
  <1>3. CASE Go(r, "giveback")
    BY <1>1, <1>3, GoStep DEF Pc, Early, Settling
  <1>4. CASE ~GivesBack(r) /\ rq' = [rq EXCEPT ![r].pc = "settle", ![r].present = ~rq[r].gone]
    <2> DEFINE q == [rq[r] EXCEPT !.pc = "settle", !.present = ~rq[r].gone]
    <2>1. q \in RequestState /\ rq' = [rq EXCEPT ![r] = q]
      BY <1>2, <1>4 DEF RequestState, Pc
    <2>2. ~rq[r].dup /\ (rq[r].saved \/ ~rq[r].gone)
      BY <1>4 DEF GivesBack
    <2>3. RequestOK(q)
      BY <1>1, <1>2, <2>2 DEF RequestState, RequestOK, Early, Settling
    <2>4. Earns(q) /\ q.key = rq[r].key
      BY <1>2, <2>2 DEF RequestState, Earns
    <2> QED
      BY <1>1, <2>1, <2>3, <2>4, OneRequest
  <1> QED
    BY <1>3, <1>4 DEF Finish

\* MarkHold may be a request's own sweep, so it is taken at any program point.
LEMMA MarkHoldStep ==
    ASSUME RequestInv, NEW r \in Request, MarkHold(r)
    PROVE  RequestInv' /\ EarnedKeys \subseteq EarnedKeys'
  <1> DEFINE stored == rq[r].stored \/ (At(r, "settle") /\ rq[r].band # Unset /\ call'[r].step = "pull")
             q == [rq[r] EXCEPT !.stored = stored]
  <1>1. LimitsOK'
    BY LimitsStep DEF MarkHold
  <1>2. rq \in [Request -> RequestState] /\ rq[r] \in RequestState /\ RequestOK(rq[r])
    BY DEF RequestInv, RequestsOK
  <1>3. stored \in BOOLEAN /\ rq' = [rq EXCEPT ![r].stored = stored]
    BY <1>2 DEF MarkHold, RequestState
  <1> HIDE DEF stored
  <1>4. q \in RequestState /\ rq' = [rq EXCEPT ![r] = q]
    BY <1>2, <1>3 DEF RequestState
  <1>5. RequestOK(q) /\ (Earns(rq[r]) => Earns(q) /\ q.key = rq[r].key)
    BY <1>2 DEF RequestState, RequestOK, Earns
  <1> QED
    BY <1>1, <1>4, <1>5, OneRequest

\* The steps that set the program point and the debit that done shows.
LEMMA DebitStep ==
    ASSUME RequestInv, NEW r \in Request, NEW units \in Nat, LimitsOK', rq[r].pc \in Settling,
           rq' = [rq EXCEPT ![r].pc = "done", ![r].debited = units]
    PROVE  RequestInv' /\ EarnedKeys \subseteq EarnedKeys'
  <1> DEFINE q == [rq[r] EXCEPT !.pc = "done", !.debited = units]
  <1>1. rq \in [Request -> RequestState] /\ rq[r] \in RequestState
    BY DEF RequestInv, RequestsOK
  <1>2. q \in RequestState /\ rq' = [rq EXCEPT ![r] = q] /\ q.pc = "done"
    BY <1>1 DEF RequestState, Pc
  <1>3. /\ q.key = rq[r].key /\ q.band = rq[r].band /\ q.saved = rq[r].saved
        /\ q.dup = rq[r].dup /\ q.present = rq[r].present
    BY <1>1 DEF RequestState
  <1> QED
    BY <1>2, <1>3, LaterStep DEF Early, Settling

LEMMA SettledStep ==
    ASSUME RequestInv, TypeOK, NEW r \in Request, Settled(r)
    PROVE  RequestInv' /\ EarnedKeys \subseteq EarnedKeys'
  <1>1. LimitsOK' /\ rq[r].pc = "settle" /\ rq[r].pc \in Settling
    BY LimitsStep DEF Settled, At, Settling
  <1>2. rq \in [Request -> RequestState] /\ rq[r] \in RequestState
    BY DEF RequestInv, RequestsOK
  <1>3. CASE rq' = [rq EXCEPT ![r].pc = "done", ![r].debited = call[r].units]
    <2>1. call[r].units \in Nat
      BY CallerAssumption DEF TypeOK, Call
    <2> QED
      BY <1>1, <1>3, <2>1, DebitStep
  <1>4. CASE rq' = [rq EXCEPT ![r].pc = "done", ![r].left = TRUE]
    <2> DEFINE q == [rq[r] EXCEPT !.pc = "done", !.left = TRUE]
    <2>1. q \in RequestState /\ rq' = [rq EXCEPT ![r] = q] /\ q.pc = "done"
      BY <1>2, <1>4 DEF RequestState, Pc
    <2>2. /\ q.key = rq[r].key /\ q.band = rq[r].band /\ q.saved = rq[r].saved
          /\ q.dup = rq[r].dup /\ q.present = rq[r].present
      BY <1>2 DEF RequestState
    <2> QED
      BY <1>1, <2>1, <2>2, LaterStep DEF Early, Settling
  <1>5. CASE Go(r, "lost")
    BY <1>1, <1>5, GoStep DEF Pc, Early, Settling
  <1> QED
    BY <1>3, <1>4, <1>5 DEF Settled

\* The hold was lost: looked for, taken again, settled again, or given back.
LEMMA WithholdSteps ==
    ASSUME RequestInv, TypeOK, NEW r \in Request, Withhold(r)
    PROVE  RequestInv' /\ EarnedKeys \subseteq EarnedKeys'
  <1>1. LimitsOK'
    BY LimitsStep DEF Withhold, Lost, Rehold, Classify, Repay, Resettled, Undo, Maybe, TryRelease
  <1>2. rq \in [Request -> RequestState] /\ rq[r] \in RequestState
    BY DEF RequestInv, RequestsOK
  <1>3. CASE Lost(r)
    <2>1. SweptDebit(r) \in Nat
      BY <1>2, CostAssumption, UnitsAssumption DEF SweptDebit, RequestState
    <2>2. rq[r].pc = "lost" /\ rq[r].pc \in Settling
      BY <1>3 DEF Lost, At, Settling
    <2>3. CASE rq' = [rq EXCEPT ![r].pc = "done", ![r].debited = SweptDebit(r)]
      BY <1>1, <2>1, <2>2, <2>3, DebitStep
    <2>4. CASE Go(r, "resweep") \/ Go(r, "done")
      BY <1>1, <2>2, <2>4, GoStep DEF Pc, Early, Settling
    <2> QED
      BY <1>3, <2>3, <2>4 DEF Lost
  <1>4. CASE Rehold(r)
    <2>1. rq[r].pc = "rehold" /\ rq[r].pc \in Settling
      BY <1>4 DEF Rehold, At, Settling
    <2>2. CASE rq' = [rq EXCEPT ![r].pc = "repay", ![r].reheld = TRUE]
      <3> DEFINE q == [rq[r] EXCEPT !.pc = "repay", !.reheld = TRUE]
      <3>1. q \in RequestState /\ rq' = [rq EXCEPT ![r] = q] /\ q.pc = "repay"
        BY <1>2, <2>2 DEF RequestState, Pc
      <3>2. /\ q.key = rq[r].key /\ q.band = rq[r].band /\ q.saved = rq[r].saved
            /\ q.dup = rq[r].dup /\ q.present = rq[r].present
        BY <1>2 DEF RequestState
      <3> QED
        BY <1>1, <2>1, <3>1, <3>2, LaterStep DEF Early, Settling
    <2>3. CASE Go(r, "classify") \/ Answered(r, "withheld")
      BY <1>1, <2>1, <2>3, GoStep, AnsweredStep DEF Pc, Early, Settling, Answer
    <2> QED
      BY <1>4, <2>2, <2>3 DEF Rehold
  <1>5. CASE Classify(r)
    BY <1>1, <1>5, GoStep, AnsweredStep DEF Classify, At, Pc, Early, Settling, Answer
  <1>6. CASE Repay(r)
    BY <1>1, <1>6, GoStep DEF Repay, At, Pc, Early, Settling
  <1>7. CASE Resettled(r)
    <2>1. rq[r].pc = "resettle" /\ rq[r].pc \in Settling /\ call[r].units \in Nat
      BY <1>7, CallerAssumption DEF Resettled, At, Settling, TypeOK, Call
    <2>2. CASE rq' = [rq EXCEPT ![r].pc = "done", ![r].debited = call[r].units]
      BY <1>1, <2>1, <2>2, DebitStep
    <2>3. CASE Go(r, "done") \/ Go(r, "undo") \/ Answered(r, "withheld")
      BY <1>1, <2>1, <2>3, GoStep, AnsweredStep DEF Pc, Early, Settling, Answer
    <2> QED
      BY <1>7, <2>2, <2>3 DEF Resettled
  <1>8. CASE Undo(r)
    BY <1>1, <1>8, AnsweredStep DEF Undo, At, Answer
  <1> QED
    BY <1>3, <1>4, <1>5, <1>6, <1>7, <1>8 DEF Withhold

LEMMA ProceedStep ==
    ASSUME RequestInv, TypeOK, NEW r \in Request, Proceed(r)
    PROVE  RequestInv' /\ EarnedKeys \subseteq EarnedKeys'
  <1>1. CASE GiveBack(r)
    <2>1. LimitsOK'
      BY <1>1, LimitsStep DEF GiveBack, TryRelease, Maybe
    <2> QED
      BY <1>1, <2>1, GoStep DEF GiveBack, At, Pc, Early, Settling
  <1>2. CASE SendDone(r)
    BY <1>2, LimitsStep, AnsweredStep DEF SendDone, At, Answer
  <1>3. CASE CallStep(r)
    BY <1>3, LimitsStep, SameRequests DEF CallStep
  <1> QED
    BY <1>1, <1>2, <1>3, EarlySteps, SaveSteps, FinishStep, MarkHoldStep, SettledStep,
       WithholdSteps DEF Proceed

LEMMA CrashStep ==
    ASSUME RequestInv, Crash
    PROVE  RequestInv' /\ EarnedKeys \subseteq EarnedKeys'
  <1>1. rq \in [Request -> RequestState] /\ \A r \in Request : RequestOK(rq[r])
    BY DEF RequestInv, RequestsOK
  <1>2. LimitsOK'
    BY LimitAssumption DEF Crash, RequestInv, RequestsOK, LimitsOK
  <1>3. ASSUME NEW r \in Request
        PROVE  /\ rq'[r] \in RequestState /\ RequestOK(rq'[r])
               /\ Earns(rq[r]) => Earns(rq'[r]) /\ rq'[r].key = rq[r].key
    <2> DEFINE q == [rq[r] EXCEPT !.pc = "end"]
    <2>1. rq'[r] = IF Live(r) THEN q ELSE rq[r]
      BY <1>1 DEF Crash
    <2>2. q \in RequestState
      BY <1>1 DEF RequestState, Pc
    <2>3. Live(r) => RequestOK(q)
      BY <1>1 DEF RequestState, RequestOK, Live, Early, Settling
    <2>4. Earns(rq[r]) => Earns(q) /\ q.key = rq[r].key
      BY <1>1 DEF RequestState, Earns
    <2> QED
      BY <1>1, <2>1, <2>2, <2>3, <2>4
  <1>4. rq' \in [Request -> RequestState]
    BY <1>3 DEF Crash
  <1>5. EarnedKeys \subseteq EarnedKeys'
    BY <1>1, <1>3 DEF EarnedKeys
  <1> QED
    BY <1>2, <1>3, <1>4, <1>5 DEF RequestInv, RequestsOK, LimitsOK

\* Every step keeps the requests' invariant, and no earned key is lost again.
LEMMA RequestStep ==
    ASSUME RequestInv, TypeOK, [Next]_vars
    PROVE  RequestInv' /\ EarnedKeys \subseteq EarnedKeys'
  <1>1. CASE UNCHANGED vars
    BY <1>1, SameRequests DEF vars, limits, RequestInv, RequestsOK, LimitsOK
  <1>2. ASSUME NEW r \in Request, Start(r) \/ Proceed(r) \/ Beat(r) \/ ClientGone(r)
        PROVE  RequestInv' /\ EarnedKeys \subseteq EarnedKeys'
    BY <1>2, StartStep, ProceedStep, BesideSteps
  <1>3. ASSUME NEW s \in Sweeper, TimerSweep(s) \/ CallStep(s)
        PROVE  RequestInv' /\ EarnedKeys \subseteq EarnedKeys'
    BY <1>3, LimitsStep, SameRequests DEF TimerSweep, CallStep
  <1>4. ASSUME NEW k \in Key, HoldExpires(k)
        PROVE  RequestInv' /\ EarnedKeys \subseteq EarnedKeys'
    <2>1. LimitsOK'
      BY <1>4, LimitAssumption DEF HoldExpires, RequestInv, RequestsOK, LimitsOK
    <2> QED
      BY <1>4, <2>1, SameRequests DEF HoldExpires
  <1>5. CASE AccountChanges
    BY <1>5, LimitsStep, SameRequests DEF AccountChanges
  <1> QED
    BY <1>1, <1>2, <1>3, <1>4, <1>5, CrashStep DEF Next

-----------------------------------------------------------------------------
(* Every step of a request is a step of the account, or a stutter. *)

LEMMA RouteIsInk ==
    ASSUME NEW k \in Key,
           \/ HoldInk(k, Cost) \/ ExtendInkHold(k) \/ Release(k) \/ TryRelease(k)
           \/ Maybe(HoldInk(k, Cost))
           \/ \E b \in FigureSet : SetHoldSettleUnits(k, b) \/ Maybe(SetHoldSettleUnits(k, b))
           \/ \E status \in {"completed", "failed"} :
                 RecordGeneration(k, status) \/ Maybe(RecordGeneration(k, status))
    PROVE  InkNext \/ UNCHANGED inkVars
  <1>1. Cost \in CostSet
    BY CostAssumption
  <1>2. RouteWrite(k) => InkNext
    BY DEF InkNext
  <1>3. Release(k) => RouteWrite(k) \/ UNCHANGED inkVars
    BY DEF Release, RouteWrite
  <1>4. TryRelease(k) => RouteWrite(k) \/ UNCHANGED inkVars
    BY <1>3 DEF TryRelease, Maybe
  <1> QED
    BY <1>1, <1>2, <1>3, <1>4 DEF Maybe, RouteWrite

LEMMA CallIsInk ==
    ASSUME NEW c \in Caller, CallStep(c) \/ SweepRead(c) \/ SettleMark(c)
    PROVE  InkNext
  BY DEF CallStep, InkNext, SettleStep, SweepStep

LEMMA SettleBeginIsInk ==
    ASSUME NEW r \in Request, RequestOK(rq[r]), rq[r].pc # "idle",
           SettleBegin(r, rq[r].key, rq[r].band)
    PROVE  InkNext
  <1>1. r \in Caller /\ rq[r].key \in Key /\ rq[r].band \in FigureSet \cup {Unset}
    BY CallerAssumption DEF RequestOK
  <1> QED
    BY <1>1 DEF InkNext

LEMMA ProceedIsInk ==
    ASSUME RequestInv, NEW r \in Request, Proceed(r) \/ Beat(r)
    PROVE  InkNext \/ UNCHANGED inkVars
  <1>1. RequestOK(rq[r]) /\ r \in Caller
    BY CallerAssumption DEF RequestInv
  <1>2. rq[r].pc # "idle" => rq[r].key \in Key
    BY <1>1 DEF RequestOK
  <1>3. CASE CourtUnavailable(r) \/ RunFails(r) \/ RunSucceeds(r) \/ Save(r) \/ Settled(r)
               \/ Lost(r) \/ Classify(r) \/ Resettled(r) \/ SendDone(r)
    BY <1>3 DEF CourtUnavailable, RunFails, RunSucceeds, Save, Settled, Lost, Classify,
                Resettled, SendDone
  <1>4. CASE TakeHold(r) \/ Rehold(r)
    BY <1>2, <1>4, RouteIsInk DEF TakeHold, Rehold, At
  <1>5. CASE GiveUp(r) \/ GiveBack(r) \/ Undo(r)
    BY <1>2, <1>5, RouteIsInk DEF GiveUp, GiveBack, Undo, At
  <1>6. CASE RecordFailed(r) \/ RecordCompleted(r)
    BY <1>2, <1>6, RouteIsInk DEF RecordFailed, RecordCompleted, At
  <1>7. CASE Deliver(r)
    <2>1. rq[r].band \in FigureSet /\ rq[r].key \in Key
      BY <1>1, <1>2, <1>7 DEF Deliver, At, RequestOK
    <2> QED
      BY <1>7, <2>1, RouteIsInk DEF Deliver
  <1>8. CASE Beat(r)
    <2>1. rq[r].key \in Key
      BY <1>2, <1>8 DEF Beat, Alive
    <2> QED
      BY <1>8, <2>1, RouteIsInk DEF Beat
  <1>9. CASE Finish(r) \/ Repay(r)
    BY <1>1, <1>9, SettleBeginIsInk DEF Finish, Repay, At
  <1>10. CASE OwnSweep(r)
    BY <1>1, <1>10, CallIsInk DEF OwnSweep
  <1>11. CASE MarkHold(r) \/ CallStep(r)
    BY <1>1, <1>11, CallIsInk DEF MarkHold
  <1> QED
    BY <1>3, <1>4, <1>5, <1>6, <1>7, <1>8, <1>9, <1>10, <1>11 DEF Proceed, Withhold

LEMMA StepIsInk ==
    ASSUME RequestInv, [Next]_vars
    PROVE  [InkNext]_inkVars
  <1>1. ASSUME NEW r \in Request, Start(r) \/ Proceed(r) \/ Beat(r) \/ ClientGone(r)
        PROVE  InkNext \/ UNCHANGED inkVars
    BY <1>1, ProceedIsInk DEF Start, ClientGone
  <1>2. ASSUME NEW s \in Sweeper, TimerSweep(s) \/ CallStep(s)
        PROVE  InkNext
    BY <1>2, CallIsInk, CallerAssumption DEF TimerSweep
  <1>3. ASSUME NEW k \in Key, HoldExpires(k)
        PROVE  InkNext
    BY <1>3 DEF HoldExpires, InkNext
  <1>4. AccountChanges \/ Crash => InkNext
    BY DEF AccountChanges, Crash, InkNext
  <1> QED
    BY <1>1, <1>2, <1>3, <1>4 DEF Next, vars

-----------------------------------------------------------------------------
(* Typing, and the implementation of the account. *)

LEMMA InitRequests == Init => RequestInv
  <1> SUFFICES ASSUME Init
               PROVE  RequestInv
    OBVIOUS
  <1>1. NewRequest \in RequestState /\ RequestOK(NewRequest)
    BY LimitAssumption
    DEF NewRequest, RequestState, RequestOK, Pc, Answer, Settling, Early, Unset
  <1>2. LimitsOK
    BY LimitAssumption DEF Init, LimitsOK
  <1> QED
    BY <1>1, <1>2 DEF Init, RequestInv, RequestsOK, LimitsOK

\* The account's invariant and the requests' own hold together.
LEMMA DraftInvariant == Spec => [](IInv /\ RequestInv)
  <1>1. Init => IInv /\ RequestInv
    BY InitInv, InitRequests DEF Init
  <1>2. IInv /\ RequestInv /\ [Next]_vars => (IInv /\ RequestInv)'
    <2> SUFFICES ASSUME IInv, RequestInv, [Next]_vars
                 PROVE  IInv' /\ RequestInv'
      OBVIOUS
    <2>1. [InkNext]_inkVars
      BY StepIsInk
    <2>2. IInv'
      BY <2>1, NextInv
    <2>3. TypeOK
      BY DEF IInv
    <2> QED
      BY <2>2, <2>3, RequestStep
  <1> QED
    BY <1>1, <1>2, PTL DEF Spec

\* The requests' locals are in range; no request beats longer than it may.
THEOREM RequestsTypeCorrect == Spec => []RequestsOK
  <1>1. RequestInv => RequestsOK
    BY DEF RequestInv
  <1> QED
    BY <1>1, DraftInvariant, PTL

\* The handlers, their sweeps and their failures do to the account nothing but
\* what InkHold specifies: every theorem about InkSpec is one about Spec.
THEOREM ChargeImplementsInk == Spec => InkSpec
  <1>1. Init => InkInit
    BY DEF Init
  <1>2. RequestInv /\ [Next]_vars => [InkNext]_inkVars
    BY StepIsInk
  <1> QED
    BY <1>1, <1>2, DraftInvariant, PTL DEF Spec, InkSpec

-----------------------------------------------------------------------------
(* The attempts of a run, and their rows. *)

\* Every attempt before k of its run is recorded as failed in g.
Behind(k, g) == \A t \in 1..(k[2] - 1) : g[<<k[1], t>>] = "failed"

\* A request that recorded its failure has delivered nothing, and is over.
Failed(q) == q.pc = "end" /\ ~q.saved /\ ~q.present

\* While no call threw, a request that may settle has its completed row.
Decided == {"finish"} \cup Settling
Rowed(q, g, f) ==
    f = 0 /\ q.pc \in Decided /\ ~q.dup => q.saved /\ g[q.key] = "completed"

RunsInv ==
    /\ \A r \in Request : rq[r].pc # "idle" => Behind(rq[r].key, generation)
    /\ \A k \in Key : generation[k] = "failed" =>
          \E r \in Request : rq[r].key = k /\ Failed(rq[r])
    /\ \A r \in Request : Rowed(rq[r], generation, faults)

\* A row that is there stays as it is.
Recorded == \A k \in Key : generation[k] # "none" => generation'[k] = generation[k]

\* A fault is never forgotten.
FaultsStay == faults' = 0 => faults = 0

LEMMA FaultsStep ==
    ASSUME RequestInv, NoFault \/ Fault
    PROVE  FaultsStay
  BY DEF RequestInv, RequestsOK, NoFault, Fault, limits, FaultsStay

LEMMA BehindStep ==
    ASSUME Recorded, NEW k \in Key, Behind(k, generation)
    PROVE  Behind(k, generation')
  <1> SUFFICES ASSUME NEW t \in 1..(k[2] - 1)
               PROVE  generation'[<<k[1], t>>] = "failed"
    BY DEF Behind
  <1>1. k[1] \in Run /\ k[2] \in 1..MaxSeq /\ MaxSeq \in Nat
    BY AttemptAssumption
  <1>2. t \in 1..MaxSeq
    BY <1>1
  <1>3. <<k[1], t>> \in Key
    BY <1>1, <1>2, AttemptAssumption
  <1> QED
    BY <1>3 DEF Behind, Recorded

\* One request's step, with its row if it writes one.
LEMMA OneRun ==
    ASSUME RequestInv, RunsInv, Recorded, FaultsStay,
           NEW r \in Request, NEW q \in RequestState, rq' = [rq EXCEPT ![r] = q],
           \/ q.pc = "idle"
           \/ q.key \in Key /\ Behind(q.key, generation')
           \/ rq[r].pc # "idle" /\ q.key = rq[r].key,
           Failed(rq[r]) => Failed(q) /\ q.key = rq[r].key,
           \A k \in Key : generation'[k] = "failed" =>
              generation[k] = "failed" \/ (q.key = k /\ Failed(q)),
           Rowed(q, generation', faults')
    PROVE  RunsInv'
  <1>1. rq \in [Request -> RequestState] /\ \A s \in Request : RequestOK(rq[s])
    BY DEF RequestInv, RequestsOK
  <1>2. rq'[r] = q /\ \A s \in Request \ {r} : rq'[s] = rq[s]
    BY <1>1
  <1>3. \A s \in Request : rq[s].pc # "idle" => rq[s].key \in Key /\ Behind(rq[s].key, generation')
    BY <1>1, BehindStep DEF RunsInv, RequestOK
  <1>4. \A s \in Request : rq'[s].pc # "idle" => Behind(rq'[s].key, generation')
    BY <1>2, <1>3
  <1>5. ASSUME NEW k \in Key, generation'[k] = "failed"
        PROVE  \E s \in Request : rq'[s].key = k /\ Failed(rq'[s])
    <2>1. CASE generation[k] = "failed"
      <3>1. PICK s \in Request : rq[s].key = k /\ Failed(rq[s])
        BY <2>1 DEF RunsInv
      <3> QED
        BY <1>2, <3>1
    <2>2. CASE generation[k] # "failed"
      BY <1>2, <1>5, <2>2
    <2> QED
      BY <2>1, <2>2
  <1>6. ASSUME NEW s \in Request
        PROVE  Rowed(rq'[s], generation', faults')
    <2>1. CASE s = r
      BY <1>2, <2>1
    <2>2. CASE s # r
      <3>1. Rowed(rq[s], generation, faults) /\ rq'[s] = rq[s] /\ RequestOK(rq[s])
        BY <1>1, <1>2, <2>2 DEF RunsInv
      <3>2. rq[s].pc \in Decided => rq[s].key \in Key
        BY <3>1 DEF RequestOK, Decided, Settling
      <3> QED
        BY <3>1, <3>2 DEF Rowed, Recorded, FaultsStay
    <2> QED
      BY <2>1, <2>2
  <1> QED
    BY <1>4, <1>5, <1>6 DEF RunsInv

\* A step that writes no row, and after which the request claims no more.
LEMMA PlainRun ==
    ASSUME RequestInv, RunsInv, UNCHANGED generation, FaultsStay,
           NEW r \in Request, NEW q \in RequestState, rq' = [rq EXCEPT ![r] = q],
           rq[r].pc # "idle", q.pc \in Decided => rq[r].pc \in Decided,
           rq[r].pc = "end" => q.pc = "end",
           q.key = rq[r].key, q.saved = rq[r].saved, q.dup = rq[r].dup,
           q.present = rq[r].present
    PROVE  RunsInv'
  <1>1. Recorded
    BY DEF Recorded
  <1>2. Rowed(rq[r], generation, faults)
    BY DEF RunsInv
  <1>3. Rowed(q, generation', faults')
    BY <1>2 DEF Rowed, FaultsStay
  <1>4. Failed(rq[r]) => Failed(q)
    BY DEF Failed
  <1> QED
    BY <1>1, <1>3, <1>4, OneRun

LEMMA SameRuns ==
    ASSUME RequestInv, RunsInv, UNCHANGED <<rq, generation>>, FaultsStay
    PROVE  RunsInv'
  BY DEF RunsInv, Rowed, FaultsStay, Failed

LEMMA GoRun ==
    ASSUME RequestInv, RunsInv, UNCHANGED generation, FaultsStay,
           NEW r \in Request, NEW pc \in Pc, Go(r, pc),
           pc \in Decided => rq[r].pc \in Decided, rq[r].pc \notin {"idle", "end"}
    PROVE  RunsInv'
  <1> DEFINE q == [rq[r] EXCEPT !.pc = pc]
  <1>1. rq \in [Request -> RequestState] /\ rq[r] \in RequestState
    BY DEF RequestInv, RequestsOK
  <1>2. /\ q \in RequestState /\ rq' = [rq EXCEPT ![r] = q] /\ q.pc = pc
        /\ q.key = rq[r].key /\ q.saved = rq[r].saved /\ q.dup = rq[r].dup
        /\ q.present = rq[r].present
    BY <1>1 DEF RequestState, Go
  <1> HIDE DEF q
  <1> QED
    BY <1>2, PlainRun

LEMMA AnsweredRun ==
    ASSUME RequestInv, RunsInv, UNCHANGED generation, FaultsStay,
           NEW r \in Request, NEW answer \in Answer, Answered(r, answer),
           rq[r].pc # "idle"
    PROVE  RunsInv'
  <1> DEFINE q == [rq[r] EXCEPT !.pc = "end", !.answer = answer]
  <1>1. rq \in [Request -> RequestState] /\ rq[r] \in RequestState
    BY DEF RequestInv, RequestsOK
  <1>2. /\ q \in RequestState /\ rq' = [rq EXCEPT ![r] = q] /\ q.pc = "end"
        /\ q.key = rq[r].key /\ q.saved = rq[r].saved /\ q.dup = rq[r].dup
        /\ q.present = rq[r].present
    BY <1>1 DEF RequestState, Answered, Pc
  <1>3. q.pc \notin Decided
    BY <1>2 DEF Decided, Settling
  <1> HIDE DEF q
  <1> QED
    BY <1>2, <1>3, PlainRun

\* A write of the account that records nothing.
LEMMA NoRow ==
    ASSUME NEW k,
           \/ HoldInk(k, Cost) \/ ExtendInkHold(k) \/ Release(k) \/ TryRelease(k)
           \/ Maybe(HoldInk(k, Cost))
           \/ \E b \in FigureSet : SetHoldSettleUnits(k, b) \/ Maybe(SetHoldSettleUnits(k, b))
           \/ UNCHANGED inkVars
    PROVE  UNCHANGED generation
  BY DEF HoldInk, ExtendInkHold, Release, TryRelease, Maybe, SetHoldSettleUnits, ReleaseInk,
         inkVars

\* The latest attempt of a run that has one is one of its recorded attempts.
LEMMA LatestIs ==
    ASSUME NEW run, Attempts(run) # {}
    PROVE  Latest(run) \in Attempts(run)
  <1> DEFINE D == {MaxSeq - s : s \in Attempts(run)}
  <1>1. MaxSeq \in Nat /\ Attempts(run) \subseteq 1..MaxSeq
    BY AttemptAssumption DEF Attempts
  <1>2. D \subseteq Nat /\ D # {}
    BY <1>1
  <1>3. PICK x \in D : \A y \in D : <<y, x>> \notin OpToRel(<, Nat)
    BY <1>2, NatLessThanWellFounded, WFMin
  <1>4. PICK s \in Attempts(run) : x = MaxSeq - s
    BY <1>3
  <1>5. ASSUME NEW t \in Attempts(run)
        PROVE  t <= s
    <2>1. MaxSeq - t \in D /\ MaxSeq - t \in Nat /\ x \in Nat
      BY <1>1, <1>2, <1>3
    <2>2. ~(MaxSeq - t < x)
      BY <1>3, <2>1 DEF OpToRel
    <2> QED
      BY <1>1, <1>4, <1>5, <2>1, <2>2
  <1> QED
    BY <1>5 DEF Latest

\* The run that is continued has failed as often as it was attempted.
LEMMA StartRun ==
    ASSUME RequestInv, TypeOK, RunsInv, NEW r \in Request, Start(r)
    PROVE  RunsInv'
  <1>1. PICK k \in Key : ResolveRun(r, k) /\ rq' = [rq EXCEPT ![r].pc = "sweep", ![r].key = k]
    BY DEF Start
  <1> DEFINE q == [rq[r] EXCEPT !.pc = "sweep", !.key = k]
  <1>2. rq \in [Request -> RequestState] /\ rq[r] \in RequestState /\ RequestOK(rq[r])
        /\ rq[r].pc = "idle"
    BY DEF RequestInv, RequestsOK, Start, At
  <1>3. /\ q \in RequestState /\ rq' = [rq EXCEPT ![r] = q]
        /\ q.key = k /\ q.pc = "sweep" /\ q.saved = rq[r].saved /\ q.present = rq[r].present
    BY <1>1, <1>2 DEF RequestState, Pc
  <1>4. UNCHANGED generation /\ FaultsStay
    BY FaultsStep DEF Start, inkVars
  <1>5. ~q.saved /\ ~q.present
    BY <1>2, <1>3 DEF RequestOK, Early
  <1>6. Behind(k, generation)
    <2>1. PICK run \in Run : \/ k = <<run, 1>>
                             \/ Retryable(run) /\ k = <<run, Latest(run) + 1>>
      BY <1>1 DEF ResolveRun
    <2>2. CASE k = <<run, 1>>
      BY <2>2 DEF Behind
    <2>3. CASE Retryable(run) /\ k = <<run, Latest(run) + 1>>
      <3>1. PICK s \in Attempts(run) : s = Latest(run)
        BY <2>3, LatestIs DEF Retryable
      <3>2. s \in 1..MaxSeq /\ MaxSeq \in Nat /\ <<run, s>> \in Key
        BY AttemptAssumption DEF Attempts
      <3>3. generation[<<run, s>>] = "failed"
        BY <2>3, <3>2 DEF Retryable, Attempts, TypeOK
      <3>4. PICK p \in Request : rq[p].key = <<run, s>> /\ Failed(rq[p])
        BY <3>2, <3>3 DEF RunsInv
      <3>5. Behind(<<run, s>>, generation)
        BY <3>4 DEF RunsInv, Failed
      <3>6. ASSUME NEW t \in 1..(k[2] - 1)
            PROVE  generation[<<k[1], t>>] = "failed"
        <4>1. k[1] = run /\ k[2] = s + 1
          BY <2>3, <3>1
        <4>2. t = s \/ t \in 1..(s - 1)
          BY <3>2, <4>1
        <4> QED
          BY <3>3, <3>5, <4>1, <4>2 DEF Behind
      <3> QED
        BY <3>6 DEF Behind
    <2> QED
      BY <2>1, <2>2, <2>3
  <1>7. Rowed(q, generation', faults')
    BY <1>3 DEF Rowed, Decided, Settling
  <1> HIDE DEF q
  <1>8. Recorded /\ Behind(q.key, generation') /\ q.key \in Key /\ ~Failed(rq[r])
    BY <1>2, <1>3, <1>4, <1>6 DEF Recorded, Failed
  <1> QED
    BY <1>3, <1>4, <1>7, <1>8, OneRun

LEMMA SaveRun ==
    ASSUME RequestInv, RunsInv, NEW r \in Request, Save(r)
    PROVE  RunsInv'
  <1>1. rq \in [Request -> RequestState] /\ rq[r] \in RequestState /\ RequestOK(rq[r])
        /\ rq[r].pc = "save"
    BY DEF RequestInv, RequestsOK, Save, At
  <1>2. UNCHANGED generation /\ FaultsStay /\ Recorded
    BY FaultsStep DEF Save, inkVars, Recorded
  <1>3. ASSUME NEW q \in RequestState, rq' = [rq EXCEPT ![r] = q], q.key = rq[r].key,
               Rowed(q, generation', faults')
        PROVE  RunsInv'
    <2>1. rq[r].pc # "idle" /\ ~Failed(rq[r])
      BY <1>1 DEF Failed
    <2> QED
      BY <1>2, <1>3, <2>1, OneRun
  <1>4. CASE rq' = [rq EXCEPT ![r].pc = "record", ![r].saved = TRUE]
    <2> DEFINE q == [rq[r] EXCEPT !.pc = "record", !.saved = TRUE]
    <2>1. /\ q \in RequestState /\ rq' = [rq EXCEPT ![r] = q]
          /\ q.key = rq[r].key /\ q.pc = "record"
      BY <1>1, <1>4 DEF RequestState, Pc
    <2>2. Rowed(q, generation', faults')
      BY <2>1 DEF Rowed, Decided, Settling
    <2> QED
      BY <1>3, <2>1, <2>2
  <1>5. CASE Go(r, "finish") /\ Fault
    <2> DEFINE q == [rq[r] EXCEPT !.pc = "finish"]
    <2>1. q \in RequestState /\ rq' = [rq EXCEPT ![r] = q] /\ q.key = rq[r].key
      BY <1>1, <1>5 DEF RequestState, Pc, Go
    <2>2. faults' # 0
      BY <1>5 DEF Fault, RequestInv, RequestsOK
    <2>3. Rowed(q, generation', faults')
      BY <2>2 DEF Rowed
    <2> QED
      BY <1>3, <2>1, <2>3
  <1> QED
    BY <1>4, <1>5 DEF Save

LEMMA RecordRun ==
    ASSUME RequestInv, TypeOK, RunsInv, NEW r \in Request, RecordCompleted(r)
    PROVE  RunsInv'
  <1> DEFINE k == rq[r].key
  <1>1. rq \in [Request -> RequestState] /\ rq[r] \in RequestState /\ RequestOK(rq[r])
        /\ rq[r].pc = "record" /\ k \in Key /\ rq[r].saved /\ ~rq[r].dup
    BY DEF RequestInv, RequestsOK, RecordCompleted, At, RequestOK
  <1>2. FaultsStay
    BY FaultsStep DEF RecordCompleted, Maybe
  <1>3. /\ Recorded
        /\ \A j \in Key : generation'[j] = "failed" => generation[j] = "failed"
    BY DEF RecordCompleted, Maybe, RecordGeneration, inkVars, Recorded, TypeOK
  <1>4. ASSUME NEW q \in RequestState, rq' = [rq EXCEPT ![r] = q], q.key = k,
               Rowed(q, generation', faults')
        PROVE  RunsInv'
    <2>1. rq[r].pc # "idle" /\ ~Failed(rq[r])
      BY <1>1 DEF Failed
    <2> QED
      BY <1>2, <1>3, <1>4, <2>1, OneRun
  <1> DEFINE p == [rq[r] EXCEPT !.pc = "finish"]
             d == [rq[r] EXCEPT !.pc = "finish", !.dup = TRUE]
  <1>5. p \in RequestState /\ p.key = k /\ p.saved
    BY <1>1 DEF RequestState, Pc
  <1>6. d \in RequestState /\ d.key = k /\ d.saved /\ d.dup
    BY <1>1 DEF RequestState, Pc
  <1>7. CASE RecordGeneration(k, "completed") /\ Go(r, "finish")
    <2>1. generation'[k] = "completed" /\ rq' = [rq EXCEPT ![r] = p]
      BY <1>1, <1>7 DEF RecordGeneration, TypeOK, Go
    <2> HIDE DEF p, k
    <2>2. Rowed(p, generation', faults')
      BY <1>5, <2>1 DEF Rowed
    <2> QED
      BY <1>4, <1>5, <2>1, <2>2
  <1>8. CASE rq' = [rq EXCEPT ![r].pc = "finish", ![r].dup = TRUE]
    <2>1. rq' = [rq EXCEPT ![r] = d]
      BY <1>1, <1>8
    <2> HIDE DEF d, k
    <2>2. Rowed(d, generation', faults')
      BY <1>6 DEF Rowed
    <2> QED
      BY <1>4, <1>6, <2>1, <2>2
  <1>9. CASE Maybe(RecordGeneration(k, "completed")) /\ Go(r, "finish")
    <2>1. rq' = [rq EXCEPT ![r] = p] /\ faults' # 0
      BY <1>1, <1>9 DEF Go, Maybe, Fault, RequestInv, RequestsOK
    <2> HIDE DEF p, k
    <2>2. Rowed(p, generation', faults')
      BY <2>1 DEF Rowed
    <2> QED
      BY <1>4, <1>5, <2>1, <2>2
  <1> QED
    BY <1>7, <1>8, <1>9 DEF RecordCompleted

LEMMA RecordFailedRun ==
    ASSUME RequestInv, TypeOK, RunsInv, NEW r \in Request, RecordFailed(r)
    PROVE  RunsInv'
  <1> DEFINE k == rq[r].key
             q == [rq[r] EXCEPT !.pc = "end", !.answer = "error"]
  <1>1. rq \in [Request -> RequestState] /\ rq[r] \in RequestState /\ RequestOK(rq[r])
        /\ rq[r].pc = "failed" /\ k \in Key /\ ~rq[r].saved /\ ~rq[r].present
    BY DEF RequestInv, RequestsOK, RecordFailed, At, RequestOK, Early
  <1>2. FaultsStay
    BY FaultsStep DEF RecordFailed, Maybe
  <1>3. /\ Recorded
        /\ \A j \in Key : generation'[j] = "failed" => generation[j] = "failed" \/ j = k
    BY DEF RecordFailed, Maybe, RecordGeneration, inkVars, Recorded, TypeOK
  <1>4. /\ q \in RequestState /\ rq' = [rq EXCEPT ![r] = q] /\ q.key = k /\ q.pc = "end"
        /\ ~q.saved /\ ~q.present
    BY <1>1 DEF RecordFailed, Answered, RequestState, Pc, Answer
  <1> HIDE DEF q, k
  <1>5. Failed(q) /\ Rowed(q, generation', faults')
    BY <1>4 DEF Failed, Rowed, Decided, Settling
  <1>6. rq[r].pc # "idle" /\ q.key = rq[r].key
    BY <1>1, <1>4 DEF k
  <1>7. \A j \in Key : generation'[j] = "failed" =>
           generation[j] = "failed" \/ (q.key = j /\ Failed(q))
    BY <1>3, <1>4, <1>5
  <1> QED
    BY <1>2, <1>3, <1>4, <1>5, <1>6, <1>7, OneRun

\* Finish decides to settle: a draft that is not saved met a call that threw.
LEMMA FinishRun ==
    ASSUME RequestInv, RunsInv, NEW r \in Request, Finish(r)
    PROVE  RunsInv'
  <1>1. rq \in [Request -> RequestState] /\ rq[r] \in RequestState /\ RequestOK(rq[r])
        /\ rq[r].pc = "finish" /\ Rowed(rq[r], generation, faults)
    BY DEF RequestInv, RequestsOK, Finish, At, RunsInv
  <1>2. UNCHANGED generation /\ FaultsStay /\ Recorded
    BY FaultsStep DEF Finish, SettleBegin, inkVars, Recorded
  <1>3. CASE Go(r, "giveback")
    BY <1>1, <1>2, <1>3, GoRun DEF Pc, Decided, Settling
  <1>4. CASE ~GivesBack(r) /\ rq' = [rq EXCEPT ![r].pc = "settle", ![r].present = ~rq[r].gone]
    <2> DEFINE q == [rq[r] EXCEPT !.pc = "settle", !.present = ~rq[r].gone]
    <2>1. /\ q \in RequestState /\ rq' = [rq EXCEPT ![r] = q] /\ q.key = rq[r].key
          /\ q.pc = "settle" /\ q.saved = rq[r].saved
      BY <1>1, <1>4 DEF RequestState, Pc
    <2>2. ~rq[r].dup
      BY <1>4 DEF GivesBack
    <2>3. faults' = 0 => rq[r].saved /\ generation'[rq[r].key] = "completed"
      BY <1>1, <1>2, <2>2 DEF Rowed, Decided, FaultsStay
    <2> HIDE DEF q
    <2>4. Rowed(q, generation', faults') /\ rq[r].pc # "idle" /\ ~Failed(rq[r])
      BY <1>1, <2>1, <2>3 DEF Rowed, Failed
    <2> QED
      BY <1>2, <2>1, <2>4, OneRun
  <1> QED
    BY <1>3, <1>4 DEF Finish

\* PlainRun, for a step that sets other locals of the request as well.
LEMMA OtherLocals ==
    ASSUME RequestInv, RequestInv', RunsInv, UNCHANGED generation, FaultsStay,
           NEW r \in Request, \A s \in Request \ {r} : rq'[s] = rq[s],
           rq[r].pc # "idle", rq'[r].pc \in Decided => rq[r].pc \in Decided,
           rq[r].pc = "end" => rq'[r].pc = "end",
           rq'[r].key = rq[r].key, rq'[r].saved = rq[r].saved, rq'[r].dup = rq[r].dup,
           rq'[r].present = rq[r].present
    PROVE  RunsInv'
  <1>1. rq \in [Request -> RequestState] /\ rq' \in [Request -> RequestState]
    BY DEF RequestInv, RequestsOK
  <1>2. rq' = [rq EXCEPT ![r] = rq'[r]] /\ rq'[r] \in RequestState
    BY <1>1
  <1> QED
    BY <1>2, PlainRun

\* The steps before there is a draft.
LEMMA EarlyRuns ==
    ASSUME RequestInv, RunsInv, NEW r \in Request,
           \/ CourtUnavailable(r) \/ OwnSweep(r) \/ TakeHold(r) \/ RunFails(r) \/ GiveUp(r)
    PROVE  RunsInv'
  <1>1. FaultsStay
    BY FaultsStep DEF CourtUnavailable, OwnSweep, TakeHold, RunFails, GiveUp, Maybe, TryRelease
  <1>2. UNCHANGED generation
    BY NoRow DEF CourtUnavailable, OwnSweep, TakeHold, RunFails, GiveUp, SweepRead, inkVars
  <1>3. CASE CourtUnavailable(r) \/ OwnSweep(r) \/ RunFails(r) \/ GiveUp(r)
    BY <1>1, <1>2, <1>3, GoRun
    DEF CourtUnavailable, OwnSweep, RunFails, GiveUp, At, Pc, Decided, Settling
  <1>4. CASE TakeHold(r)
    <2>1. At(r, "hold") /\ (Go(r, "run") \/ Answered(r, "refused") \/ Answered(r, "error"))
      BY <1>4 DEF TakeHold
    <2> QED
      BY <1>1, <1>2, <2>1, GoRun, AnsweredRun DEF At, Pc, Answer, Decided, Settling
  <1> QED
    BY <1>3, <1>4

\* The steps that set a local the invariant does not read.
LEMMA PlainRuns ==
    ASSUME RequestInv, RequestInv', RunsInv, NEW r \in Request,
           \/ Beat(r) \/ ClientGone(r) \/ RunSucceeds(r) \/ Deliver(r) \/ Settled(r)
           \/ GiveBack(r) \/ SendDone(r)
    PROVE  RunsInv'
  <1>1. rq \in [Request -> RequestState] /\ rq[r] \in RequestState /\ RequestOK(rq[r])
    BY DEF RequestInv, RequestsOK
  <1>2. FaultsStay
    BY FaultsStep DEF Beat, ClientGone, RunSucceeds, Deliver, Settled, GiveBack, SendDone,
                      Maybe, TryRelease
  <1>3. UNCHANGED generation
    <2>1. CASE Deliver(r)
      <3>1. rq[r].band \in FigureSet
        BY <1>1, <2>1 DEF Deliver, At, RequestOK
      <3> QED
        BY <2>1, <3>1, NoRow DEF Deliver
    <2>2. CASE ~Deliver(r)
      BY <2>2, NoRow DEF Beat, ClientGone, RunSucceeds, Settled, GiveBack, SendDone, inkVars
    <2> QED
      BY <2>1, <2>2
  <1>4. CASE Beat(r) \/ ClientGone(r)
    <2>1. /\ rq[r].pc \notin {"idle", "end"}
          /\ rq' = [rq EXCEPT ![r].beats = @ + 1] \/ rq' = [rq EXCEPT ![r].gone = TRUE]
      BY <1>4 DEF Beat, ClientGone, Alive
    <2>2. /\ \A s \in Request \ {r} : rq'[s] = rq[s]
          /\ rq'[r].pc = rq[r].pc /\ rq'[r].key = rq[r].key /\ rq'[r].saved = rq[r].saved
          /\ rq'[r].dup = rq[r].dup /\ rq'[r].present = rq[r].present
      BY <1>1, <2>1 DEF RequestState
    <2> QED
      BY <1>2, <1>3, <2>1, <2>2, OtherLocals
  <1>6. CASE RunSucceeds(r) \/ Deliver(r) \/ Settled(r)
    <2>1. /\ rq[r].pc \notin {"idle", "end"}
          /\ rq'[r].pc \in {"lost", "done"} => rq[r].pc = "settle" \/ rq'[r].pc = "done"
      BY <1>1, <1>6 DEF RunSucceeds, Deliver, Settled, At, Go, RequestState
    <2>2. \/ \E pc \in {"save", "lost"} : Go(r, pc)
          \/ \E b : rq' = [rq EXCEPT ![r].pc = "deliver", ![r].band = b]
          \/ \E b : rq' = [rq EXCEPT ![r].pc = "save", ![r].stored = b]
          \/ \E b : rq' = [rq EXCEPT ![r].pc = "done", ![r].debited = b]
          \/ \E b : rq' = [rq EXCEPT ![r].pc = "done", ![r].left = b]
      BY <1>6 DEF RunSucceeds, Deliver, Settled
    <2>3. /\ \A s \in Request \ {r} : rq'[s] = rq[s]
          /\ rq'[r].pc \in {"save", "lost", "deliver", "done"}
          /\ rq'[r].key = rq[r].key /\ rq'[r].saved = rq[r].saved
          /\ rq'[r].dup = rq[r].dup /\ rq'[r].present = rq[r].present
      BY <1>1, <2>2 DEF RequestState, Go
    <2>4. rq'[r].pc \in Decided => rq[r].pc \in Decided
      BY <2>1, <2>3 DEF Decided, Settling
    <2> QED
      BY <1>2, <1>3, <2>1, <2>3, <2>4, OtherLocals
  <1>7. CASE GiveBack(r)
    BY <1>2, <1>3, <1>7, GoRun DEF GiveBack, At, Pc, Decided, Settling
  <1>8. CASE SendDone(r)
    BY <1>2, <1>3, <1>8, AnsweredRun DEF SendDone, At, Answer
  <1> QED
    BY <1>4, <1>6, <1>7, <1>8

\* MarkHold may be a request's own sweep, so it is taken at any program point.
LEMMA MarkHoldRun ==
    ASSUME RequestInv, RequestInv', RunsInv, NEW r \in Request, MarkHold(r)
    PROVE  RunsInv'
  <1>1. rq \in [Request -> RequestState] /\ rq[r] \in RequestState
        /\ rq' \in [Request -> RequestState]
    BY DEF RequestInv, RequestsOK
  <1>2. FaultsStay /\ UNCHANGED generation /\ Recorded
    BY FaultsStep DEF MarkHold, SettleMark, Recorded
  <1>3. PICK q \in RequestState : q = rq'[r]
    BY <1>1
  <1>4. /\ rq' = [rq EXCEPT ![r] = q]
        /\ q.pc = rq[r].pc /\ q.key = rq[r].key /\ q.saved = rq[r].saved
        /\ q.dup = rq[r].dup /\ q.present = rq[r].present
    BY <1>1, <1>3 DEF MarkHold, RequestState
  <1>5. Rowed(rq[r], generation, faults)
    BY DEF RunsInv
  <1>6. Rowed(q, generation', faults')
    BY <1>2, <1>4, <1>5 DEF Rowed, FaultsStay
  <1>7. Failed(rq[r]) => Failed(q)
    BY <1>4 DEF Failed
  <1> QED
    BY <1>2, <1>4, <1>6, <1>7, OneRun

LEMMA WithholdRuns ==
    ASSUME RequestInv, RequestInv', RunsInv, NEW r \in Request, Withhold(r)
    PROVE  RunsInv'
  <1>1. rq \in [Request -> RequestState] /\ rq[r] \in RequestState
    BY DEF RequestInv, RequestsOK
  <1>2. FaultsStay
    BY FaultsStep DEF Withhold, Lost, Rehold, Classify, Repay, Resettled, Undo, Maybe, TryRelease
  <1>3. UNCHANGED generation
    BY NoRow DEF Withhold, Lost, Rehold, Classify, Repay, Resettled, Undo, SettleBegin, inkVars
  <1>4. rq[r].pc \in Decided \ {"idle", "end"}
    BY DEF Withhold, Lost, Rehold, Classify, Repay, Resettled, Undo, At, Decided, Settling
  <1>5. \/ \E pc \in {"resweep", "done", "classify", "repay", "resettle", "undo"} : Go(r, pc)
        \/ Answered(r, "withheld")
        \/ \E b : rq' = [rq EXCEPT ![r].pc = "done", ![r].debited = b]
        \/ \E b : rq' = [rq EXCEPT ![r].pc = "repay", ![r].reheld = b]
    BY DEF Withhold, Lost, Rehold, Classify, Repay, Resettled, Undo
  <1>6. /\ \A s \in Request \ {r} : rq'[s] = rq[s]
        /\ rq'[r].key = rq[r].key /\ rq'[r].saved = rq[r].saved
        /\ rq'[r].dup = rq[r].dup /\ rq'[r].present = rq[r].present
    BY <1>1, <1>5 DEF RequestState, Go, Answered
  <1> QED
    BY <1>2, <1>3, <1>4, <1>6, OtherLocals

\* A process that dies takes its requests to their end, whatever they delivered.
LEMMA CrashRun ==
    ASSUME RequestInv, RunsInv, Crash
    PROVE  RunsInv'
  <1>1. rq \in [Request -> RequestState] /\ \A r \in Request : RequestOK(rq[r])
    BY DEF RequestInv, RequestsOK
  <1>2. UNCHANGED <<generation, faults>>
    BY DEF Crash, ProcessDies
  <1>3. ASSUME NEW r \in Request
        PROVE  /\ rq'[r].key = rq[r].key /\ rq'[r].saved = rq[r].saved
               /\ rq'[r].dup = rq[r].dup /\ rq'[r].present = rq[r].present
               /\ rq'[r].pc = IF Live(r) THEN "end" ELSE rq[r].pc
    <2>1. rq'[r] = IF Live(r) THEN [rq[r] EXCEPT !.pc = "end"] ELSE rq[r]
      BY <1>1 DEF Crash
    <2> QED
      BY <1>1, <2>1 DEF RequestState
  <1>4. \A r \in Request : Failed(rq[r]) => Failed(rq'[r]) /\ rq'[r].key = rq[r].key
    BY <1>3 DEF Failed, Live
  <1>5. \A r \in Request : rq'[r].pc # "idle" => rq[r].pc # "idle"
    BY <1>3 DEF Live
  <1>6. ASSUME NEW r \in Request, Rowed(rq[r], generation, faults)
        PROVE  Rowed(rq'[r], generation', faults')
    <2>1. CASE Live(r)
      BY <1>3, <2>1 DEF Rowed, Decided, Settling
    <2>2. CASE ~Live(r)
      BY <1>2, <1>3, <1>6, <2>2 DEF Rowed
    <2> QED
      BY <2>1, <2>2
  <1> QED
    BY <1>2, <1>3, <1>4, <1>5, <1>6 DEF RunsInv

LEMMA ProceedRun ==
    ASSUME RequestInv, RequestInv', TypeOK, RunsInv, NEW r \in Request, Proceed(r)
    PROVE  RunsInv'
  <1>1. CASE CallStep(r)
    <2>1. UNCHANGED generation
      BY <1>1 DEF CallStep, SettleRead, SettlePull, SettleRows, SettleRowsFail, WriteRows,
         CallThrows, SweepNext, SweepEnd, SweepLook, SweepRelease, SweepReread
    <2> QED
      BY <1>1, <2>1, FaultsStep, SameRuns DEF CallStep
  <1> QED
    BY <1>1, EarlyRuns, PlainRuns, RecordFailedRun, SaveRun, RecordRun, FinishRun, MarkHoldRun,
       WithholdRuns DEF Proceed

LEMMA RunsStep ==
    ASSUME RequestInv, RequestInv', TypeOK, RunsInv, [Next]_vars
    PROVE  RunsInv'
  <1>1. CASE UNCHANGED vars
    BY <1>1, SameRuns DEF vars, inkVars, limits, FaultsStay
  <1>2. ASSUME NEW r \in Request, Start(r) \/ Proceed(r) \/ Beat(r) \/ ClientGone(r)
        PROVE  RunsInv'
    BY <1>2, StartRun, ProceedRun, PlainRuns
  <1>3. ASSUME NEW s \in Sweeper, TimerSweep(s) \/ CallStep(s)
        PROVE  RunsInv'
    <2>1. UNCHANGED generation
      BY <1>3 DEF TimerSweep, SweepRead, SettleMark, CallStep, SettleRead, SettlePull, SettleRows,
         SettleRowsFail, WriteRows, CallThrows, SweepNext, SweepEnd, SweepLook, SweepRelease,
         SweepReread
    <2> QED
      BY <1>3, <2>1, FaultsStep, SameRuns DEF TimerSweep, CallStep
  <1>4. ASSUME NEW k \in Key, HoldExpires(k)
        PROVE  RunsInv'
    BY <1>4, SameRuns DEF HoldExpires, Expire, FaultsStay
  <1>5. CASE AccountChanges
    BY <1>5, FaultsStep, SameRuns DEF AccountChanges, OtherWriter, GrantSubscriptionInk,
       GrantTopupInk, CancelSubscriptionInk, ReverseRefundInk
  <1> QED
    BY <1>1, <1>2, <1>3, <1>4, <1>5, CrashRun DEF Next

LEMMA RunsInvariant == Spec => []RunsInv
  <1>1. Init => RunsInv
    BY DEF Init, InkInit, NewRequest, RunsInv, Rowed, Decided, Settling
  <1>2. IInv /\ RequestInv /\ (IInv /\ RequestInv)' /\ RunsInv /\ [Next]_vars => RunsInv'
    BY RunsStep DEF IInv
  <1> QED
    BY <1>1, <1>2, DraftInvariant, PTL DEF Spec

\* Rows and faults are never taken back.
LEMMA RowsStay ==
    ASSUME RequestInv, TypeOK, [Next]_vars
    PROVE  Recorded /\ FaultsStay
  <1>1. Recorded
    <2>1. [InkNext]_inkVars
      BY StepIsInk
    <2>2. ASSUME NEW k \in Key, RouteWrite(k)
          PROVE  Recorded
      BY <2>2 DEF RouteWrite, HoldInk, SetHoldSettleUnits, ExtendInkHold, ReleaseInk,
         RecordGeneration, Recorded, TypeOK
    <2>3. (\E k \in Key : RouteWrite(k)) \/ UNCHANGED generation
      BY <2>1 DEF InkNext, inkVars, Expire, SettleBegin, SettleStep, SettleRead, SettleMark,
         SettlePull, SettleRows, SettleRowsFail, WriteRows, SweepStep, SweepRead, SweepNext,
         SweepEnd, SweepLook, SweepRelease, SweepReread, CallThrows, OtherWriter,
         GrantSubscriptionInk, GrantTopupInk, CancelSubscriptionInk, ReverseRefundInk, ProcessDies
    <2> QED
      BY <2>2, <2>3 DEF Recorded
  <1>2. NoFault \/ Fault \/ UNCHANGED faults
    BY DEF Next, vars, limits, Start, Proceed, CourtUnavailable, OwnSweep, TakeHold, RunFails,
       GiveUp, RecordFailed, RunSucceeds, Deliver, Save, RecordCompleted, Finish, GiveBack,
       MarkHold, Settled, Withhold, Lost, Rehold, Classify, Repay, Resettled, Undo, SendDone,
       CallStep, Beat, ClientGone, TimerSweep, HoldExpires, AccountChanges, Crash, Maybe,
       TryRelease
  <1>3. FaultsStay
    BY <1>2, FaultsStep DEF FaultsStay
  <1> QED
    BY <1>1, <1>3


-----------------------------------------------------------------------------
(* The charge rule. *)

\* An earned key whose completed row is there, unless a call threw.
PaidKeys == {k \in EarnedKeys : faults = 0 => generation[k] = "completed"}

LEMMA PaidStay ==
    ASSUME Recorded, FaultsStay, EarnedKeys \subseteq EarnedKeys'
    PROVE  PaidKeys \subseteq PaidKeys'
  BY DEF PaidKeys, EarnedKeys, Recorded, FaultsStay

CallEarned(c) ==
    /\ call[c].step \in {"read", "mark", "pull"} => call[c].key \in PaidKeys
    /\ \A d \in call[c].todo : d.deliver => d.key \in PaidKeys

\* Whatever leads to Ink being kept is there only for an earned key.
ChargeInv ==
    /\ \A k \in Key : kept[k] # Zero => k \in PaidKeys
    /\ \A k \in Key : generation[k] = "completed" => k \in PaidKeys
    /\ \A k \in Key : holds[k].deliver => k \in PaidKeys
    /\ \A c \in Caller : CallEarned(c)

\* One call moves on; what it saw delivered before is all it saw.
LEMMA CallCharge ==
    ASSUME ChargeInv, PaidKeys \subseteq PaidKeys', NEW c \in Caller,
           \A d \in Caller \ {c} : call'[d] = call[d],
           call'[c].todo \subseteq call[c].todo,
           call'[c].step \in {"read", "mark", "pull"} => call'[c].key \in PaidKeys'
    PROVE  \A d \in Caller : CallEarned(d)'
  <1>1. \A d \in Caller : CallEarned(d)
    BY DEF ChargeInv
  <1>2. CallEarned(c)'
    BY <1>1 DEF CallEarned
  <1>3. \A d \in Caller \ {c} : CallEarned(d)'
    BY <1>1 DEF CallEarned
  <1> QED
    BY <1>2, <1>3

LEMMA ReturnCharge ==
    ASSUME TypeOK, ChargeInv, PaidKeys \subseteq PaidKeys', NEW c \in Caller,
           NEW out \in Outcome, NEW units \in Nat, Return(c, out, units)
    PROVE  \A d \in Caller : CallEarned(d)'
  <1>1. call \in [Caller -> Call]
    BY DEF TypeOK
  <1>2. call'[c].todo \subseteq call[c].todo
    BY <1>1 DEF Return, Idle
  <1> QED
    BY <1>2, ReturnEffect, CallCharge

\* What is left of the invariant once the calls are known to keep it.
LEMMA AccountCharge ==
    ASSUME ChargeInv, PaidKeys \subseteq PaidKeys', \A c \in Caller : CallEarned(c)',
           \A k \in Key : kept'[k] # kept[k] => k \in PaidKeys',
           \A k \in Key : generation'[k] = "completed" =>
              generation[k] = "completed" \/ k \in PaidKeys',
           \A k \in Key : holds'[k].deliver => holds[k].deliver \/ k \in PaidKeys'
    PROVE  ChargeInv'
  BY DEF ChargeInv

LEMMA SameCalls ==
    ASSUME ChargeInv, PaidKeys \subseteq PaidKeys', UNCHANGED call
    PROVE  \A c \in Caller : CallEarned(c)'
  BY DEF ChargeInv, CallEarned

\* No write of a route delivers a hold, or keeps Ink.
LEMMA RouteCharge ==
    ASSUME TypeOK, ChargeInv, PaidKeys \subseteq PaidKeys', NEW k \in Key,
           RouteWrite(k) \/ Expire(k),
           \A j \in Key : generation'[j] = "completed" =>
              generation[j] = "completed" \/ j \in PaidKeys'
    PROVE  ChargeInv'
  <1>1. holds \in [Key -> Hold]
    BY DEF TypeOK
  <1>2. UNCHANGED <<call, kept>>
    BY DEF RouteWrite, Expire, HoldInk, SetHoldSettleUnits, ExtendInkHold, ReleaseInk,
           RecordGeneration
  <1>3. ASSUME NEW j \in Key, holds'[j].deliver
        PROVE  holds[j].deliver
    <2>1. ASSUME NEW u, HoldInk(k, u)
          PROVE  holds[j].deliver
      BY <1>1, <1>3, <2>1 DEF HoldInk, NewHold
    <2>2. ASSUME NEW u, SetHoldSettleUnits(k, u)
          PROVE  holds[j].deliver
      BY <1>1, <1>3, <2>2 DEF SetHoldSettleUnits, Hold
    <2>3. CASE ExtendInkHold(k) \/ Expire(k)
      BY <1>1, <1>3, <2>3 DEF ExtendInkHold, Expire, Hold
    <2>4. CASE ReleaseInk(k)
      BY <1>1, <1>3, <2>4 DEF ReleaseInk, Refund, NoHold
    <2>5. ASSUME NEW status, RecordGeneration(k, status)
          PROVE  holds[j].deliver
      BY <1>3, <2>5 DEF RecordGeneration
    <2> QED
      BY <2>1, <2>2, <2>3, <2>4, <2>5 DEF RouteWrite
  <1> QED
    BY <1>2, <1>3, SameCalls, AccountCharge

LEMMA SettleCharge ==
    ASSUME IInv, ChargeInv, PaidKeys \subseteq PaidKeys', NEW c \in Caller, SettleStep(c)
    PROVE  ChargeInv'
  <1>1. TypeOK /\ call \in [Caller -> Call] /\ holds \in [Key -> Hold] /\ CallOK(c)
    BY DEF IInv, TypeOK
  <1>2. CallEarned(c) /\ call[c] \in Call
    BY <1>1 DEF ChargeInv
  <1>3. "no_hold" \in Outcome /\ "settled" \in Outcome /\ 0 \in Nat /\ call[c].units \in Nat
    BY <1>2 DEF Outcome, Call
  <1>4. CASE SettleRead(c)
    <2>1. UNCHANGED <<holds, generation, kept>>
      BY <1>4 DEF SettleRead
    <2>2. CASE Return(c, "no_hold", 0)
      BY <1>1, <1>3, <2>1, <2>2, ReturnCharge, AccountCharge
    <2>3. CASE ~Return(c, "no_hold", 0)
      <3>1. /\ \A d \in Caller \ {c} : call'[d] = call[d]
            /\ call'[c].todo = call[c].todo /\ call'[c].key = call[c].key
            /\ call[c].step = "read"
        BY <1>1, <1>4, <2>3 DEF SettleRead, Call
      <3>2. call'[c].key \in PaidKeys'
        BY <1>2, <3>1 DEF CallEarned
      <3> QED
        BY <2>1, <3>1, <3>2, CallCharge, AccountCharge
    <2> QED
      BY <2>2, <2>3
  <1>5. CASE SettleMark(c)
    <2>1. UNCHANGED <<generation, kept>> /\ call[c].key \in PaidKeys'
      BY <1>2, <1>5 DEF SettleMark, CallEarned
    <2>2. CASE ~Pinned(call[c].key, call[c].hold)
      BY <1>1, <1>3, <1>5, <2>1, <2>2, ReturnCharge, AccountCharge DEF SettleMark
    <2>3. CASE Pinned(call[c].key, call[c].hold)
      <3>1. call' = [call EXCEPT ![c].step = "pull"]
        BY <1>5, <2>3 DEF SettleMark
      <3>2. \A k \in Key \ {call[c].key} : holds'[k] = holds[k]
        BY <1>1, <1>5, <2>3 DEF SettleMark
      <3>3. /\ \A d \in Caller \ {c} : call'[d] = call[d]
            /\ call'[c].todo = call[c].todo /\ call'[c].key = call[c].key
        BY <1>1, <3>1 DEF Call
      <3> QED
        BY <2>1, <3>2, <3>3, CallCharge, AccountCharge
    <2> QED
      BY <2>2, <2>3
  <1>6. CASE SettlePull(c)
    <2>1. UNCHANGED generation /\ call[c].key \in PaidKeys'
      BY <1>2, <1>6 DEF SettlePull, CallEarned
    <2>2. CASE ~Pinned(call[c].key, call[c].hold)
      <3>1. Return(c, "no_hold", 0) /\ UNCHANGED <<holds, kept>>
        BY <1>6, <2>2 DEF SettlePull, PullMissed
      <3> QED
        BY <1>1, <1>3, <2>1, <3>1, ReturnCharge, AccountCharge
    <2>3. CASE Pinned(call[c].key, call[c].hold)
      <3>1. \A k \in Key \ {call[c].key} : holds'[k] = holds[k] /\ kept'[k] = kept[k]
        BY <1>1, <1>6, <2>3 DEF SettlePull, TypeOK
      <3>2. \A d \in Caller : CallEarned(d)'
        <4>1. CASE Return(c, "settled", 0)
          BY <1>1, <1>3, <4>1, ReturnCharge
        <4>2. CASE ~Return(c, "settled", 0)
          <5>1. PICK rows, units : call' = [call EXCEPT ![c].step = "rows", ![c].rows = rows,
                                                        ![c].units = units]
            BY <1>6, <2>3, <4>2 DEF SettlePull
          <5>2. /\ \A d \in Caller \ {c} : call'[d] = call[d]
                /\ call'[c].todo = call[c].todo /\ call'[c].step = "rows"
            BY <1>1, <5>1 DEF Call
          <5> QED
            BY <5>2, CallCharge
        <4> QED
          BY <4>1, <4>2
      <3> QED
        BY <2>1, <3>1, <3>2, AccountCharge
    <2> QED
      BY <2>2, <2>3
  <1>7. CASE SettleRows(c) \/ SettleRowsFail(c)
    <2>1. UNCHANGED <<holds, generation, kept>> /\ Return(c, "settled", call[c].units)
      BY <1>7 DEF SettleRows, SettleRowsFail, WriteRows
    <2> QED
      BY <1>1, <1>3, <2>1, ReturnCharge, AccountCharge
  <1> QED
    BY <1>4, <1>5, <1>6, <1>7 DEF SettleStep

LEMMA SweepCharge ==
    ASSUME IInv, ChargeInv, PaidKeys \subseteq PaidKeys', NEW c \in Caller, SweepStep(c)
    PROVE  ChargeInv'
  <1>1. TypeOK /\ call \in [Caller -> Call] /\ holds \in [Key -> Hold] /\ CallOK(c)
    BY DEF IInv, TypeOK
  <1>2. CallEarned(c) /\ call[c] \in Call
    BY <1>1 DEF ChargeInv
  <1>3. "none" \in Outcome /\ 0 \in Nat
    BY DEF Outcome
  <1>4. UNCHANGED <<generation, kept>>
    BY DEF SweepStep, SweepRead, SweepNext, SweepEnd, SweepLook, SweepRelease, SweepReread
  <1>5. CASE SweepRead(c)
    <2>1. UNCHANGED holds /\ \A d \in Caller \ {c} : call'[d] = call[d]
      BY <1>1, <1>5 DEF SweepRead
    <2>2. call'[c].step \in {"idle", "next"} /\ call'[c].todo \subseteq Expired
      BY <1>1, <1>5 DEF SweepRead, Idle
    <2>3. \A d \in Expired : d.deliver => d.key \in PaidKeys'
      BY DEF Expired, ChargeInv
    <2>4. CallEarned(c)' /\ \A d \in Caller \ {c} : CallEarned(d)'
      BY <2>1, <2>2, <2>3 DEF ChargeInv, CallEarned
    <2> QED
      BY <1>4, <2>1, <2>4, AccountCharge
  <1>6. CASE SweepNext(c)
    <2>1. PICK d \in call[c].todo :
             call' = [call EXCEPT ![c] =
                        [Idle EXCEPT !.step = IF d.deliver THEN "read" ELSE "look",
                                     !.sweeping = TRUE, !.key = d.key,
                                     !.hold = [NoSnapshot EXCEPT !.expiresAt = d.expiresAt],
                                     !.todo = call[c].todo \ {d}]]
      BY <1>6 DEF SweepNext
    <2>2. /\ \A e \in Caller \ {c} : call'[e] = call[e]
          /\ call'[c].todo \subseteq call[c].todo /\ call'[c].key = d.key
          /\ call'[c].step = IF d.deliver THEN "read" ELSE "look"
      BY <1>1, <2>1 DEF Idle
    <2>3. d.deliver => d.key \in PaidKeys'
      BY <1>2 DEF CallEarned
    <2> QED
      BY <1>4, <1>6, <2>2, <2>3, CallCharge, AccountCharge DEF SweepNext
  <1>7. CASE SweepEnd(c)
    <2>1. /\ \A e \in Caller \ {c} : call'[e] = call[e]
          /\ call'[c].todo = {} /\ call'[c].step = "idle"
      BY <1>1, <1>7 DEF SweepEnd, Idle
    <2> QED
      BY <1>4, <1>7, <2>1, CallCharge, AccountCharge DEF SweepEnd
  <1>8. CASE SweepLook(c)
    <2>1. /\ \A e \in Caller \ {c} : call'[e] = call[e]
          /\ call'[c].todo = call[c].todo /\ call'[c].key = call[c].key
          /\ call'[c].step = IF Completed(call[c].key) THEN "read" ELSE "release"
      BY <1>1, <1>8 DEF SweepLook, Call
    <2>2. call[c].key \in Key
      BY <1>1, <1>8 DEF SweepLook, CallOK
    <2>3. Completed(call[c].key) => call[c].key \in PaidKeys'
      BY <2>2 DEF Completed, ChargeInv
    <2> QED
      BY <1>4, <1>8, <2>1, <2>3, CallCharge, AccountCharge DEF SweepLook
  <1>9. CASE SweepRelease(c)
    <2>1. CASE Releasable(call[c].key, call[c].hold)
      <3>1. Refund(call[c].key) /\ Return(c, "none", 0)
        BY <1>9, <2>1 DEF SweepRelease
      <3>2. \A k \in Key : holds'[k].deliver => holds[k].deliver
        BY <1>1, <3>1 DEF Refund, NoHold
      <3> QED
        BY <1>1, <1>3, <1>4, <3>1, <3>2, ReturnCharge, AccountCharge
    <2>2. CASE ~Releasable(call[c].key, call[c].hold)
      <3>1. /\ \A e \in Caller \ {c} : call'[e] = call[e]
            /\ call'[c].todo = call[c].todo /\ call'[c].step = "reread" /\ UNCHANGED holds
        BY <1>1, <1>9, <2>2 DEF SweepRelease, Call
      <3> QED
        BY <1>4, <3>1, CallCharge, AccountCharge
    <2> QED
      BY <2>1, <2>2
  <1>10. CASE SweepReread(c)
    <2>1. call[c].key \in Key /\ UNCHANGED holds
      BY <1>1, <1>10 DEF SweepReread, CallOK
    <2>2. CASE holds[call[c].key].deliver /\ call' = [call EXCEPT ![c].step = "read"]
      <3>1. /\ \A e \in Caller \ {c} : call'[e] = call[e]
            /\ call'[c].todo = call[c].todo /\ call'[c].key = call[c].key
        BY <1>1, <2>2 DEF Call
      <3>2. call[c].key \in PaidKeys'
        BY <2>1, <2>2 DEF ChargeInv
      <3> QED
        BY <1>4, <2>1, <3>1, <3>2, CallCharge, AccountCharge
    <2>3. CASE Return(c, "none", 0)
      BY <1>1, <1>3, <1>4, <2>1, <2>3, ReturnCharge, AccountCharge
    <2> QED
      BY <1>10, <2>2, <2>3 DEF SweepReread
  <1> QED
    BY <1>5, <1>6, <1>7, <1>8, <1>9, <1>10 DEF SweepStep

LEMMA BeginCharge ==
    ASSUME TypeOK, ChargeInv, PaidKeys \subseteq PaidKeys', NEW c \in Caller, NEW k, NEW a,
           SettleBegin(c, k, a), k \in PaidKeys'
    PROVE  ChargeInv'
  <1>1. call \in [Caller -> Call]
    BY DEF TypeOK
  <1>2. /\ \A d \in Caller \ {c} : call'[d] = call[d]
        /\ call'[c].todo = {} /\ call'[c].key = k
    BY <1>1 DEF SettleBegin, Idle
  <1> QED
    BY <1>2, CallCharge, AccountCharge DEF SettleBegin

LEMMA ThrowCharge ==
    ASSUME TypeOK, ChargeInv, PaidKeys \subseteq PaidKeys', NEW c \in Caller, CallThrows(c)
    PROVE  ChargeInv'
  <1>1. call \in [Caller -> Call] /\ "threw" \in Outcome /\ 0 \in Nat
    BY DEF TypeOK, Outcome
  <1>2. CASE Return(c, "threw", 0)
    BY <1>1, <1>2, ReturnCharge, AccountCharge DEF CallThrows
  <1>3. CASE call' = [call EXCEPT ![c] = [Idle EXCEPT !.out = "threw"]]
    <2>1. /\ \A d \in Caller \ {c} : call'[d] = call[d]
          /\ call'[c].todo = {} /\ call'[c].step = "idle"
      BY <1>1, <1>3 DEF Idle
    <2> QED
      BY <2>1, CallCharge, AccountCharge DEF CallThrows
  <1> QED
    BY <1>2, <1>3 DEF CallThrows

LEMMA BesideCharge ==
    ASSUME ChargeInv, PaidKeys \subseteq PaidKeys',
           OtherWriter \/ ProcessDies \/ UNCHANGED inkVars
    PROVE  ChargeInv'
  <1>1. UNCHANGED <<holds, generation, kept>>
    BY DEF OtherWriter, GrantSubscriptionInk, GrantTopupInk, CancelSubscriptionInk,
           ReverseRefundInk, ProcessDies, inkVars
  <1>2. CASE UNCHANGED call
    BY <1>1, <1>2, SameCalls, AccountCharge
  <1>3. CASE ProcessDies
    <2>1. \A c \in Caller : CallEarned(c)'
      BY <1>3 DEF ProcessDies, CallEarned, Idle
    <2> QED
      BY <1>1, <2>1, AccountCharge
  <1> QED
    BY <1>2, <1>3 DEF OtherWriter, GrantSubscriptionInk, GrantTopupInk,
       CancelSubscriptionInk, ReverseRefundInk, inkVars

\* A route's write, landed or not, that does not record a completed attempt.
LEMMA WriteCharge ==
    ASSUME TypeOK, ChargeInv, PaidKeys \subseteq PaidKeys', NEW k \in Key,
           \/ HoldInk(k, Cost) \/ ExtendInkHold(k) \/ Release(k) \/ TryRelease(k) \/ Expire(k)
           \/ Maybe(HoldInk(k, Cost))
           \/ \E b \in FigureSet : SetHoldSettleUnits(k, b) \/ Maybe(SetHoldSettleUnits(k, b))
           \/ RecordGeneration(k, "failed") \/ Maybe(RecordGeneration(k, "failed"))
           \/ UNCHANGED inkVars
    PROVE  ChargeInv'
  <1>1. Cost \in CostSet
    BY CostAssumption
  <1>2. Release(k) \/ TryRelease(k) => ReleaseInk(k) \/ UNCHANGED inkVars
    BY DEF Release, TryRelease, Maybe
  <1>3. CASE HoldInk(k, Cost) \/ ExtendInkHold(k) \/ ReleaseInk(k) \/ Expire(k)
               \/ \E b \in FigureSet : SetHoldSettleUnits(k, b)
    <2>1. UNCHANGED generation
      BY <1>3 DEF HoldInk, ExtendInkHold, ReleaseInk, Expire, SetHoldSettleUnits
    <2>2. RouteWrite(k) \/ Expire(k)
      BY <1>1, <1>3 DEF RouteWrite
    <2> QED
      BY <2>1, <2>2, RouteCharge
  <1>4. CASE RecordGeneration(k, "failed")
    <2>1. \A j \in Key : generation'[j] = "completed" => generation[j] = "completed"
      BY <1>4 DEF RecordGeneration, TypeOK
    <2>2. RouteWrite(k)
      BY <1>4 DEF RouteWrite
    <2> QED
      BY <2>1, <2>2, RouteCharge
  <1>5. CASE UNCHANGED inkVars
    BY <1>5, BesideCharge
  <1> QED
    BY <1>2, <1>3, <1>4, <1>5 DEF Maybe

LEMMA CompletedCharge ==
    ASSUME TypeOK, RequestInv, ChargeInv, PaidKeys \subseteq PaidKeys',
           NEW r \in Request, RecordCompleted(r)
    PROVE  ChargeInv'
  <1> DEFINE k == rq[r].key
  <1>1. /\ rq \in [Request -> RequestState] /\ rq[r].pc = "record" /\ k \in Key
        /\ rq[r].saved /\ ~rq[r].dup
    BY DEF RequestInv, RequestsOK, RequestOK, RecordCompleted, At
  <1>2. CASE RecordGeneration(k, "completed") /\ Go(r, "finish")
    <2>1. rq'[r] = [rq[r] EXCEPT !.pc = "finish"]
      BY <1>1, <1>2 DEF Go
    <2>2. rq'[r].key = k /\ Earns(rq'[r])
      BY <1>1, <2>1 DEF Earns, RequestState
    <2>3. k \in PaidKeys'
      BY <1>1, <1>2, <2>2 DEF PaidKeys, EarnedKeys, RecordGeneration, TypeOK
    <2>4. \A j \in Key : generation'[j] = "completed" =>
             generation[j] = "completed" \/ j \in PaidKeys'
      BY <1>2, <2>3 DEF RecordGeneration, TypeOK
    <2>5. RouteWrite(k)
      BY <1>2 DEF RouteWrite
    <2> QED
      BY <1>1, <2>4, <2>5, RouteCharge
  <1>3. CASE UNCHANGED inkVars
    BY <1>3, BesideCharge
  <1> QED
    BY <1>2, <1>3 DEF RecordCompleted, Maybe

LEMMA FinishCharge ==
    ASSUME TypeOK, RequestInv, RunsInv, ChargeInv, PaidKeys \subseteq PaidKeys', FaultsStay,
           NEW r \in Request, Finish(r) \/ Repay(r)
    PROVE  ChargeInv'
  <1>1. /\ rq \in [Request -> RequestState] /\ rq[r] \in RequestState /\ RequestOK(rq[r])
        /\ r \in Caller
    BY CallerAssumption DEF RequestInv, RequestsOK
  <1>2. rq[r].key \in Key
    BY <1>1 DEF RequestOK, Finish, Repay, At
  <1>3. CASE UNCHANGED inkVars
    BY <1>3, BesideCharge
  <1>4. CASE ~UNCHANGED inkVars
    <2>1. SettleBegin(r, rq[r].key, rq[r].band)
      BY <1>4 DEF Finish, Repay
    <2>2. rq'[r].key = rq[r].key /\ Earns(rq'[r])
      <3>1. CASE Finish(r)
        <4>1. ~rq[r].dup /\ (rq[r].saved \/ ~rq[r].gone)
          BY <1>4, <3>1 DEF Finish, GivesBack
        <4>2. rq'[r] = [rq[r] EXCEPT !.pc = "settle", !.present = ~rq[r].gone]
          BY <1>1, <1>4, <3>1 DEF Finish
        <4> QED
          BY <1>1, <4>1, <4>2 DEF Earns, RequestState
      <3>2. CASE Repay(r)
        <4>1. ~rq[r].dup /\ (rq[r].saved \/ rq[r].present)
          BY <1>1, <3>2 DEF Repay, At, RequestOK, Settling
        <4>2. rq'[r] = [rq[r] EXCEPT !.pc = "resettle"]
          BY <1>1, <3>2 DEF Repay, Go
        <4> QED
          BY <1>1, <4>1, <4>2 DEF Earns, RequestState
      <3> QED
        BY <3>1, <3>2
    <2>3. faults' = 0 => generation'[rq[r].key] = "completed"
      <3>1. rq[r].pc \in Decided /\ ~rq[r].dup /\ UNCHANGED generation
        BY <1>1, <1>4, <2>1 DEF Finish, Repay, At, GivesBack, Decided, Settling, RequestOK,
           SettleBegin
      <3>2. Rowed(rq[r], generation, faults)
        BY DEF RunsInv
      <3> QED
        BY <3>1, <3>2 DEF Rowed, FaultsStay
    <2>4. rq[r].key \in PaidKeys'
      BY <1>2, <2>2, <2>3 DEF PaidKeys, EarnedKeys
    <2> QED
      BY <1>1, <2>1, <2>4, BeginCharge
  <1> QED
    BY <1>3, <1>4

LEMMA CallStepCharge ==
    ASSUME IInv, ChargeInv, PaidKeys \subseteq PaidKeys', NEW c \in Caller,
           CallStep(c) \/ SweepRead(c) \/ SettleMark(c)
    PROVE  ChargeInv'
  <1>1. TypeOK
    BY DEF IInv
  <1>2. SettleStep(c) \/ SweepStep(c) \/ CallThrows(c)
    BY DEF CallStep, SettleStep, SweepStep
  <1> QED
    BY <1>1, <1>2, SettleCharge, SweepCharge, ThrowCharge

LEMMA RequestCharge ==
    ASSUME IInv, RequestInv, RunsInv, ChargeInv, PaidKeys \subseteq PaidKeys', FaultsStay,
           NEW r \in Request, Proceed(r) \/ Beat(r)
    PROVE  ChargeInv'
  <1>1. TypeOK /\ RequestOK(rq[r]) /\ r \in Caller
    BY CallerAssumption DEF RequestInv, IInv
  <1>2. rq[r].pc # "idle" => rq[r].key \in Key
    BY <1>1 DEF RequestOK
  <1>3. CASE CourtUnavailable(r) \/ RunFails(r) \/ RunSucceeds(r) \/ Save(r) \/ Settled(r)
               \/ Lost(r) \/ Classify(r) \/ Resettled(r) \/ SendDone(r)
    <2>1. UNCHANGED inkVars
      BY <1>3 DEF CourtUnavailable, RunFails, RunSucceeds, Save, Settled, Lost, Classify,
                  Resettled, SendDone
    <2> QED
      BY <2>1, BesideCharge
  <1>4. CASE TakeHold(r) \/ Rehold(r)
    BY <1>1, <1>2, <1>4, WriteCharge DEF TakeHold, Rehold, At
  <1>5. CASE GiveUp(r) \/ GiveBack(r) \/ Undo(r)
    BY <1>1, <1>2, <1>5, WriteCharge DEF GiveUp, GiveBack, Undo, At
  <1>6. CASE RecordFailed(r)
    BY <1>1, <1>2, <1>6, WriteCharge DEF RecordFailed, At
  <1>7. CASE Deliver(r)
    <2>1. rq[r].band \in FigureSet /\ rq[r].key \in Key
      BY <1>1, <1>2, <1>7 DEF Deliver, At, RequestOK
    <2> QED
      BY <1>1, <1>7, <2>1, WriteCharge DEF Deliver
  <1>8. CASE Beat(r)
    <2>1. rq[r].key \in Key
      BY <1>2, <1>8 DEF Beat, Alive
    <2> QED
      BY <1>1, <1>8, <2>1, WriteCharge DEF Beat
  <1>9. CASE OwnSweep(r)
    BY <1>1, <1>9, CallStepCharge, BesideCharge DEF OwnSweep
  <1>10. CASE MarkHold(r) \/ CallStep(r)
    BY <1>1, <1>10, CallStepCharge DEF MarkHold
  <1> QED
    BY <1>1, <1>3, <1>4, <1>5, <1>6, <1>7, <1>8, <1>9, <1>10, CompletedCharge, FinishCharge
    DEF Proceed, Withhold

LEMMA ChargeStep ==
    ASSUME IInv, RequestInv, RunsInv, ChargeInv, [Next]_vars
    PROVE  ChargeInv'
  <1>1. TypeOK /\ PaidKeys \subseteq PaidKeys' /\ FaultsStay
    BY RequestStep, RowsStay, PaidStay DEF IInv
  <1>2. CASE UNCHANGED vars
    BY <1>1, <1>2, BesideCharge DEF vars
  <1>3. ASSUME NEW r \in Request, Start(r) \/ Proceed(r) \/ Beat(r) \/ ClientGone(r)
        PROVE  ChargeInv'
    BY <1>1, <1>3, RequestCharge, BesideCharge DEF Start, ClientGone
  <1>4. ASSUME NEW s \in Sweeper, TimerSweep(s) \/ CallStep(s)
        PROVE  ChargeInv'
    BY <1>1, <1>4, CallStepCharge, CallerAssumption DEF TimerSweep
  <1>5. ASSUME NEW k \in Key, HoldExpires(k)
        PROVE  ChargeInv'
    BY <1>1, <1>5, WriteCharge DEF HoldExpires
  <1>6. CASE AccountChanges \/ Crash
    BY <1>1, <1>6, BesideCharge DEF AccountChanges, Crash
  <1> QED
    BY <1>2, <1>3, <1>4, <1>5, <1>6 DEF Next

\* Ink is kept for paid keys only, whatever fails or dies.
LEMMA ChargeInvariant == Spec => []ChargeInv
  <1>1. Init => ChargeInv
    BY DEF Init, InkInit, ChargeInv, CallEarned, NoHold, Idle
  <1>2. IInv /\ RequestInv /\ RunsInv /\ ChargeInv /\ [Next]_vars => ChargeInv'
    BY ChargeStep
  <1> QED
    BY <1>1, <1>2, DraftInvariant, RunsInvariant, PTL DEF Spec

\* "Ink is kept only when the draft reached the user": whatever is retried, sent
\* twice, lost, swept or crashed, no Ink is ever kept for an attempt that none of
\* its requests saved, or showed to a client still there.
THEOREM ChargeRuleHolds == Spec => []ChargeRule
  <1>1. ChargeInv => ChargeRule
    BY DEF ChargeInv, ChargeRule, PaidKeys, EarnedKeys, Earns, Delivered
  <1> QED
    BY <1>1, ChargeInvariant, PTL

\* A run is paid for once, however often it is retried, with no exception but the
\* one OneDraftPerRun names: an attempt that was sent twice, and a call that threw.
THEOREM OneDraftCharged == Spec => []OneDraftPerRun
  <1>1. IInv /\ RequestInv /\ RunsInv /\ ChargeInv => OneDraftPerRun
    <2> SUFFICES ASSUME IInv, RequestInv, RunsInv, ChargeInv, NEW j \in Key, NEW k \in Key,
                        j[1] = k[1], j[2] < k[2], kept[j] # Zero, kept[k] # Zero
                 PROVE  faults > 0 /\ Twins(j)
      BY DEF OneDraftPerRun
    <2>1. j \in PaidKeys /\ k \in PaidKeys
      BY DEF ChargeInv
    <2>2. PICK p \in Request : rq[p].key = j /\ Earns(rq[p])
      BY <2>1 DEF PaidKeys, EarnedKeys
    <2>3. PICK q \in Request : rq[q].key = k /\ Earns(rq[q])
      BY <2>1 DEF PaidKeys, EarnedKeys
    <2>4. generation[j] = "failed"
      <3>1. Behind(k, generation)
        BY <2>3 DEF RunsInv, RequestInv, RequestOK, Earns, Early
      <3>2. j = <<k[1], j[2]>> /\ j[2] \in Nat /\ k[2] \in Nat /\ j[2] >= 1
        BY AttemptAssumption
      <3> QED
        BY <3>1, <3>2 DEF Behind
    <2>5. faults > 0
      BY <2>1, <2>4 DEF PaidKeys, RequestInv, RequestsOK
    <2>6. PICK r \in Request : rq[r].key = j /\ Failed(rq[r])
      BY <2>4 DEF RunsInv
    <2>7. p # r
      BY <2>2, <2>6 DEF Earns, Failed
    <2> QED
      BY <2>2, <2>5, <2>6, <2>7 DEF Twins
  <1> QED
    BY <1>1, DraftInvariant, RunsInvariant, ChargeInvariant, PTL

\* What is proved of the account, for the service that uses it: every bucket is
\* accounted for, the ledger stays within what was kept, and a sweep gives back
\* nothing but expired holds.
THEOREM DraftsConserveInk ==
    Spec => Conserve /\ []LedgerWithinKept /\ SweepReleasesOnlyExpired
  BY ChargeImplementsInk, InkConserved, LedgerNeverOvercharges, SweepReleasesExpired, PTL

-----------------------------------------------------------------------------
(* An attempt that was sent once. What is known of it, whatever its request's *)
(* sweep, other requests' sweeps and the timer's do beside it.               *)

\* No attempt was sent twice.
SentOnce == \A k \in Key : ~Twins(k)

\* A request that lost its hold to a settle still finds its key in inkSettled: no
\* INK_SETTLED_KEEP (50) other settles came between.
Remembered ==
    \A r \in Request : At(r, "lost") /\ kept[rq[r].key] # Zero => FoundSettled(r)

-----------------------------------------------------------------------------
(* Which call is whose: a settle outside a sweep is its request's own. *)

InSettle == {"settle", "resettle"}
SettleSteps == {"read", "mark", "pull", "rows"}

Linked(c) ==
    /\ call[c].sweeping => call[c].step # "idle" /\ call[c].actual = Unset
    /\ ~call[c].sweeping /\ call[c].step # "idle" =>
          /\ c \in Request /\ rq[c].pc \in InSettle
          /\ call[c].step \in SettleSteps
          /\ call[c].key = rq[c].key /\ call[c].actual = rq[c].band
    /\ c \in Request /\ rq[c].pc \in InSettle =>
          ~call[c].sweeping /\ (call[c].step = "idle" => call[c].out # "none")

LinkInv == \A c \in Caller : Linked(c)

\* The ways a call goes on: it returns, moves to a step of the same settle or sweep,
\* takes the next hold of a sweep, or a sweep ends.
Moves(c, step) ==
    /\ call'[c].sweeping = call[c].sweeping
    /\ call'[c].key = call[c].key
    /\ call'[c].actual = call[c].actual
    /\ call'[c].todo = call[c].todo
    /\ call'[c].step = step

LEMMA CallGoesOn ==
    ASSUME TypeOK, NEW c \in Caller, Linked(c), CallStep(c) \/ SettleMark(c)
    PROVE  /\ call[c].step # "idle"
           /\ \/ /\ call[c].sweeping
                 /\ \/ call'[c].sweeping /\ call'[c].actual = Unset /\ call'[c].step # "idle"
                    \/ ~call'[c].sweeping /\ call'[c].step = "idle"
              \/ /\ ~call[c].sweeping
                 /\ \/ ~call'[c].sweeping /\ call'[c].step = "idle" /\ call'[c].out # "none"
                    \/ \E step \in SettleSteps : Moves(c, step)
  <1>1. call \in [Caller -> Call] /\ call[c] \in Call
    BY DEF TypeOK
  <1> DEFINE Goal ==
               \/ /\ call[c].sweeping
                  /\ \/ call'[c].sweeping /\ call'[c].actual = Unset /\ call'[c].step # "idle"
                     \/ ~call'[c].sweeping /\ call'[c].step = "idle"
               \/ /\ ~call[c].sweeping
                  /\ \/ ~call'[c].sweeping /\ call'[c].step = "idle" /\ call'[c].out # "none"
                     \/ \E step \in SettleSteps : Moves(c, step)
  <1>2. ASSUME NEW out, NEW units, Return(c, out, units), out = "none" => call[c].sweeping
        PROVE  Goal
    <2>1. call'[c] = IF call[c].sweeping
                     THEN [Idle EXCEPT !.step = "next", !.sweeping = TRUE, !.todo = call[c].todo]
                     ELSE [Idle EXCEPT !.out = out, !.units = units]
      BY <1>1, <1>2 DEF Return
    <2>2. CASE call[c].sweeping
      BY <2>1, <2>2 DEF Idle
    <2>3. CASE ~call[c].sweeping
      BY <1>2, <2>1, <2>3 DEF Idle
    <2> QED
      BY <2>2, <2>3
  <1>3. ASSUME NEW step, step \in Step \ {"idle"}, step \in SettleSteps \/ call[c].sweeping,
               call[c].step # "idle", Moves(c, step)
        PROVE  Goal
    <2>1. call[c].sweeping => call[c].actual = Unset
      BY DEF Linked
    <2> QED
      BY <1>3, <2>1 DEF Moves
  <1>20. call[c].step # "idle"
    BY DEF CallStep, SettleRead, SettlePull, SettleRows, SettleRowsFail, WriteRows, SweepNext,
       SweepEnd, SweepLook, SweepRelease, SweepReread, CallThrows, SettleMark
  <1> SUFFICES Goal
    BY <1>20
  <1> HIDE DEF Goal
  <1>4. CASE SettleRead(c)
    <2>1. CASE holds[call[c].key].open
      <3>1. ASSUME NEW hold, call' = [call EXCEPT ![c].step = "mark", ![c].hold = hold]
            PROVE  Moves(c, "mark")
        BY <1>1, <3>1 DEF Call, Moves
      <3>2. Moves(c, "mark")
        BY <1>4, <2>1, <3>1 DEF SettleRead
      <3> QED
        BY <1>3, <1>20, <3>2 DEF SettleSteps, Step
    <2>2. CASE ~holds[call[c].key].open
      BY <1>2, <1>4, <2>2 DEF SettleRead
    <2> QED
      BY <1>4, <2>1, <2>2 DEF SettleRead
  <1>5. CASE SettleMark(c)
    <2>1. CASE Pinned(call[c].key, call[c].hold)
      <3>1. call' = [call EXCEPT ![c].step = "pull"]
        BY <1>5, <2>1 DEF SettleMark
      <3>2. Moves(c, "pull")
        BY <1>1, <3>1 DEF Call, Moves
      <3> QED
        BY <1>3, <1>20, <3>2 DEF SettleSteps, Step
    <2>2. CASE ~Pinned(call[c].key, call[c].hold)
      BY <1>2, <1>5, <2>2 DEF SettleMark
    <2> QED
      BY <1>5, <2>1, <2>2 DEF SettleMark
  <1>6. CASE SettlePull(c)
    <2>1. CASE Return(c, "no_hold", 0) \/ Return(c, "settled", 0)
      BY <1>2, <2>1
    <2>2. ASSUME NEW rows, NEW units,
                 call' = [call EXCEPT ![c].step = "rows", ![c].rows = rows, ![c].units = units]
          PROVE  Goal
      <3>1. Moves(c, "rows")
        BY <1>1, <2>2 DEF Call, Moves
      <3> QED
        BY <1>3, <1>20, <3>1 DEF SettleSteps, Step
    <2> QED
      BY <1>6, <2>1, <2>2 DEF SettlePull, PullMissed
  <1>7. CASE SettleRows(c) \/ SettleRowsFail(c)
    BY <1>2, <1>7 DEF SettleRows, SettleRowsFail, WriteRows
  <1>8. CASE SweepNext(c) \/ SweepEnd(c)
    <2>1. call[c].sweeping
      BY <1>8 DEF SweepNext, SweepEnd, Linked, SettleSteps
    <2>2. CASE SweepNext(c)
      <3>1. PICK d \in call[c].todo :
               call' = [call EXCEPT ![c] =
                          [Idle EXCEPT !.step = IF d.deliver THEN "read" ELSE "look",
                                       !.sweeping = TRUE, !.key = d.key,
                                       !.hold = [NoSnapshot EXCEPT !.expiresAt = d.expiresAt],
                                       !.todo = call[c].todo \ {d}]]
        BY <2>2 DEF SweepNext
      <3>2. call'[c].sweeping /\ call'[c].actual = Unset /\ call'[c].step # "idle"
        BY <1>1, <3>1 DEF Idle
      <3> QED
        BY <2>1, <3>2 DEF Goal
    <2>3. CASE SweepEnd(c)
      <3>1. ~call'[c].sweeping /\ call'[c].step = "idle"
        BY <1>1, <2>3 DEF SweepEnd, Idle
      <3> QED
        BY <2>1, <3>1 DEF Goal
    <2> QED
      BY <1>8, <2>2, <2>3
  <1>9. CASE SweepLook(c) \/ SweepRelease(c) \/ SweepReread(c)
    <2>1. call[c].sweeping /\ call[c].step # "idle"
      BY <1>9 DEF SweepLook, SweepRelease, SweepReread, Linked, SettleSteps
    <2>2. \/ Return(c, "none", 0)
          \/ \E step \in {"read", "release", "reread"} : call' = [call EXCEPT ![c].step = step]
      BY <1>9 DEF SweepLook, SweepRelease, SweepReread
    <2>3. ASSUME NEW step \in {"read", "release", "reread"}, call' = [call EXCEPT ![c].step = step]
          PROVE  Goal
      <3>1. Moves(c, step)
        BY <1>1, <2>3 DEF Call, Moves
      <3> QED
        BY <1>3, <2>1, <3>1 DEF Step
    <2> QED
      BY <1>2, <2>1, <2>2, <2>3
  <1>10. CASE CallThrows(c)
    <2>1. CASE call[c].step # "next"
      BY <1>2, <1>10, <2>1 DEF CallThrows
    <2>2. CASE call[c].step = "next"
      <3>1. call[c].sweeping
        BY <2>2 DEF Linked, SettleSteps
      <3>2. ~call'[c].sweeping /\ call'[c].step = "idle"
        BY <1>1, <1>10, <2>2 DEF CallThrows, Idle
      <3> QED
        BY <3>1, <3>2 DEF Goal
    <2> QED
      BY <2>1, <2>2
  <1> QED
    BY <1>4, <1>5, <1>6, <1>7, <1>8, <1>9, <1>10 DEF CallStep

LEMMA LinkCall ==
    ASSUME TypeOK, NEW c \in Caller, Linked(c), CallStep(c) \/ SettleMark(c),
           c \in Request =>
              rq'[c].pc = rq[c].pc /\ rq'[c].key = rq[c].key /\ rq'[c].band = rq[c].band
    PROVE  Linked(c)'
  <1>1. CASE call[c].sweeping
    BY <1>1, CallGoesOn DEF Linked
  <1>2. CASE ~call[c].sweeping
    BY <1>2, CallGoesOn DEF Linked, Moves, SettleSteps
  <1> QED
    BY <1>1, <1>2

\* A caller whose call and request stay, or whose request is not settling.
LEMMA LinkRest ==
    ASSUME NEW c \in Caller, Linked(c), call'[c] = call[c],
           c \in Request =>
              \/ rq'[c].pc = rq[c].pc /\ rq'[c].key = rq[c].key /\ rq'[c].band = rq[c].band
              \/ rq'[c].pc \notin InSettle /\ (rq[c].pc \in InSettle => call[c].step = "idle")
    PROVE  Linked(c)'
  BY DEF Linked
\* The steps of a request that leave its calls alone: those that write nothing,
\* those that take or give back the hold, and those that write beside it.
Walks(r) ==
    \/ CourtUnavailable(r) \/ RunFails(r) \/ RunSucceeds(r) \/ Save(r)
    \/ Finish(r) /\ GivesBack(r)
    \/ Settled(r) \/ Lost(r) \/ Classify(r) \/ Resettled(r)
    \/ SendDone(r) \/ ClientGone(r)
HoldsOrReleases(r) == TakeHold(r) \/ Rehold(r) \/ GiveUp(r) \/ GiveBack(r) \/ Undo(r)
Notes(r) == RecordFailed(r) \/ Deliver(r) \/ RecordCompleted(r) \/ Beat(r)

Plain(r) == Walks(r) \/ HoldsOrReleases(r) \/ Notes(r)

Begins(r) == (Finish(r) /\ ~GivesBack(r)) \/ Repay(r)

LEMMA StepKinds ==
    ASSUME NEW r \in Request, Proceed(r) \/ Beat(r) \/ ClientGone(r)
    PROVE  Plain(r) \/ Begins(r) \/ OwnSweep(r) \/ MarkHold(r) \/ CallStep(r)
  BY DEF Proceed, Withhold, Plain, Walks, HoldsOrReleases, Notes, Begins

LEMMA PlainEffect ==
    ASSUME RequestInv, NEW r \in Request, Plain(r)
    PROVE  /\ UNCHANGED call
           /\ \A q \in Request \ {r} : rq'[q] = rq[q]
           /\ rq'[r].key = rq[r].key
           /\ rq[r].pc \notin {"idle", "end"} /\ rq'[r].pc \notin {"idle", "sweep", "hold"} \cup InSettle
           /\ rq[r].pc \in InSettle => call[r].step = "idle"
  <1>1. rq \in [Request -> RequestState] /\ rq[r] \in RequestState
    BY DEF RequestInv, RequestsOK
  <1>2. CASE Walks(r)
    <2>1. UNCHANGED call
      BY <1>2 DEF Walks, CourtUnavailable, RunFails, RunSucceeds, Save, Finish, Settled, Lost, Classify,
         Resettled, SendDone, ClientGone, inkVars
    <2>2. rq[r].pc \in InSettle => call[r].step = "idle"
      BY <1>2 DEF Walks, CourtUnavailable, RunFails, RunSucceeds, Save, Finish, Settled, Lost, Classify,
         Resettled, SendDone, ClientGone, Alive, At, InSettle, Returned
    <2>3. rq[r].pc \notin {"idle", "end"}
      BY <1>2 DEF Walks, CourtUnavailable, RunFails, RunSucceeds, Save, Finish, Settled, Lost, Classify,
         Resettled, SendDone, ClientGone, Alive, At
    <2>4. /\ \A q \in Request \ {r} : rq'[q] = rq[q]
          /\ rq'[r].key = rq[r].key
          /\ rq'[r].pc \notin {"idle", "sweep", "hold"} \cup InSettle
      BY <1>1, <1>2 DEF Walks, CourtUnavailable, RunFails, RunSucceeds, Save, Finish, Settled, Lost,
         Classify, Resettled, SendDone, ClientGone, Alive, At, InSettle, Go, Answered, RequestState
    <2> QED
      BY <2>1, <2>2, <2>3, <2>4
  <1>3. CASE HoldsOrReleases(r)
    <2>1. UNCHANGED call
      BY <1>3 DEF HoldsOrReleases, TakeHold, Rehold, GiveUp, GiveBack, Undo, TryRelease, Release, ReleaseInk, Maybe,
         HoldInk, inkVars
    <2>2. rq[r].pc \in {"hold", "rehold", "giveup", "giveback", "undo"}
      BY <1>3 DEF HoldsOrReleases, TakeHold, Rehold, GiveUp, GiveBack, Undo, At
    <2>3. /\ \A q \in Request \ {r} : rq'[q] = rq[q]
          /\ rq'[r].key = rq[r].key
          /\ rq'[r].pc \notin {"idle", "sweep", "hold"} \cup InSettle
      BY <1>1, <1>3 DEF HoldsOrReleases, TakeHold, Rehold, GiveUp, GiveBack, Undo, InSettle, Go, Answered, RequestState
    <2> QED
      BY <2>1, <2>2, <2>3 DEF InSettle
  <1>4. CASE Notes(r)
    <2>1. UNCHANGED call
      BY <1>4 DEF Notes, RecordFailed, Deliver, RecordCompleted, Beat, RecordGeneration, Maybe,
         SetHoldSettleUnits, ExtendInkHold, inkVars
    <2>2. rq[r].pc \notin {"idle", "end"} \cup InSettle
      BY <1>4 DEF Notes, RecordFailed, Deliver, RecordCompleted, Beat, Alive, At, InSettle
    <2>3. CASE RecordFailed(r) \/ Deliver(r) \/ RecordCompleted(r)
      <3>1. /\ \A q \in Request \ {r} : rq'[q] = rq[q]
            /\ rq'[r].key = rq[r].key
            /\ rq'[r].pc \notin {"idle", "sweep", "hold"} \cup InSettle
        BY <1>1, <2>3 DEF RecordFailed, Deliver, RecordCompleted, InSettle, Go, Answered, RequestState
      <3> QED
        BY <2>1, <2>2, <3>1
    <2>4. CASE Beat(r)
      <3>1. /\ \A q \in Request \ {r} : rq'[q] = rq[q]
            /\ rq'[r].key = rq[r].key /\ rq'[r].pc = rq[r].pc
        BY <1>1, <2>4 DEF Beat, RequestState
      <3>2. rq[r].pc \in {"run", "deliver", "save", "record", "finish"}
        BY <2>4 DEF Beat, Alive
      <3> QED
        BY <2>1, <2>2, <3>1, <3>2 DEF InSettle
    <2> QED
      BY <1>4, <2>3, <2>4 DEF Notes
  <1> QED
    BY <1>2, <1>3, <1>4 DEF Plain

\* A sweep that begins, or finds nothing expired.
LEMMA SweepReadEffect ==
    ASSUME TypeOK, NEW c \in Caller, SweepRead(c)
    PROVE  \/ call'[c].sweeping = FALSE /\ call'[c].step = "idle" /\ call'[c].out = "none"
           \/ call'[c].sweeping = TRUE /\ call'[c].step = "next" /\ call'[c].actual = Unset
  <1>1. call' = [call EXCEPT ![c] =
                  IF Expired = {} THEN Idle
                  ELSE [Idle EXCEPT !.step = "next", !.sweeping = TRUE, !.todo = Expired]]
    BY DEF SweepRead
  <1>2. \/ call'[c] = Idle
        \/ call'[c] = [Idle EXCEPT !.step = "next", !.sweeping = TRUE, !.todo = Expired]
    BY <1>1 DEF TypeOK
  <1>3. CASE call'[c] = Idle
    BY <1>3 DEF Idle
  <1>4. CASE call'[c] = [Idle EXCEPT !.step = "next", !.sweeping = TRUE, !.todo = Expired]
    <2>1. /\ call'[c].sweeping = TRUE /\ call'[c].step = "next"
          /\ call'[c].actual = Idle.actual
      BY <1>4 DEF Idle
    <2> QED
      BY <2>1 DEF Idle
  <1> QED
    BY <1>2, <1>3, <1>4

\* A settle is begun by a call at rest.
LEMMA BeginsEffect ==
    ASSUME RequestInv, TypeOK, NEW r \in Request, Begins(r)
    PROVE  /\ SettleBegin(r, rq[r].key, rq[r].band)
           /\ \A c \in Caller \ {r} : call'[c] = call[c]
           /\ call'[r].step = "read" /\ call'[r].sweeping = FALSE
           /\ call'[r].key = rq[r].key /\ call'[r].actual = rq[r].band
           /\ call'[r].out = "none"
           /\ \A q \in Request \ {r} : rq'[q] = rq[q]
           /\ rq'[r].key = rq[r].key /\ rq'[r].band = rq[r].band
           /\ \/ rq[r].pc = "finish" /\ rq'[r].pc = "settle"
              \/ rq[r].pc = "repay" /\ rq'[r].pc = "resettle"
  <1>1. rq \in [Request -> RequestState] /\ call \in [Caller -> Call] /\ r \in Caller
    BY CallerAssumption DEF RequestInv, RequestsOK, TypeOK
  <1>2. SettleBegin(r, rq[r].key, rq[r].band)
    BY DEF Begins, Finish, Repay
  <1>3. /\ \A c \in Caller \ {r} : call'[c] = call[c]
        /\ call'[r] = [Idle EXCEPT !.step = "read", !.key = rq[r].key, !.actual = rq[r].band]
    BY <1>1, <1>2 DEF SettleBegin
  <1>6. /\ call'[r].step = "read" /\ call'[r].sweeping = FALSE
        /\ call'[r].key = rq[r].key /\ call'[r].actual = rq[r].band
        /\ call'[r].out = "none"
    BY <1>3 DEF Idle
  <1>4. CASE Finish(r) /\ ~GivesBack(r)
    <2>1. rq' = [rq EXCEPT ![r].pc = "settle", ![r].present = ~rq[r].gone] /\ rq[r].pc = "finish"
      BY <1>4 DEF Finish, At
    <2> QED
      BY <1>1, <1>2, <1>3, <1>6, <2>1 DEF RequestState
  <1>5. CASE Repay(r)
    <2>1. rq' = [rq EXCEPT ![r].pc = "resettle"] /\ rq[r].pc = "repay"
      BY <1>5 DEF Repay, At, Go
    <2> QED
      BY <1>1, <1>2, <1>3, <1>6, <2>1 DEF RequestState
  <1> QED
    BY <1>4, <1>5 DEF Begins

\* The steps of a request's calls leave its place and its attempt.
LEMMA CallEffect ==
    ASSUME RequestInv, TypeOK, NEW r \in Request, CallStep(r) \/ MarkHold(r)
    PROVE  /\ \A c \in Caller \ {r} : call'[c] = call[c]
           /\ \A q \in Request \ {r} : rq'[q] = rq[q]
           /\ rq'[r].pc = rq[r].pc /\ rq'[r].key = rq[r].key /\ rq'[r].band = rq[r].band
           /\ rq'[r].answer = rq[r].answer /\ rq'[r].saved = rq[r].saved
           /\ rq'[r].dup = rq[r].dup /\ rq'[r].present = rq[r].present
           /\ rq'[r].debited = rq[r].debited
  <1>1. rq \in [Request -> RequestState] /\ r \in Caller
    BY CallerAssumption DEF RequestInv, RequestsOK
  <1>2. \A c \in Caller \ {r} : call'[c] = call[c]
    <2>1. SettleStep(r) \/ SweepStep(r) \/ CallThrows(r)
      BY DEF CallStep, MarkHold, SettleStep, SweepStep
    <2> QED
      BY <1>1, <2>1, CallerAges
  <1>3. ASSUME NEW b, rq' = [rq EXCEPT ![r].stored = b]
        PROVE  /\ \A q \in Request \ {r} : rq'[q] = rq[q]
               /\ rq'[r].pc = rq[r].pc /\ rq'[r].key = rq[r].key /\ rq'[r].band = rq[r].band
               /\ rq'[r].answer = rq[r].answer /\ rq'[r].saved = rq[r].saved
               /\ rq'[r].dup = rq[r].dup /\ rq'[r].present = rq[r].present
               /\ rq'[r].debited = rq[r].debited
    BY <1>1, <1>3 DEF RequestState
  <1>4. rq' = rq \/ \E b : rq' = [rq EXCEPT ![r].stored = b]
    BY DEF CallStep, MarkHold
  <1> QED
    BY <1>2, <1>3, <1>4

LEMMA OwnSweepEffect ==
    ASSUME RequestInv, TypeOK, NEW r \in Request, OwnSweep(r)
    PROVE  /\ SweepRead(r) \/ UNCHANGED inkVars
           /\ \A c \in Caller \ {r} : call'[c] = call[c]
           /\ \A q \in Request \ {r} : rq'[q] = rq[q]
           /\ rq'[r].key = rq[r].key
           /\ \/ rq[r].pc = "sweep" /\ rq'[r].pc = "hold"
              \/ rq[r].pc = "resweep" /\ rq'[r].pc = "rehold"
           /\ UNCHANGED <<holds, stamp, inkSettled, generation, kept>>
  <1>1. /\ rq \in [Request -> RequestState] /\ r \in Caller
        /\ call \in [Caller -> Call]
    BY CallerAssumption DEF RequestInv, RequestsOK, TypeOK
  <1>2. SweepRead(r) \/ UNCHANGED inkVars
    BY DEF OwnSweep
  <1>3. /\ \A c \in Caller \ {r} : call'[c] = call[c]
        /\ UNCHANGED <<holds, stamp, inkSettled, generation, kept>>
    BY <1>1, <1>2 DEF SweepRead, inkVars
  <1>4. PICK from \in {"sweep", "resweep"} :
           At(r, from) /\ Go(r, IF from = "sweep" THEN "hold" ELSE "rehold")
    BY DEF OwnSweep
  <1>5. /\ \A q \in Request \ {r} : rq'[q] = rq[q]
        /\ rq'[r].key = rq[r].key /\ rq[r].pc = from
        /\ rq'[r].pc = IF from = "sweep" THEN "hold" ELSE "rehold"
    BY <1>1, <1>4 DEF At, Go, RequestState
  <1> QED
    BY <1>2, <1>3, <1>5
-----------------------------------------------------------------------------
(* What a step does to the hold of one key, and to what was kept of it. *)

Calm(k) ==
    /\ holds'[k].open = holds[k].open /\ holds'[k].units = holds[k].units
    /\ holds'[k].expiresAt = holds[k].expiresAt /\ holds'[k].deliver = holds[k].deliver
    /\ holds'[k].settleUnits = holds[k].settleUnits
    /\ kept'[k] = kept[k]
    /\ WasInkSettled(k)' => WasInkSettled(k)

Holding(c, k, step) ==
    call[c].step = step /\ call[c].key = k /\ Pinned(k, call[c].hold)

Marks(c, k) ==
    /\ Holding(c, k, "mark")
    /\ holds'[k].open /\ holds'[k].units = holds[k].units
    /\ holds'[k].expiresAt = holds[k].expiresAt
    /\ holds'[k].settleUnits = IF call[c].actual = Unset THEN holds[k].settleUnits
                               ELSE Lesser(call[c].actual, holds[k].units)
    /\ kept'[k] = kept[k]
    /\ WasInkSettled(k)' => WasInkSettled(k)

Pulls(c, k) ==
    /\ Holding(c, k, "pull")
    /\ ~holds'[k].open /\ holds'[k].settleUnits = Unset
    /\ Total(kept'[k]) = Total(kept[k]) + Charged(call[c].hold, call[c].actual)

Releases(c, k) ==
    /\ Holding(c, k, "release")
    /\ ~holds'[k].open /\ holds'[k].settleUnits = Unset
    /\ kept'[k] = kept[k]
    /\ WasInkSettled(k)' => WasInkSettled(k)

KeyStep(c, k) == Calm(k) \/ Marks(c, k) \/ Pulls(c, k) \/ Releases(c, k)

LEMMA SameIsCalm ==
    ASSUME NEW k \in Key, holds'[k] = holds[k], kept'[k] = kept[k], UNCHANGED inkSettled
    PROVE  Calm(k)
  BY DEF Calm, WasInkSettled

LEMMA AppendElsewhere ==
    ASSUME NEW S, NEW s \in Seq(S), NEW e \in S, NEW i \in 1..Len(Append(s, e)),
           Append(s, e)[i] # e
    PROVE  i \in 1..Len(s) /\ Append(s, e)[i] = s[i]
  OBVIOUS

LEMMA TailElements ==
    ASSUME NEW S, NEW s \in Seq(S), Len(s) >= 1, NEW i \in 1..Len(Tail(s))
    PROVE  Tail(s)[i] = s[i + 1] /\ i + 1 \in 1..Len(s)
  OBVIOUS

\* Another key's settle leaves k as settled, or not, as it was.
LEMMA PushOther ==
    ASSUME TypeOK, NEW j \in Key, NEW k \in Key \ {j}, inkSettled' = PushSettled(inkSettled, j)
    PROVE  WasInkSettled(k)' => WasInkSettled(k)
  <1>1. inkSettled \in Seq(Key) /\ SettledKeep \in Nat \ {0} /\ Len(inkSettled) \in Nat
    BY KeepAssumption DEF TypeOK
  <1> SUFFICES ASSUME NEW i \in 1..Len(inkSettled'), inkSettled'[i] = k
               PROVE  \E n \in 1..Len(inkSettled) : inkSettled[n] = k
    BY DEF WasInkSettled
  <1>2. CASE Len(inkSettled) < SettledKeep
    <2>1. inkSettled' = Append(inkSettled, j)
      BY <1>2 DEF PushSettled
    <2>2. i \in 1..Len(inkSettled) /\ inkSettled'[i] = inkSettled[i]
      BY <1>1, <2>1, AppendElsewhere
    <2> QED
      BY <2>2
  <1>3. CASE ~(Len(inkSettled) < SettledKeep)
    <2>1. inkSettled' = Append(Tail(inkSettled), j) /\ Len(inkSettled) >= 1
      BY <1>1, <1>3 DEF PushSettled
    <2>2. Tail(inkSettled) \in Seq(Key)
      BY <1>1, <2>1
    <2>3. i \in 1..Len(Tail(inkSettled)) /\ inkSettled'[i] = Tail(inkSettled)[i]
      BY <2>1, <2>2, AppendElsewhere
    <2>4. Tail(inkSettled)[i] = inkSettled[i + 1] /\ i + 1 \in 1..Len(inkSettled)
      BY <1>1, <2>1, <2>3, TailElements
    <2> QED
      BY <2>3, <2>4
  <1> QED
    BY <1>2, <1>3

LEMMA ChargedAtMost ==
    ASSUME NEW h \in Snapshot, NEW actual \in Nat \cup {Unset}
    PROVE  Charged(h, actual) <= h.units
  BY DEF Charged, Snapshot, Lesser, Unset

LEMMA MarkOnKey ==
    ASSUME IInv, NEW c \in Caller, NEW k \in Key, SettleMark(c)
    PROVE  Calm(k) \/ Marks(c, k)
  <1> DEFINE j == call[c].key
             actual == call[c].actual
             h == call[c].hold
  <1>1. /\ holds \in [Key -> Hold] /\ j \in Key /\ CallOK(c)
        /\ UNCHANGED <<kept, inkSettled>> /\ call[c].step = "mark"
    BY DEF IInv, TypeOK, CallOK, SettleMark
  <1>2. CASE ~Pinned(j, h) \/ j # k
    <2>1. holds'[k] = holds[k]
      BY <1>1, <1>2 DEF SettleMark
    <2> QED
      BY <1>1, <2>1, SameIsCalm
  <1>3. CASE Pinned(j, h) /\ j = k
    <2>1. holds[k].units = h.units
      BY <1>1, <1>3 DEF CallOK
    <2>2. holds' = [holds EXCEPT ![k].deliver = TRUE,
                                 ![k].settleUnits = IF actual = Unset THEN @ ELSE Lesser(actual, h.units)]
      BY <1>3 DEF SettleMark
    <2>3. /\ holds'[k].open = holds[k].open /\ holds'[k].units = holds[k].units
          /\ holds'[k].expiresAt = holds[k].expiresAt
          /\ holds'[k].settleUnits = IF actual = Unset THEN holds[k].settleUnits
                                     ELSE Lesser(actual, h.units)
      BY <1>1, <2>2 DEF Hold
    <2>4. holds[k].open
      BY <1>3 DEF Pinned
    <2> QED
      BY <1>1, <1>3, <2>1, <2>3, <2>4 DEF Marks, Holding, WasInkSettled
  <1> QED
    BY <1>2, <1>3

LEMMA PullOnKey ==
    ASSUME IInv, NEW c \in Caller, NEW k \in Key, SettlePull(c)
    PROVE  Calm(k) \/ Pulls(c, k)
  <1> DEFINE j == call[c].key
             h == call[c].hold
             part == TakeSplit(h.split, Charged(h, call[c].actual))
  <1>1. /\ TypeOK /\ j \in Key /\ CallOK(c) /\ HoldOK(j) /\ call[c].step = "pull"
        /\ holds \in [Key -> Hold] /\ kept \in [Key -> Amount] /\ call[c] \in Call
    BY DEF IInv, TypeOK, CallOK, SettlePull
  <1>2. CASE ~Pinned(j, h)
    <2>1. UNCHANGED <<holds, kept, inkSettled>>
      BY <1>2 DEF SettlePull, PullMissed
    <2> QED
      BY <2>1, SameIsCalm
  <1>3. CASE Pinned(j, h)
    <2>1. /\ holds' = [holds EXCEPT ![j] = NoHold]
          /\ inkSettled' = PushSettled(inkSettled, j)
          /\ kept' = [kept EXCEPT ![j] = Plus(@, part)]
      BY <1>3 DEF SettlePull
    <2>2. CASE j # k
      <3>1. holds'[k] = holds[k] /\ kept'[k] = kept[k]
        BY <1>1, <2>1, <2>2
      <3>2. WasInkSettled(k)' => WasInkSettled(k)
        BY <1>1, <2>1, <2>2, PushOther
      <3> QED
        BY <3>1, <3>2 DEF Calm
    <2>3. CASE j = k
      <3>1. h \in Snapshot /\ call[c].actual \in Nat \cup {Unset} /\ h.split \in Amount /\ h.units \in Nat
        BY <1>1 DEF Call, Snapshot
      <3>2. Charged(h, call[c].actual) \in Nat /\ Charged(h, call[c].actual) <= h.units
        BY <3>1, ChargedNat, ChargedAtMost
      <3>3. Total(h.split) = h.units
        BY <1>1, <1>3 DEF CallOK, HoldOK
      <3>4. part \in Amount /\ Total(part) = Charged(h, call[c].actual)
        BY <3>1, <3>2, <3>3, TakeSplitPart DEF Lesser
      <3>5. holds'[k] = NoHold /\ kept'[k] = Plus(kept[k], part)
        BY <1>1, <2>1, <2>3
      <3>6. kept[k] \in Amount
        BY <1>1
      <3>7. Total(kept'[k]) = Total(kept[k]) + Total(part)
        BY <3>4, <3>5, <3>6 DEF Total, Plus, Amount
      <3> QED
        BY <1>1, <1>3, <2>3, <3>4, <3>5, <3>7 DEF Pulls, Holding, NoHold
    <2> QED
      BY <2>2, <2>3
  <1> QED
    BY <1>2, <1>3

LEMMA CallOnKey ==
    ASSUME IInv, NEW c \in Caller, NEW k \in Key, CallStep(c) \/ SettleMark(c)
    PROVE  KeyStep(c, k)
  <1>1. /\ holds \in [Key -> Hold] /\ CallOK(c)
    BY DEF IInv, TypeOK
  <1>2. CASE SettleMark(c) \/ SettlePull(c)
    BY <1>2, MarkOnKey, PullOnKey DEF KeyStep
  <1>3. CASE SweepRelease(c)
    <2> DEFINE j == call[c].key
    <2>1. UNCHANGED <<kept, inkSettled>> /\ call[c].step = "release" /\ j \in Key
      BY <1>1, <1>3 DEF SweepRelease, CallOK
    <2>2. CASE ~Releasable(j, call[c].hold) \/ j # k
      <3>1. holds'[k] = holds[k]
        BY <1>1, <1>3, <2>1, <2>2 DEF SweepRelease, Refund
      <3> QED
        BY <2>1, <3>1, SameIsCalm DEF KeyStep
    <2>3. CASE Releasable(j, call[c].hold) /\ j = k
      <3>1. holds'[k] = NoHold
        BY <1>1, <1>3, <2>1, <2>3 DEF SweepRelease, Refund
      <3> QED
        BY <2>1, <2>3, <3>1 DEF KeyStep, Releases, Holding, Releasable, NoHold, WasInkSettled
    <2> QED
      BY <2>2, <2>3
  <1>4. CASE ~SettleMark(c) /\ ~SettlePull(c) /\ ~SweepRelease(c)
    <2>1. UNCHANGED <<holds, kept, inkSettled>>
      BY <1>4 DEF CallStep, SettleRead, SettleRows, SettleRowsFail, WriteRows, SweepNext,
         SweepEnd, SweepLook, SweepReread, CallThrows
    <2> QED
      BY <2>1, SameIsCalm DEF KeyStep
  <1> QED
    BY <1>2, <1>3, <1>4

\* What a request does by itself leaves the keys of others alone.
LEMMA PlainOnKey ==
    ASSUME IInv, NEW q \in Request, NEW k \in Key, rq[q].key # k, rq[q].key \in Key,
           Plain(q) \/ Begins(q) \/ OwnSweep(q)
    PROVE  Calm(k)
  <1>1. holds \in [Key -> Hold]
    BY DEF IInv, TypeOK
  <1> DEFINE j == rq[q].key
  <1>2. ASSUME \/ HoldInk(j, Cost) \/ ExtendInkHold(j) \/ ReleaseInk(j)
               \/ SetHoldSettleUnits(j, rq[q].band)
               \/ (\E status : RecordGeneration(j, status)) \/ UNCHANGED inkVars
        PROVE  holds'[k] = holds[k] /\ UNCHANGED <<kept, inkSettled>>
    BY <1>1, <1>2 DEF HoldInk, ExtendInkHold, ReleaseInk, Refund, SetHoldSettleUnits,
       RecordGeneration, inkVars
  <1>3. ASSUME TryRelease(j)
        PROVE  ReleaseInk(j) \/ UNCHANGED inkVars
    BY <1>3 DEF TryRelease, Release, Maybe
  <1>4. CASE HoldsOrReleases(q)
    <2>1. HoldInk(j, Cost) \/ ReleaseInk(j) \/ UNCHANGED inkVars
      BY <1>3, <1>4 DEF HoldsOrReleases, TakeHold, Rehold, GiveUp, GiveBack, Undo, Maybe
    <2> QED
      BY <1>2, <2>1, SameIsCalm
  <1>5. CASE Notes(q)
    <2>1. \/ ExtendInkHold(j) \/ SetHoldSettleUnits(j, rq[q].band)
          \/ (\E status : RecordGeneration(j, status)) \/ UNCHANGED inkVars
      BY <1>5 DEF Notes, RecordFailed, Deliver, RecordCompleted, Beat, Maybe
    <2> QED
      BY <1>2, <2>1, SameIsCalm
  <1>6. CASE Walks(q) \/ Begins(q) \/ OwnSweep(q)
    <2>1. UNCHANGED <<holds, kept, inkSettled>>
      BY <1>6 DEF Walks, CourtUnavailable, RunFails, RunSucceeds, Save, Finish, Settled, Lost,
         Classify, Resettled, SendDone, ClientGone, Begins, Repay, SettleBegin, OwnSweep,
         SweepRead, inkVars
    <2> QED
      BY <2>1, SameIsCalm
  <1> QED
    BY <1>4, <1>5, <1>6 DEF Plain
-----------------------------------------------------------------------------
(* A step, seen from one request: its own, a call's, or one that leaves the  *)
(* request, its call and its key as they are.                                *)

CallOf(c, r) ==
    /\ CallStep(c) \/ SettleMark(c)
    /\ \/ c = r /\ (CallStep(r) \/ MarkHold(r))
       \/ c # r /\ rq'[r] = rq[r] /\ call'[r] = call[r]

Beside(r) == rq'[r] = rq[r] /\ call'[r] = call[r] /\ Calm(rq[r].key)

Own(r) == Plain(r) \/ Begins(r) \/ OwnSweep(r)

LEMMA OwnEffect ==
    ASSUME RequestInv, TypeOK, NEW q \in Request, Own(q)
    PROVE  /\ \A c \in Caller \ {q} : call'[c] = call[c]
           /\ \A r \in Request \ {q} : rq'[r] = rq[r]
           /\ rq[q].pc # "idle" /\ rq[q].key \in Key /\ rq'[q].key = rq[q].key
  <1>1. rq[q].pc # "idle"
    BY PlainEffect, BeginsEffect, OwnSweepEffect DEF Own
  <1>2. rq[q].key \in Key
    BY <1>1 DEF RequestInv, RequestOK
  <1> QED
    BY <1>1, <1>2, PlainEffect, BeginsEffect, OwnSweepEffect DEF Own

LEMMA StepSeen ==
    ASSUME IInv, RequestInv, SentOnce, NEW r \in Request, rq[r].pc # "idle", [Next]_vars
    PROVE  Own(r) \/ (\E c \in Caller : CallOf(c, r)) \/ Beside(r) \/ Crash
  <1>1. /\ TypeOK /\ r \in Caller /\ rq[r].key \in Key
        /\ rq \in [Request -> RequestState] /\ holds \in [Key -> Hold]
        /\ call \in [Caller -> Call]
    BY CallerAssumption DEF IInv, TypeOK, RequestInv, RequestsOK, RequestOK
  <1> DEFINE k == rq[r].key
  <1>2. ASSUME UNCHANGED <<holds, kept, inkSettled>>
        PROVE  Calm(k)
    BY <1>1, <1>2, SameIsCalm
  <1>3. CASE UNCHANGED vars
    BY <1>2, <1>3 DEF vars, inkVars, Beside
  <1>4. ASSUME NEW q \in Request, Start(q)
        PROVE  Beside(r)
    <2>1. q # r /\ UNCHANGED inkVars
      BY <1>4 DEF Start, At
    <2>2. rq'[r] = rq[r]
      BY <1>1, <1>4, <2>1 DEF Start
    <2> QED
      BY <1>2, <2>1, <2>2 DEF inkVars, Beside
  <1>5. ASSUME NEW q \in Request, Proceed(q) \/ Beat(q) \/ ClientGone(q)
        PROVE  Own(r) \/ (\E c \in Caller : CallOf(c, r)) \/ Beside(r)
    <2>1. q \in Caller
      BY CallerAssumption
    <2>2. Own(q) \/ CallStep(q) \/ MarkHold(q)
      BY <1>5, StepKinds DEF Own
    <2>3. CASE q = r
      BY <2>1, <2>2, <2>3 DEF CallOf, MarkHold
    <2>4. CASE q # r /\ (CallStep(q) \/ MarkHold(q))
      BY <1>1, <2>1, <2>4, CallEffect DEF CallOf, MarkHold
    <2>5. CASE q # r /\ Own(q)
      <3>1. /\ call'[r] = call[r] /\ rq'[r] = rq[r]
            /\ rq[q].key \in Key
        BY <1>1, <2>5, OwnEffect
      <3>2. rq[q].key # k
        BY <1>1, <2>5 DEF SentOnce, Twins
      <3>3. Calm(k)
        BY <1>1, <2>5, <3>1, <3>2, PlainOnKey DEF Own
      <3> QED
        BY <3>1, <3>3 DEF Beside
    <2> QED
      BY <2>2, <2>3, <2>4, <2>5
  <1>6. ASSUME NEW s \in Sweeper, TimerSweep(s) \/ CallStep(s)
        PROVE  (\E c \in Caller : CallOf(c, r)) \/ Beside(r)
    <2>1. s \in Caller /\ s # r /\ rq' = rq
      BY <1>6, CallerAssumption DEF TimerSweep, CallStep
    <2>2. call'[r] = call[r]
      <3>1. SettleStep(s) \/ SweepStep(s) \/ CallThrows(s)
        BY <1>6 DEF CallStep, TimerSweep, SettleStep, SweepStep
      <3> QED
        BY <1>1, <2>1, <3>1, CallerAges
    <2>3. CASE SweepRead(s)
      BY <1>2, <2>1, <2>2, <2>3 DEF SweepRead, Beside
    <2>4. CASE CallStep(s) \/ SettleMark(s)
      BY <2>1, <2>2, <2>4 DEF CallOf
    <2> QED
      BY <1>6, <2>3, <2>4 DEF TimerSweep
  <1>7. ASSUME NEW j \in Key, HoldExpires(j)
        PROVE  Beside(r)
    <2>1. holds' = [holds EXCEPT ![j].expired = TRUE] /\ UNCHANGED <<call, kept, inkSettled, rq>>
      BY <1>7 DEF HoldExpires, Expire
    <2>2. Calm(k)
      BY <1>1, <2>1 DEF Calm, Hold, WasInkSettled
    <2> QED
      BY <2>1, <2>2 DEF Beside
  <1>8. CASE AccountChanges
    <2>1. UNCHANGED <<holds, kept, inkSettled, call, rq>>
      BY <1>8 DEF AccountChanges, OtherWriter, GrantSubscriptionInk, GrantTopupInk,
         CancelSubscriptionInk, ReverseRefundInk
    <2> QED
      BY <1>2, <2>1 DEF Beside
  <1> QED
    BY <1>3, <1>4, <1>5, <1>6, <1>7, <1>8 DEF Next

\* A request that was not sent is sent, or stays as it is.
LEMMA IdleSeen ==
    ASSUME RequestInv, TypeOK, [Next]_vars, NEW r \in Request, rq[r].pc = "idle"
    PROVE  \/ Start(r)
           \/ /\ rq'[r].pc = "idle" /\ rq'[r].answer = rq[r].answer
              /\ rq'[r].band = rq[r].band /\ rq'[r].debited = rq[r].debited
              /\ rq'[r].saved = rq[r].saved /\ rq'[r].present = rq[r].present
  <1>1. rq \in [Request -> RequestState]
    BY DEF RequestInv, RequestsOK
  <1> SUFFICES ASSUME rq'[r] # rq[r]
               PROVE  \/ Start(r)
                      \/ /\ rq'[r].pc = "idle" /\ rq'[r].answer = rq[r].answer
                         /\ rq'[r].band = rq[r].band /\ rq'[r].debited = rq[r].debited
                         /\ rq'[r].saved = rq[r].saved /\ rq'[r].present = rq[r].present
    OBVIOUS
  <1>2. ~Crash
    BY <1>1 DEF Crash, Live
  <1>3. \E q \in Request : Start(q) \/ Own(q) \/ CallStep(q) \/ MarkHold(q)
    <2>1. \E q \in Request : Start(q) \/ Proceed(q) \/ Beat(q) \/ ClientGone(q)
      BY <1>2 DEF Next, vars, TimerSweep, CallStep, HoldExpires, AccountChanges
    <2> QED
      BY <2>1, StepKinds DEF Own
  <1>4. ASSUME NEW q \in Request, Start(q)
        PROVE  q = r
    BY <1>1, <1>4 DEF Start
  <1>5. ASSUME NEW q \in Request, Own(q)
        PROVE  FALSE
    BY <1>5, OwnEffect
  <1>6. ASSUME NEW q \in Request, CallStep(q) \/ MarkHold(q)
        PROVE  q = r
    BY <1>6, CallEffect
  <1> QED
    BY <1>3, <1>4, <1>5, <1>6, CallEffect

\* A key that no request was given is as it was.
LEMMA UnsentCalm ==
    ASSUME IInv, RequestInv, LinkInv, [Next]_vars, NEW k \in Key,
           \A r \in Request : rq'[r].key # k, ~holds[k].open
    PROVE  /\ \A r \in Request : rq[r].key # k
           /\ Calm(k)
  <1>1. /\ TypeOK
        /\ rq \in [Request -> RequestState] /\ holds \in [Key -> Hold]
    BY DEF IInv, TypeOK, RequestInv, RequestsOK
  <1>2. ASSUME UNCHANGED <<holds, kept, inkSettled>>
        PROVE  Calm(k)
    BY <1>1, <1>2, SameIsCalm
  <1>3. ASSUME NEW c \in Caller, CallStep(c) \/ SettleMark(c)
        PROVE  Calm(k)
    BY <1>3, CallOnKey DEF KeyStep, Marks, Pulls, Releases, Holding, Pinned
  <1>4. CASE UNCHANGED vars
    BY <1>2, <1>4 DEF vars, inkVars
  <1>5. ASSUME NEW q \in Request, Start(q)
        PROVE  (\A r \in Request : rq[r].key # k) /\ Calm(k)
    <2>1. UNCHANGED inkVars /\ \A r \in Request \ {q} : rq'[r] = rq[r]
      BY <1>1, <1>5 DEF Start
    <2>2. rq[q].key \notin Key
      BY <1>5, KeyAssumption DEF Start, At, RequestInv, RequestOK
    <2> QED
      BY <1>2, <2>1, <2>2 DEF inkVars
  <1>6. ASSUME NEW q \in Request, Proceed(q) \/ Beat(q) \/ ClientGone(q)
        PROVE  (\A r \in Request : rq[r].key # k) /\ Calm(k)
    <2>1. Own(q) \/ CallStep(q) \/ MarkHold(q)
      BY <1>6, StepKinds DEF Own
    <2>2. \A r \in Request : rq'[r].key = rq[r].key
      BY <1>1, <2>1, OwnEffect, CallEffect
    <2>3. Own(q) => Calm(k)
      BY <1>1, <2>2, OwnEffect, PlainOnKey DEF Own
    <2> QED
      BY <1>3, <2>1, <2>2, <2>3, CallerAssumption DEF MarkHold
  <1>7. ASSUME NEW s \in Sweeper, TimerSweep(s) \/ CallStep(s)
        PROVE  (\A r \in Request : rq[r].key # k) /\ Calm(k)
    BY <1>2, <1>3, <1>7, CallerAssumption DEF TimerSweep, CallStep, SweepRead
  <1>8. ASSUME NEW j \in Key, HoldExpires(j)
        PROVE  (\A r \in Request : rq[r].key # k) /\ Calm(k)
    <2>1. holds' = [holds EXCEPT ![j].expired = TRUE] /\ UNCHANGED <<kept, inkSettled, rq>>
      BY <1>8 DEF HoldExpires, Expire
    <2> QED
      BY <1>1, <2>1 DEF Calm, Hold, WasInkSettled
  <1>9. CASE AccountChanges
    BY <1>2, <1>9 DEF AccountChanges, OtherWriter, GrantSubscriptionInk, GrantTopupInk,
       CancelSubscriptionInk, ReverseRefundInk
  <1>10. CASE Crash
    <2>1. UNCHANGED <<holds, kept, inkSettled>>
      BY <1>10 DEF Crash, ProcessDies
    <2>2. \A r \in Request : rq'[r].key = rq[r].key
      BY <1>1, <1>10 DEF Crash, RequestState
    <2> QED
      BY <1>2, <2>1, <2>2
  <1> QED
    BY <1>4, <1>5, <1>6, <1>7, <1>8, <1>9, <1>10 DEF Next

LEMMA LinkStep ==
    ASSUME IInv, RequestInv, LinkInv, [Next]_vars
    PROVE  LinkInv'
  <1>1. /\ TypeOK /\ Request \subseteq Caller
        /\ rq \in [Request -> RequestState] /\ call \in [Caller -> Call]
    BY CallerAssumption DEF IInv, TypeOK, RequestInv, RequestsOK
  <1>2. ASSUME UNCHANGED <<call, rq>>
        PROVE  LinkInv'
    BY <1>2 DEF LinkInv, Linked
  <1>3. ASSUME NEW q \in Request, Start(q)
        PROVE  LinkInv'
    <2> SUFFICES ASSUME NEW c \in Caller
                 PROVE  Linked(c)'
      BY DEF LinkInv
    <2>1. Linked(c) /\ UNCHANGED call
      BY <1>3 DEF LinkInv, Start, inkVars
    <2>2. \A r \in Request \ {q} : rq'[r] = rq[r]
      BY <1>1, <1>3 DEF Start
    <2>3. rq[q].pc = "idle" /\ rq'[q].pc = "sweep"
      BY <1>1, <1>3 DEF Start, At, RequestState
    <2> QED
      BY <2>1, <2>2, <2>3, LinkRest DEF InSettle
  <1>4. ASSUME NEW q \in Request, Plain(q)
        PROVE  LinkInv'
    <2> SUFFICES ASSUME NEW c \in Caller
                 PROVE  Linked(c)'
      BY DEF LinkInv
    <2>1. Linked(c) /\ call'[c] = call[c]
      BY <1>4, PlainEffect DEF LinkInv
    <2> QED
      BY <1>4, <2>1, PlainEffect, LinkRest
  <1>5. ASSUME NEW q \in Request, Begins(q)
        PROVE  LinkInv'
    <2> SUFFICES ASSUME NEW c \in Caller
                 PROVE  Linked(c)'
      BY DEF LinkInv
    <2>1. CASE c # q
      BY <1>1, <1>5, <2>1, BeginsEffect, LinkRest DEF LinkInv
    <2>2. CASE c = q
      <3>1. /\ call'[q].step = "read" /\ call'[q].sweeping = FALSE
            /\ call'[q].key = rq'[q].key /\ call'[q].actual = rq'[q].band
            /\ rq'[q].pc \in InSettle
        BY <1>1, <1>5, BeginsEffect DEF InSettle
      <3> QED
        BY <2>2, <3>1 DEF Linked, SettleSteps
    <2> QED
      BY <2>1, <2>2
  <1>6. ASSUME NEW q \in Request, OwnSweep(q)
        PROVE  LinkInv'
    <2> SUFFICES ASSUME NEW c \in Caller
                 PROVE  Linked(c)'
      BY DEF LinkInv
    <2>1. CASE c # q
      BY <1>1, <1>6, <2>1, OwnSweepEffect, LinkRest DEF LinkInv
    <2>2. CASE c = q
      <3>1. /\ rq[q].pc \notin InSettle /\ rq'[q].pc \notin InSettle
            /\ SweepRead(q) \/ UNCHANGED inkVars
        BY <1>1, <1>6, OwnSweepEffect DEF InSettle
      <3>2. CASE UNCHANGED inkVars
        BY <2>2, <3>1, <3>2, LinkRest DEF inkVars, LinkInv
      <3>3. CASE SweepRead(q)
        <4>1. \/ call'[q].sweeping = FALSE /\ call'[q].step = "idle" /\ call'[q].out = "none"
              \/ call'[q].sweeping = TRUE /\ call'[q].step = "next" /\ call'[q].actual = Unset
          BY <1>1, <3>3, SweepReadEffect
        <4> QED
          BY <2>2, <3>1, <4>1 DEF Linked
      <3> QED
        BY <3>1, <3>2, <3>3
    <2> QED
      BY <2>1, <2>2
  <1>7. ASSUME NEW d \in Caller, CallStep(d) \/ SettleMark(d),
               \A q \in Request : rq'[q].pc = rq[q].pc /\ rq'[q].key = rq[q].key
                                     /\ rq'[q].band = rq[q].band
        PROVE  LinkInv'
    <2> SUFFICES ASSUME NEW c \in Caller
                 PROVE  Linked(c)'
      BY DEF LinkInv
    <2>1. CASE c = d
      BY <1>1, <1>7, <2>1, LinkCall DEF LinkInv
    <2>2. CASE c # d
      <3>1. SettleStep(d) \/ SweepStep(d) \/ CallThrows(d)
        BY <1>7 DEF CallStep, SettleStep, SweepStep
      <3>2. call'[c] = call[c]
        BY <1>1, <2>2, <3>1, CallerAges
      <3> QED
        BY <1>7, <3>2, LinkRest DEF LinkInv
    <2> QED
      BY <2>1, <2>2
  <1>8. ASSUME NEW q \in Request, CallStep(q) \/ MarkHold(q)
        PROVE  LinkInv'
    <2>1. \A p \in Request : rq'[p].pc = rq[p].pc /\ rq'[p].key = rq[p].key
                                /\ rq'[p].band = rq[p].band
      BY <1>1, <1>8, CallEffect
    <2> QED
      BY <1>1, <1>7, <1>8, <2>1 DEF MarkHold
  <1>9. ASSUME NEW s \in Sweeper, TimerSweep(s) \/ CallStep(s)
        PROVE  LinkInv'
    <2>1. rq' = rq /\ s \in Caller \ Request
      BY <1>9, CallerAssumption DEF TimerSweep, CallStep
    <2>2. CASE SweepRead(s)
      <3> SUFFICES ASSUME NEW c \in Caller
                   PROVE  Linked(c)'
        BY DEF LinkInv
      <3>1. CASE c = s
        <4>1. \/ call'[s].sweeping = FALSE /\ call'[s].step = "idle" /\ call'[s].out = "none"
              \/ call'[s].sweeping = TRUE /\ call'[s].step = "next" /\ call'[s].actual = Unset
          BY <1>1, <2>1, <2>2, SweepReadEffect
        <4> QED
          BY <2>1, <3>1, <4>1 DEF Linked
      <3>2. CASE c # s
        <4>1. call'[c] = call[c]
          BY <1>1, <2>2, <3>2 DEF SweepRead
        <4> QED
          BY <2>1, <4>1, LinkRest DEF LinkInv
      <3> QED
        BY <3>1, <3>2
    <2> QED
      BY <1>7, <1>9, <2>1, <2>2 DEF TimerSweep
  <1>10. CASE Crash
    <2> SUFFICES ASSUME NEW c \in Caller
                 PROVE  Linked(c)'
      BY DEF LinkInv
    <2>1. call'[c] = Idle
      BY <1>10 DEF Crash, ProcessDies
    <2>2. c \in Request => rq'[c].pc \notin InSettle
      BY <1>1, <1>10 DEF Crash, Live, RequestState, InSettle
    <2> QED
      BY <2>1, <2>2 DEF Linked, Idle
  <1>11. CASE (\E j \in Key : HoldExpires(j)) \/ AccountChanges \/ UNCHANGED vars
    BY <1>2, <1>11 DEF HoldExpires, Expire, AccountChanges, OtherWriter, GrantSubscriptionInk,
       GrantTopupInk, CancelSubscriptionInk, ReverseRefundInk, vars, inkVars
  <1>12. ASSUME NEW q \in Request, Start(q) \/ Proceed(q) \/ Beat(q) \/ ClientGone(q)
         PROVE  LinkInv'
    BY <1>3, <1>4, <1>5, <1>6, <1>8, <1>12, StepKinds
  <1> QED
    BY <1>9, <1>10, <1>11, <1>12 DEF Next

LEMMA LinkInvariant == Spec => []LinkInv
  <1>1. Init => LinkInv
    BY DEF Init, InkInit, NewRequest, LinkInv, Linked, Idle, InSettle
  <1>2. IInv /\ RequestInv /\ LinkInv /\ [Next]_vars => LinkInv'
    BY LinkStep
  <1> QED
    BY <1>1, <1>2, DraftInvariant, PTL DEF Spec
-----------------------------------------------------------------------------
(* An attempt that was sent once: its hold, and what is kept of it. *)

\* What a request's own write does to the hold of its attempt k.
Leaves(k) ==
    /\ holds'[k].open = holds[k].open /\ holds'[k].units = holds[k].units
    /\ holds'[k].settleUnits = holds[k].settleUnits /\ holds'[k].deliver = holds[k].deliver
GivesUp(k) == ~holds'[k].open /\ holds'[k].settleUnits = Unset
Takes(k) ==
    /\ ~holds[k].open
    /\ holds'[k].open /\ holds'[k].units = Cost /\ holds'[k].settleUnits = Unset
    /\ holds'[k].deliver = FALSE /\ holds'[k].expiresAt = FreshExpiry(k)
SetsUnits(k, units) ==
    /\ holds[k].open /\ ~holds[k].deliver
    /\ holds'[k].open /\ holds'[k].units = holds[k].units
    /\ holds'[k].deliver = holds[k].deliver
    /\ holds'[k].settleUnits = Lesser(units, holds[k].units)

LEMMA PlainHold ==
    ASSUME TypeOK, NEW r \in Request, NEW k \in Key, k = rq[r].key, Plain(r)
    PROVE  /\ UNCHANGED <<kept, inkSettled>>
           /\ \/ Leaves(k)
              \/ GivesUp(k) /\ rq[r].pc \in {"giveup", "giveback", "undo"}
              \/ Takes(k) /\ rq[r].pc \in {"hold", "rehold"}
              \/ SetsUnits(k, rq[r].band) /\ rq[r].pc = "deliver"
  <1>1. holds \in [Key -> Hold] /\ holds[k] \in Hold
    BY DEF TypeOK
  <1>2. ASSUME UNCHANGED inkVars \/ UNCHANGED <<holds, kept, inkSettled>>
        PROVE  UNCHANGED <<kept, inkSettled>> /\ Leaves(k)
    BY <1>2 DEF inkVars, Leaves
  <1>3. ASSUME HoldInk(k, Cost)
        PROVE  UNCHANGED <<kept, inkSettled>> /\ Takes(k)
    <2>1. holds' = [holds EXCEPT ![k] = NewHold(Cost, TakeSplit(ink, Cost), FreshExpiry(k))]
      BY <1>3 DEF HoldInk
    <2>2. holds'[k] = NewHold(Cost, TakeSplit(ink, Cost), FreshExpiry(k))
      BY <1>1, <2>1
    <2>3. ~holds[k].open
      BY <1>3 DEF HoldInk, MayHold
    <2> QED
      BY <1>3, <2>2, <2>3 DEF HoldInk, Takes, NewHold
  <1>4. ASSUME ReleaseInk(k)
        PROVE  UNCHANGED <<kept, inkSettled>> /\ GivesUp(k)
    BY <1>1, <1>4 DEF ReleaseInk, Refund, GivesUp, NoHold
  <1>5. ASSUME ExtendInkHold(k)
        PROVE  UNCHANGED <<kept, inkSettled>> /\ Leaves(k)
    <2>1. ASSUME NEW e, holds' = [holds EXCEPT ![k].expiresAt = e, ![k].expired = FALSE]
          PROVE  Leaves(k)
      BY <1>1, <2>1 DEF Leaves, Hold
    <2>2. Leaves(k)
      BY <1>5, <2>1 DEF ExtendInkHold
    <2> QED
      BY <1>5, <2>2 DEF ExtendInkHold
  <1>6. ASSUME SetHoldSettleUnits(k, rq[r].band)
        PROVE  UNCHANGED <<kept, inkSettled>> /\ SetsUnits(k, rq[r].band)
    <2>1. ASSUME NEW units, holds' = [holds EXCEPT ![k].settleUnits = units]
          PROVE  /\ holds'[k].open = holds[k].open /\ holds'[k].units = holds[k].units
                 /\ holds'[k].deliver = holds[k].deliver /\ holds'[k].settleUnits = units
      BY <1>1, <2>1 DEF Hold
    <2>2. holds' = [holds EXCEPT ![k].settleUnits = Lesser(rq[r].band, holds[k].units)]
      BY <1>6 DEF SetHoldSettleUnits
    <2>3. /\ holds[k].open /\ ~holds[k].deliver
          /\ holds'[k].open = holds[k].open /\ holds'[k].units = holds[k].units
          /\ holds'[k].deliver = holds[k].deliver
          /\ holds'[k].settleUnits = Lesser(rq[r].band, holds[k].units)
      BY <1>6, <2>1, <2>2 DEF SetHoldSettleUnits
    <2> QED
      BY <1>6, <2>3 DEF SetHoldSettleUnits, SetsUnits
  <1>7. CASE Walks(r)
    <2>1. UNCHANGED <<holds, kept, inkSettled>>
      BY <1>7 DEF Walks, CourtUnavailable, RunFails, RunSucceeds, Save, Finish, Settled, Lost,
         Classify, Resettled, SendDone, ClientGone, inkVars
    <2> QED
      BY <1>2, <2>1
  <1>8. CASE TakeHold(r) \/ Rehold(r)
    <2>1. rq[r].pc \in {"hold", "rehold"} /\ (HoldInk(k, Cost) \/ UNCHANGED inkVars)
      BY <1>8 DEF TakeHold, Rehold, Maybe, At
    <2> QED
      BY <1>2, <1>3, <2>1
  <1>9. CASE GiveUp(r) \/ GiveBack(r) \/ Undo(r)
    <2>1. /\ rq[r].pc \in {"giveup", "giveback", "undo"}
          /\ ReleaseInk(k) \/ UNCHANGED inkVars
      BY <1>9 DEF GiveUp, GiveBack, Undo, TryRelease, Release, Maybe, At
    <2> QED
      BY <1>2, <1>4, <2>1
  <1>10. CASE RecordFailed(r) \/ RecordCompleted(r)
    <2>1. UNCHANGED <<holds, kept, inkSettled>>
      BY <1>10 DEF RecordFailed, RecordCompleted, RecordGeneration, Maybe, inkVars
    <2> QED
      BY <1>2, <2>1
  <1>11. CASE Deliver(r)
    <2>1. /\ rq[r].pc = "deliver"
          /\ SetHoldSettleUnits(k, rq[r].band) \/ UNCHANGED inkVars
      BY <1>11 DEF Deliver, Maybe, At
    <2> QED
      BY <1>2, <1>6, <2>1
  <1>12. CASE Beat(r)
    BY <1>5, <1>12 DEF Beat
  <1> QED
    BY <1>7, <1>8, <1>9, <1>10, <1>11, <1>12 DEF Plain, HoldsOrReleases, Notes

\* Where the hold of an attempt that was sent once is closed, and nothing of it kept.
Shut == {"sweep", "hold", "resweep", "rehold", "classify"}

KeyOK(r) ==
    LET k == rq[r].key
    IN  /\ rq[r].pc \in Shut \cup {"lost"} => ~holds[k].open
        /\ rq[r].pc \in Shut => kept[k] = Zero
        /\ holds[k].open => kept[k] = Zero /\ holds[k].units = Cost
        /\ Total(kept[k]) <= Cost

\* A settle that pulled the hold, or found it gone.
Pulled(r) == call[r].step = "rows" \/ (call[r].step = "idle" /\ call[r].out = "settled")
Over(r) == Pulled(r) \/ (call[r].step = "idle" /\ call[r].out = "no_hold")

SettleOK(r) ==
    LET k == rq[r].key
    IN  rq[r].pc \in InSettle =>
          /\ Over(r) => ~holds[k].open
          /\ Pulled(r) => Total(kept[k]) = call[r].units
          /\ call[r].step \in {"mark", "pull"} /\ holds[k].open =>
                holds[k].expiresAt = call[r].hold.expiresAt

Untouched(k) ==
    (\A r \in Request : rq[r].key # k) =>
       /\ ~holds[k].open /\ holds[k].settleUnits = Unset
       /\ kept[k] = Zero /\ ~WasInkSettled(k)

SoleInv ==
    /\ \A k \in Key : Untouched(k)
    /\ \A r \in Request : rq[r].pc # "idle" => KeyOK(r) /\ SettleOK(r)

LEMMA KeyStepped ==
    ASSUME IInv, NEW r \in Request, rq[r].key \in Key, KeyOK(r), NEW c \in Caller,
           KeyStep(c, rq[r].key), rq'[r].pc = rq[r].pc, rq'[r].key = rq[r].key
    PROVE  KeyOK(r)'
  <1> DEFINE k == rq[r].key
  <1>1. CallOK(c) /\ TypeOK
    BY DEF IInv
  <1>2. CASE Calm(k) \/ Marks(c, k) \/ Releases(c, k)
    BY <1>2 DEF KeyOK, Calm, Marks, Releases, Holding, Pinned
  <1>3. CASE Pulls(c, k)
    <2>1. holds[k].open /\ ~holds'[k].open /\ rq[r].pc \notin Shut \cup {"lost"}
          /\ kept[k] = Zero /\ holds[k].units = Cost
      BY <1>3 DEF Pulls, Holding, Pinned, KeyOK
    <2>2. call[c].hold.units = Cost
      BY <1>1, <1>3, <2>1 DEF Pulls, Holding, CallOK
    <2>3. Charged(call[c].hold, call[c].actual) <= Cost
          /\ Charged(call[c].hold, call[c].actual) \in Nat
      <3>1. call[c].hold \in Snapshot /\ call[c].actual \in Nat \cup {Unset}
        BY <1>1 DEF TypeOK, Call
      <3> QED
        BY <2>2, <3>1, ChargedAtMost, ChargedNat
    <2>4. Total(kept'[k]) = Charged(call[c].hold, call[c].actual)
      BY <1>3, <2>1, <2>3 DEF Pulls, Total, Zero
    <2> QED
      BY <2>1, <2>3, <2>4 DEF KeyOK
  <1> QED
    BY <1>2, <1>3 DEF KeyStep

\* Another caller's step leaves what this request's settle knows.
LEMMA SettleStepped ==
    ASSUME NEW r \in Request, SettleOK(r), NEW c \in Caller, KeyStep(c, rq[r].key),
           rq'[r].pc = rq[r].pc, rq'[r].key = rq[r].key, call'[r] = call[r]
    PROVE  SettleOK(r)'
  BY DEF SettleOK, KeyStep, Calm, Marks, Pulls, Releases, Holding, Pinned, Over, Pulled

LEMMA ReturnsHome ==
    ASSUME TypeOK, NEW c \in Caller, NEW out, NEW units, Return(c, out, units), ~call[c].sweeping
    PROVE  call'[c].step = "idle" /\ call'[c].out = out /\ call'[c].units = units
  <1>1. call'[c] = [Idle EXCEPT !.out = out, !.units = units]
    BY DEF Return, TypeOK
  <1> QED
    BY <1>1 DEF Idle

\* The request's own settle.
LEMMA SettleOwn ==
    ASSUME IInv, NEW r \in Request, rq[r].key \in Key, KeyOK(r), SettleOK(r), Linked(r),
           rq[r].pc \in InSettle, CallStep(r) \/ SettleMark(r),
           rq'[r].pc = rq[r].pc, rq'[r].key = rq[r].key
    PROVE  SettleOK(r)'
  <1> DEFINE k == rq[r].key
             h == call[r].hold
  <1>1. /\ TypeOK /\ r \in Caller /\ call \in [Caller -> Call] /\ call[r] \in Call
        /\ holds \in [Key -> Hold] /\ kept \in [Key -> Amount] /\ CallOK(r) /\ HoldOK(k)
    BY CallerAssumption DEF IInv, TypeOK
  <1>2. call[r].step # "idle"
    BY <1>1, CallGoesOn
  <1>3. ~call[r].sweeping /\ call[r].key = k /\ call[r].step \in SettleSteps
    BY <1>2 DEF Linked
  <1>4. ASSUME NEW units, Return(r, "no_hold", units), ~holds[k].open, UNCHANGED holds
        PROVE  SettleOK(r)'
    <2>1. call'[r].step = "idle" /\ call'[r].out = "no_hold"
      BY <1>1, <1>3, <1>4, ReturnsHome
    <2> QED
      BY <1>4, <2>1 DEF SettleOK, Over, Pulled
  <1>5. CASE SettleRead(r)
    <2>1. UNCHANGED holds
      BY <1>5 DEF SettleRead
    <2>2. CASE holds[k].open
      <3>1. ASSUME NEW hold, call' = [call EXCEPT ![r].step = "mark", ![r].hold = hold]
            PROVE  call'[r].step = "mark" /\ call'[r].hold = hold
        BY <1>1, <3>1 DEF Call
      <3> DEFINE snap == [units |-> holds[k].units, split |-> holds[k].split,
                          expiresAt |-> holds[k].expiresAt, settleUnits |-> holds[k].settleUnits]
      <3>2. call' = [call EXCEPT ![r].step = "mark", ![r].hold = snap]
        BY <1>3, <1>5, <2>2 DEF SettleRead
      <3>3. call'[r].step = "mark" /\ call'[r].hold = snap
        BY <3>1, <3>2
      <3>4. call'[r].hold.expiresAt = holds[k].expiresAt
        BY <3>3
      <3> QED
        BY <2>1, <3>3, <3>4 DEF SettleOK, Over, Pulled
    <2>3. CASE ~holds[k].open
      <3>1. Return(r, "no_hold", 0)
        BY <1>3, <1>5, <2>3 DEF SettleRead
      <3> QED
        BY <1>4, <2>1, <2>3, <3>1
    <2> QED
      BY <2>2, <2>3
  <1>6. CASE SettleMark(r)
    <2>1. CASE Pinned(k, h)
      <3>1. call' = [call EXCEPT ![r].step = "pull"]
        BY <1>3, <1>6, <2>1 DEF SettleMark
      <3>2. call'[r].step = "pull" /\ call'[r].hold = call[r].hold
        BY <1>1, <3>1 DEF Call
      <3>3. Calm(k) \/ Marks(r, k)
        BY <1>1, <1>6, MarkOnKey
      <3>4. holds'[k].expiresAt = holds[k].expiresAt
        BY <3>3 DEF Calm, Marks
      <3> QED
        BY <2>1, <3>2, <3>4 DEF SettleOK, Over, Pulled, Pinned
    <2>2. CASE ~Pinned(k, h)
      <3>1. Return(r, "no_hold", 0) /\ UNCHANGED holds /\ call[r].step = "mark"
        BY <1>3, <1>6, <2>2 DEF SettleMark
      <3>2. ~holds[k].open
        BY <2>2, <3>1 DEF SettleOK, Pinned
      <3> QED
        BY <1>4, <3>1, <3>2
    <2> QED
      BY <2>1, <2>2
  <1>7. CASE SettlePull(r)
    <2> DEFINE part == TakeSplit(h.split, Charged(h, call[r].actual))
    <2>1. CASE ~Pinned(k, h)
      <3>1. Return(r, "no_hold", 0) /\ UNCHANGED holds /\ call[r].step = "pull"
        BY <1>3, <1>7, <2>1 DEF SettlePull, PullMissed
      <3>2. ~holds[k].open
        BY <2>1, <3>1 DEF SettleOK, Pinned
      <3> QED
        BY <1>4, <3>1, <3>2
    <2>2. CASE Pinned(k, h)
      <3>1. /\ holds' = [holds EXCEPT ![k] = NoHold]
            /\ kept' = [kept EXCEPT ![k] = Plus(@, part)]
            /\ IF part = Zero THEN Return(r, "settled", 0)
               ELSE call' = [call EXCEPT ![r].step = "rows", ![r].rows = part,
                                         ![r].units = Total(part)]
        BY <1>3, <1>7, <2>2 DEF SettlePull
      <3>2. h \in Snapshot /\ call[r].actual \in Nat \cup {Unset}
        BY <1>1 DEF Call
      <3>3. part \in Amount
        BY <3>2, PullParts
      <3>4. kept[k] = Zero
        BY <2>2 DEF Pinned, KeyOK
      <3>5. Total(kept'[k]) = Total(part)
        BY <1>1, <3>1, <3>3, <3>4 DEF Plus, Total, Zero, Amount
      <3>6. ~holds'[k].open
        BY <1>1, <3>1 DEF NoHold
      <3>7. CASE part = Zero
        <4>1. call'[r].step = "idle" /\ call'[r].out = "settled" /\ call'[r].units = 0
          BY <1>1, <1>3, <3>1, <3>7, ReturnsHome
        <4>2. Total(part) = 0
          BY <3>7 DEF Total, Zero
        <4> QED
          BY <3>5, <3>6, <4>1, <4>2 DEF SettleOK, Over, Pulled
      <3>8. CASE part # Zero
        <4>1. ASSUME NEW rows, NEW units,
                     call' = [call EXCEPT ![r].step = "rows", ![r].rows = rows, ![r].units = units]
              PROVE  call'[r].step = "rows" /\ call'[r].units = units
          BY <1>1, <4>1 DEF Call
        <4>2. call'[r].step = "rows" /\ call'[r].units = Total(part)
          BY <3>1, <3>8, <4>1
        <4> QED
          BY <3>5, <3>6, <4>2 DEF SettleOK, Over, Pulled
      <3> QED
        BY <3>7, <3>8
    <2> QED
      BY <2>1, <2>2
  <1>8. CASE SettleRows(r) \/ SettleRowsFail(r)
    <2>1. /\ Return(r, "settled", call[r].units) /\ call[r].step = "rows"
          /\ UNCHANGED <<holds, kept>>
      BY <1>8 DEF SettleRows, SettleRowsFail, WriteRows
    <2>2. call'[r].step = "idle" /\ call'[r].out = "settled" /\ call'[r].units = call[r].units
      BY <1>1, <1>3, <2>1, ReturnsHome
    <2> QED
      BY <2>1, <2>2 DEF SettleOK, Over, Pulled
  <1>9. CASE CallThrows(r)
    <2>1. Return(r, "threw", 0)
      BY <1>3, <1>9 DEF CallThrows, SettleSteps
    <2>2. call'[r].step = "idle" /\ call'[r].out = "threw"
      BY <1>1, <1>3, <2>1, ReturnsHome
    <2> QED
      BY <2>2 DEF SettleOK, Over, Pulled
  <1> QED
    BY <1>3, <1>5, <1>6, <1>7, <1>8, <1>9 DEF CallStep, SettleSteps, SweepNext, SweepEnd,
       SweepLook, SweepRelease, SweepReread
LEMMA PlainShut ==
    ASSUME RequestInv, NEW r \in Request, Plain(r), rq'[r].pc \in Shut \cup {"lost"}
    PROVE  /\ UNCHANGED inkVars
           /\ \/ rq[r].pc = "settle" /\ rq'[r].pc = "lost" /\ Returned(r, "no_hold")
              \/ rq[r].pc = "lost" /\ rq'[r].pc = "resweep" /\ ~FoundSettled(r)
              \/ rq[r].pc = "rehold" /\ rq'[r].pc = "classify"
  <1>1. rq \in [Request -> RequestState] /\ rq[r] \in RequestState
    BY DEF RequestInv, RequestsOK
  <1>2. CASE CourtUnavailable(r) \/ RunFails(r) \/ RunSucceeds(r) \/ Save(r) \/ Classify(r)
                \/ Resettled(r) \/ SendDone(r) \/ ClientGone(r)
    BY <1>1, <1>2 DEF CourtUnavailable, RunFails, RunSucceeds, Save, Classify, Resettled,
       SendDone, ClientGone, Alive, At, Go, Answered, RequestState, Shut
  <1>3. CASE Finish(r) /\ GivesBack(r)
    BY <1>1, <1>3 DEF Finish, Go, RequestState, Shut
  <1>4. CASE Settled(r)
    BY <1>1, <1>4 DEF Settled, At, Go, RequestState, Shut
  <1>5. CASE Lost(r)
    BY <1>1, <1>5 DEF Lost, At, Go, RequestState, Shut
  <1>6. CASE Rehold(r)
    BY <1>1, <1>6 DEF Rehold, At, Go, Answered, RequestState, Shut
  <1>7. CASE TakeHold(r) \/ GiveUp(r) \/ GiveBack(r) \/ Undo(r)
    BY <1>1, <1>7 DEF TakeHold, GiveUp, GiveBack, Undo, Go, Answered, RequestState, Shut
  <1>8. CASE RecordFailed(r) \/ Deliver(r) \/ RecordCompleted(r)
    BY <1>1, <1>8 DEF RecordFailed, Deliver, RecordCompleted, Go, Answered, RequestState, Shut
  <1>9. CASE Beat(r)
    BY <1>1, <1>9 DEF Beat, Alive, RequestState, Shut
  <1>10. CASE Walks(r)
    BY <1>2, <1>3, <1>4, <1>5, <1>10 DEF Walks
  <1> QED
    BY <1>6, <1>7, <1>8, <1>9, <1>10 DEF Plain, HoldsOrReleases, Notes

LEMMA SoleOwn ==
    ASSUME IInv, RequestInv, Remembered, NEW r \in Request, KeyOK(r), SettleOK(r), Own(r)
    PROVE  KeyOK(r)' /\ SettleOK(r)'
  <1> DEFINE k == rq[r].key
  <1>1. TypeOK /\ k \in Key /\ rq'[r].key = k
    BY OwnEffect DEF IInv
  <1>2. CASE Plain(r)
    <2>1. rq'[r].pc \notin InSettle
      BY <1>2, PlainEffect
    <2>2. UNCHANGED kept
      BY <1>1, <1>2, PlainHold
    <2>5. Total(kept'[k]) <= Cost
      BY <2>2 DEF KeyOK
    <2>3. CASE rq'[r].pc \in Shut \cup {"lost"}
      <3>1. ~holds[k].open /\ (rq'[r].pc \in Shut => kept[k] = Zero) /\ UNCHANGED holds
        BY <1>2, <2>3, PlainShut DEF KeyOK, SettleOK, Over, Returned, InSettle, Remembered, At,
           Shut, inkVars
      <3> QED
        BY <1>1, <2>1, <2>2, <2>5, <3>1 DEF KeyOK, SettleOK
    <2>4. CASE rq'[r].pc \notin Shut \cup {"lost"}
      <3>1. holds'[k].open => kept[k] = Zero /\ holds'[k].units = Cost
        BY <1>1, <1>2, PlainHold DEF KeyOK, Leaves, GivesUp, Takes, SetsUnits, Shut
      <3> QED
        BY <1>1, <2>1, <2>2, <2>4, <2>5, <3>1 DEF KeyOK, SettleOK
    <2> QED
      BY <2>3, <2>4
  <1>3. CASE Begins(r)
    <2>1. UNCHANGED <<holds, kept>> /\ call'[r].step = "read" /\ rq'[r].pc \in InSettle
      BY <1>1, <1>3, BeginsEffect DEF SettleBegin, InSettle
    <2> QED
      BY <1>1, <2>1 DEF KeyOK, SettleOK, Over, Pulled, InSettle, Shut
  <1>4. CASE OwnSweep(r)
    BY <1>1, <1>4, OwnSweepEffect DEF KeyOK, SettleOK, InSettle, Shut
  <1> QED
    BY <1>2, <1>3, <1>4 DEF Own

LEMMA SoleCall ==
    ASSUME IInv, RequestInv, LinkInv, NEW r \in Request, rq[r].pc # "idle", KeyOK(r), SettleOK(r),
           NEW c \in Caller, CallOf(c, r)
    PROVE  KeyOK(r)' /\ SettleOK(r)'
  <1>1. TypeOK /\ r \in Caller /\ rq[r].key \in Key /\ Linked(r)
    BY CallerAssumption DEF IInv, RequestInv, RequestOK, LinkInv
  <1>2. KeyStep(c, rq[r].key)
    BY <1>1, CallOnKey DEF CallOf
  <1>3. CASE c = r /\ (CallStep(r) \/ MarkHold(r))
    <2>1. rq'[r].pc = rq[r].pc /\ rq'[r].key = rq[r].key
      BY <1>1, <1>3, CallEffect
    <2>2. CASE rq[r].pc \in InSettle
      BY <1>1, <1>2, <1>3, <2>1, <2>2, KeyStepped, SettleOwn DEF MarkHold
    <2>3. CASE rq[r].pc \notin InSettle
      BY <1>1, <1>2, <2>1, <2>3, KeyStepped DEF SettleOK
    <2> QED
      BY <2>2, <2>3
  <1>4. CASE c # r /\ rq'[r] = rq[r] /\ call'[r] = call[r]
    BY <1>1, <1>2, <1>4, KeyStepped, SettleStepped
  <1> QED
    BY <1>3, <1>4 DEF CallOf

LEMMA SoleStep ==
    ASSUME IInv, RequestInv, LinkInv, SoleInv, SentOnce, SentOnce', Remembered, [Next]_vars
    PROVE  SoleInv'
  <1>1. TypeOK /\ rq \in [Request -> RequestState]
    BY DEF IInv, RequestInv, RequestsOK
  <1>2. ASSUME NEW k \in Key, \A r \in Request : rq'[r].key # k
        PROVE  /\ ~holds'[k].open /\ holds'[k].settleUnits = Unset
               /\ kept'[k] = Zero /\ ~(WasInkSettled(k)')
    <2>1. \A r \in Request : rq[r].key # k
      <3>1. ASSUME NEW r \in Request
            PROVE  rq[r].key \in Key => rq'[r].key = rq[r].key
        <4>1. CASE rq[r].pc = "idle"
          BY <4>1, KeyAssumption DEF RequestInv, RequestOK
        <4>2. CASE rq[r].pc # "idle" /\ Crash
          BY <1>1, <4>2 DEF Crash, RequestState
        <4>3. CASE rq[r].pc # "idle" /\ ~Crash
          BY <1>1, <4>3, StepSeen, OwnEffect, CallEffect DEF CallOf, Beside
        <4> QED
          BY <4>1, <4>2, <4>3
      <3> QED
        BY <1>2, <3>1
    <2>2. /\ ~holds[k].open /\ holds[k].settleUnits = Unset
          /\ kept[k] = Zero /\ ~WasInkSettled(k)
      BY <2>1 DEF SoleInv, Untouched
    <2>3. Calm(k)
      BY <1>2, <2>2, UnsentCalm
    <2> QED
      BY <2>2, <2>3 DEF Calm
  <1>3. ASSUME NEW r \in Request, rq'[r].pc # "idle"
        PROVE  KeyOK(r)' /\ SettleOK(r)'
    <2>1. CASE rq[r].pc = "idle"
      <3>1. Start(r)
        BY <1>1, <1>3, <2>1, IdleSeen
      <3>2. UNCHANGED inkVars /\ rq'[r].pc = "sweep" /\ rq'[r].key \in Key
            /\ \A q \in Request \ {r} : rq'[q] = rq[q]
        BY <1>1, <3>1 DEF Start, RequestState
      <3>3. \A q \in Request : rq[q].key # rq'[r].key
        <4>1. rq[r].key \notin Key
          BY <2>1, KeyAssumption DEF RequestInv, RequestOK
        <4> QED
          BY <3>2, <4>1 DEF SentOnce, Twins
      <3>4. ~holds[rq'[r].key].open /\ kept[rq'[r].key] = Zero
        BY <3>2, <3>3 DEF SoleInv, Untouched
      <3>5. Total(Zero) <= Cost
        BY CostAssumption, UnitsAssumption DEF Total, Zero
      <3> QED
        BY <3>2, <3>4, <3>5 DEF KeyOK, SettleOK, InSettle, inkVars
    <2>2. CASE rq[r].pc # "idle"
      <3>1. KeyOK(r) /\ SettleOK(r) /\ rq[r].key \in Key
        BY <2>2 DEF SoleInv, RequestInv, RequestOK
      <3>2. CASE Own(r)
        BY <3>1, <3>2, SoleOwn
      <3>3. ASSUME NEW c \in Caller, CallOf(c, r)
            PROVE  KeyOK(r)' /\ SettleOK(r)'
        BY <2>2, <3>1, <3>3, SoleCall
      <3>4. CASE Beside(r)
        BY <3>1, <3>4 DEF Beside, Calm, KeyOK, SettleOK, Over, Pulled
      <3>5. CASE Crash
        <4>1. /\ UNCHANGED <<holds, kept>> /\ rq'[r].key = rq[r].key
              /\ rq'[r].pc = "end"
          BY <1>1, <2>2, <3>5 DEF Crash, ProcessDies, Live, RequestState
        <4> QED
          BY <3>1, <4>1 DEF KeyOK, SettleOK, InSettle, Shut
      <3> QED
        BY <2>2, <3>2, <3>3, <3>4, <3>5, StepSeen
    <2> QED
      BY <2>1, <2>2
  <1> QED
    BY <1>2, <1>3 DEF SoleInv, Untouched

LEMMA SoleInvariant == Spec /\ []SentOnce /\ []Remembered => []SoleInv
  <1>1. Init => SoleInv
    BY DEF Init, InkInit, NewRequest, SoleInv, Untouched, NoHold, WasInkSettled
  <1>2. IInv /\ RequestInv /\ LinkInv /\ SoleInv /\ SentOnce /\ SentOnce' /\ Remembered
           /\ [Next]_vars => SoleInv'
    BY SoleStep
  <1> QED
    BY <1>1, <1>2, DraftInvariant, LinkInvariant, PTL DEF Spec

\* "never charge twice": an attempt that was sent once costs its price at most,
\* whatever is swept, lost, taken again and settled again, thrown or crashed,
\* unless inkSettled forgot its settle while its request looked for it.
THEOREM ChargedOnce == Spec /\ []SentOnce /\ []Remembered => []SingleCharge
  <1>1. IInv /\ RequestInv /\ SoleInv => SingleCharge
    <2> SUFFICES ASSUME IInv, RequestInv, SoleInv, NEW k \in Key
                 PROVE  Total(kept[k]) <= Cost
      BY DEF SingleCharge
    <2>1. CASE \A r \in Request : rq[r].key # k
      BY <2>1, CostAssumption, UnitsAssumption DEF SoleInv, Untouched, Total, Zero
    <2>2. ASSUME NEW r \in Request, rq[r].key = k
          PROVE  Total(kept[k]) <= Cost
      BY <2>2, KeyAssumption DEF RequestInv, RequestOK, SoleInv, KeyOK
    <2> QED
      BY <2>1, <2>2
  <1> QED
    BY <1>1, DraftInvariant, SoleInvariant, PTL
-----------------------------------------------------------------------------
(* While no call threw: what a request was told, and what it was charged. *)

\* What the answer, and the place of the request, say of its draft.
Told(q) ==
    /\ q.answer # "none" => q.pc = "end"
    /\ q.answer \in {"refused", "error"} => ~q.saved /\ ~q.present
    /\ q.pc \in {"record", "finish", "giveback"} => ~q.present
    /\ q.pc = "giveback" => q.dup \/ ~q.saved

FreeOK(r) ==
    LET k == rq[r].key
    IN  faults = 0 =>
          /\ rq[r].pc # "undo"
          /\ rq[r].pc \in InSettle => call[r].out # "threw"
          /\ rq[r].answer = "withheld" => ~holds[k].open /\ kept[k] = Zero

FreeInv == \A r \in Request : Told(rq[r]) /\ (rq[r].pc # "idle" => FreeOK(r))

\* A step that nobody threw in.
Unthrown == faults = 0 /\ faults' = 0

LEMMA NobodyThrew ==
    ASSUME Unthrown
    PROVE  ~Fault
  BY DEF Unthrown, Fault

LEMMA PlainTold ==
    ASSUME RequestInv, NEW r \in Request, Told(rq[r]), Plain(r)
    PROVE  Told(rq'[r])
  <1>1. rq \in [Request -> RequestState] /\ rq[r] \in RequestState /\ RequestOK(rq[r])
    BY DEF RequestInv, RequestsOK
  <1>2. ASSUME NEW pc \in Pc \ {"record", "finish", "giveback"}, Go(r, pc), rq[r].pc # "end"
        PROVE  Told(rq'[r])
    BY <1>1, <1>2 DEF Go, RequestState, Told
  <1>3. ASSUME NEW answer \in Answer, Answered(r, answer), rq[r].pc # "end",
               answer \in {"refused", "error"} => rq[r].pc \in Early
        PROVE  Told(rq'[r])
    BY <1>1, <1>3 DEF Answered, RequestState, Told, RequestOK
  <1>4. CASE CourtUnavailable(r) \/ RunFails(r) \/ GiveUp(r) \/ GiveBack(r)
    BY <1>2, <1>4 DEF CourtUnavailable, RunFails, GiveUp, GiveBack, At, Pc
  <1>5. CASE RecordFailed(r) \/ Undo(r) \/ SendDone(r)
    BY <1>3, <1>5 DEF RecordFailed, Undo, SendDone, At, Answer, Early
  <1>6. CASE TakeHold(r) \/ Rehold(r) \/ Classify(r)
    <2>1. ASSUME rq' = [rq EXCEPT ![r].pc = "repay", ![r].reheld = TRUE], rq[r].pc # "end"
          PROVE  Told(rq'[r])
      BY <1>1, <2>1 DEF RequestState, Told
    <2> QED
      BY <1>2, <1>3, <1>6, <2>1 DEF TakeHold, Rehold, Classify, At, Answer, Early, Pc
  <1>7. CASE RunSucceeds(r) \/ Deliver(r)
    <2>1. ASSUME NEW b, rq' = [rq EXCEPT ![r].pc = "deliver", ![r].band = b], rq[r].pc # "end"
          PROVE  Told(rq'[r])
      BY <1>1, <2>1 DEF RequestState, Told
    <2>2. ASSUME NEW b, rq' = [rq EXCEPT ![r].pc = "save", ![r].stored = b], rq[r].pc # "end"
          PROVE  Told(rq'[r])
      BY <1>1, <2>2 DEF RequestState, Told
    <2> QED
      BY <1>2, <1>7, <2>1, <2>2 DEF RunSucceeds, Deliver, At, Pc
  <1>8. CASE Save(r)
    <2>1. rq[r].pc = "save" /\ ~rq[r].present
      BY <1>1, <1>8 DEF Save, At, RequestOK, Early
    <2> QED
      BY <1>1, <1>8, <2>1 DEF Save, Go, RequestState, Told
  <1>9. CASE RecordCompleted(r)
    <2>1. rq[r].pc = "record" /\ ~rq[r].present
      BY <1>9 DEF RecordCompleted, At, Told
    <2> QED
      BY <1>1, <1>9, <2>1 DEF RecordCompleted, Go, RequestState, Told
  <1>10. CASE Finish(r) /\ GivesBack(r)
    <2>1. /\ rq[r].pc = "finish" /\ ~rq[r].present /\ (rq[r].dup \/ ~rq[r].saved)
          /\ Go(r, "giveback")
      BY <1>10 DEF Finish, GivesBack, At, Told
    <2> QED
      BY <1>1, <2>1 DEF Go, RequestState, Told
  <1>11. CASE Settled(r) \/ Lost(r)
    <2>1. ASSUME NEW b, rq' = [rq EXCEPT ![r].pc = "done", ![r].debited = b], rq[r].pc # "end"
          PROVE  Told(rq'[r])
      BY <1>1, <2>1 DEF RequestState, Told
    <2>2. ASSUME NEW b, rq' = [rq EXCEPT ![r].pc = "done", ![r].left = b], rq[r].pc # "end"
          PROVE  Told(rq'[r])
      BY <1>1, <2>2 DEF RequestState, Told
    <2> QED
      BY <1>2, <1>11, <2>1, <2>2 DEF Settled, Lost, At, Pc
  <1>12. CASE Resettled(r)
    <2>1. ASSUME NEW b, rq' = [rq EXCEPT ![r].pc = "done", ![r].debited = b], rq[r].pc # "end"
          PROVE  Told(rq'[r])
      BY <1>1, <2>1 DEF RequestState, Told
    <2> QED
      BY <1>2, <1>3, <1>12, <2>1 DEF Resettled, At, Pc, Answer
  <1>13. CASE Beat(r) \/ ClientGone(r)
    BY <1>1, <1>13 DEF Beat, ClientGone, RequestState, Told
  <1>14. CASE Walks(r)
    BY <1>4, <1>5, <1>6, <1>7, <1>8, <1>10, <1>11, <1>12, <1>13, <1>14 DEF Walks
  <1>15. CASE HoldsOrReleases(r)
    BY <1>4, <1>5, <1>6, <1>15 DEF HoldsOrReleases
  <1> QED
    BY <1>5, <1>7, <1>9, <1>13, <1>14, <1>15 DEF Plain, Notes

LEMMA OutStays ==
    ASSUME TypeOK, NEW c \in Caller, ~call[c].sweeping, call[c].step \in SettleSteps,
           call[c].out # "threw", CallStep(c) \/ SettleMark(c), ~Fault
    PROVE  call'[c].out # "threw"
  <1>1. call \in [Caller -> Call] /\ call[c] \in Call
    BY DEF TypeOK
  <1>2. ASSUME NEW out, NEW units, Return(c, out, units), out # "threw"
        PROVE  call'[c].out # "threw"
    BY <1>2, ReturnsHome
  <1>3. CASE SettleRead(c)
    <2>1. ASSUME NEW hold, call' = [call EXCEPT ![c].step = "mark", ![c].hold = hold]
          PROVE  call'[c].out # "threw"
      BY <1>1, <2>1 DEF Call
    <2>2. CASE holds[call[c].key].open
      BY <1>3, <2>1, <2>2 DEF SettleRead
    <2>3. CASE ~holds[call[c].key].open
      BY <1>2, <1>3, <2>3 DEF SettleRead
    <2> QED
      BY <2>2, <2>3
  <1>4. CASE SettleMark(c)
    <2>1. ASSUME call' = [call EXCEPT ![c].step = "pull"]
          PROVE  call'[c].out # "threw"
      BY <1>1, <2>1 DEF Call
    <2> QED
      BY <1>2, <1>4, <2>1 DEF SettleMark
  <1>5. CASE SettlePull(c)
    <2>1. ASSUME NEW rows, NEW units,
                 call' = [call EXCEPT ![c].step = "rows", ![c].rows = rows, ![c].units = units]
          PROVE  call'[c].out # "threw"
      BY <1>1, <2>1 DEF Call
    <2>2. \/ Return(c, "settled", 0) \/ Return(c, "no_hold", 0)
          \/ \E rows, units :
                call' = [call EXCEPT ![c].step = "rows", ![c].rows = rows, ![c].units = units]
      BY <1>5 DEF SettlePull, PullMissed
    <2> QED
      BY <1>2, <2>1, <2>2
  <1>6. CASE SettleRows(c)
    BY <1>2, <1>6 DEF SettleRows, WriteRows
  <1> QED
    BY <1>3, <1>4, <1>5, <1>6 DEF CallStep, SettleSteps, SweepNext, SweepEnd, SweepLook,
       SweepRelease, SweepReread

LEMMA FreeOwn ==
    ASSUME TypeOK, RequestInv, NEW r \in Request, KeyOK(r), Told(rq[r]), FreeOK(r), Own(r),
           faults' = 0 => Unthrown
    PROVE  FreeOK(r)'
  <1> DEFINE k == rq[r].key
  <1> SUFFICES ASSUME Unthrown
               PROVE  /\ rq'[r].pc # "undo"
                      /\ rq'[r].pc \in InSettle => call'[r].out # "threw"
                      /\ rq'[r].answer = "withheld" =>
                            ~holds'[rq'[r].key].open /\ kept'[rq'[r].key] = Zero
    BY DEF FreeOK
  <1>1. /\ rq \in [Request -> RequestState] /\ rq[r] \in RequestState
        /\ rq'[r].key = k /\ ~Fault
        /\ rq[r].pc # "undo" /\ (rq[r].pc \in InSettle => call[r].out # "threw")
    BY OwnEffect, NobodyThrew DEF RequestInv, RequestsOK, FreeOK, Unthrown
  <1>2. rq[r].answer = "none"
    <2>1. rq[r].pc # "end"
      BY PlainEffect, BeginsEffect, OwnSweepEffect DEF Own
    <2> QED
      BY <2>1 DEF Told
  <1>3. CASE Plain(r)
    <2>1. rq'[r].pc \notin InSettle
      BY <1>3, PlainEffect
    <2>2. CASE Classify(r)
      <3>1. rq'[r].pc # "undo" /\ UNCHANGED <<holds, kept>>
        BY <1>1, <2>2 DEF Classify, Go, Answered, RequestState, inkVars
      <3>2. ~holds[k].open /\ kept[k] = Zero
        BY <2>2 DEF Classify, At, KeyOK, Shut
      <3> QED
        BY <1>1, <2>1, <3>1, <3>2
    <2>3. CASE ~Classify(r)
      <3>1. rq'[r].answer # "withheld" /\ rq'[r].pc # "undo"
        <4>1. CASE Walks(r)
          BY <1>1, <1>2, <2>3, <4>1 DEF Walks, CourtUnavailable, RunFails, RunSucceeds, Save, Finish,
             Settled, Lost, Resettled, Returned, SendDone, ClientGone, Go, Answered, At, InSettle,
             RequestState, Alive
        <4>2. CASE HoldsOrReleases(r)
          BY <1>1, <1>2, <4>2 DEF HoldsOrReleases, TakeHold, Rehold, GiveUp, GiveBack, Undo, Maybe,
             Go, Answered, At, RequestState
        <4>3. CASE RecordFailed(r) \/ Deliver(r) \/ RecordCompleted(r)
          BY <1>1, <1>2, <4>3 DEF RecordFailed, Deliver, RecordCompleted, Go, Answered, RequestState
        <4>4. CASE Beat(r)
          BY <1>1, <1>2, <4>4 DEF Beat, RequestState
        <4> QED
          BY <1>3, <4>1, <4>2, <4>3, <4>4 DEF Plain, Notes
      <3> QED
        BY <2>1, <3>1
    <2> QED
      BY <2>2, <2>3
  <1>4. CASE Begins(r)
    <2>1. rq'[r].pc # "undo" /\ call'[r].out = "none"
      BY <1>4, BeginsEffect
    <2>2. rq'[r].answer = rq[r].answer
      BY <1>1, <1>4 DEF Begins, Finish, Repay, Go, RequestState
    <2> QED
      BY <1>2, <2>1, <2>2
  <1>5. CASE OwnSweep(r)
    <2>1. rq'[r].pc # "undo" /\ rq'[r].pc \notin InSettle
      BY <1>5, OwnSweepEffect DEF InSettle
    <2>2. rq'[r].answer = rq[r].answer
      BY <1>1, <1>5 DEF OwnSweep, Go, RequestState
    <2> QED
      BY <1>2, <2>1, <2>2
  <1> QED
    BY <1>3, <1>4, <1>5 DEF Own

LEMMA FreeStep ==
    ASSUME IInv, RequestInv, LinkInv, SoleInv, FreeInv, SentOnce, [Next]_vars
    PROVE  FreeInv'
  <1>1. /\ TypeOK /\ rq \in [Request -> RequestState]
        /\ faults' = 0 => Unthrown
    BY RowsStay DEF IInv, RequestInv, RequestsOK, FaultsStay, Unthrown
  <1> SUFFICES ASSUME NEW r \in Request
               PROVE  Told(rq'[r]) /\ (rq'[r].pc # "idle" => FreeOK(r)')
    BY DEF FreeInv
  <1> DEFINE k == rq[r].key
  <1>2. Told(rq[r]) /\ r \in Caller
    BY CallerAssumption DEF FreeInv
  <1>3. CASE rq[r].pc = "idle"
    <2>1. rq[r].answer = "none"
      BY <1>2, <1>3 DEF Told
    <2>2. CASE Start(r)
      <3>1. /\ rq'[r].pc = "sweep" /\ rq'[r].answer = rq[r].answer
            /\ rq'[r].saved = rq[r].saved /\ rq'[r].present = rq[r].present
        BY <1>1, <2>2 DEF Start, RequestState
      <3> QED
        BY <2>1, <3>1 DEF Told, FreeOK, InSettle
    <2>3. CASE ~Start(r)
      BY <1>1, <1>3, <2>1, <2>3, IdleSeen DEF Told
    <2> QED
      BY <2>2, <2>3
  <1>4. CASE rq[r].pc # "idle"
    <2>1. KeyOK(r) /\ FreeOK(r) /\ k \in Key /\ Linked(r)
      BY <1>2, <1>4 DEF SoleInv, FreeInv, RequestInv, RequestOK, LinkInv
    <2>2. CASE Own(r)
      <3>1. Told(rq'[r])
        <4>1. CASE Plain(r)
          BY <1>2, <4>1, PlainTold
        <4>2. CASE Begins(r) \/ OwnSweep(r)
          <5>1. rq[r].pc # "end" /\ rq'[r].pc \in {"settle", "resettle", "hold", "rehold"}
            BY <1>1, <4>2, BeginsEffect, OwnSweepEffect
          <5>2. rq'[r].answer = rq[r].answer
            BY <1>1, <4>2 DEF Begins, Finish, Repay, OwnSweep, Go, RequestState
          <5> QED
            BY <1>2, <5>1, <5>2 DEF Told
        <4> QED
          BY <2>2, <4>1, <4>2 DEF Own
      <3> QED
        BY <1>1, <1>2, <2>1, <2>2, <3>1, FreeOwn
    <2>3. ASSUME NEW c \in Caller, CallOf(c, r)
          PROVE  Told(rq'[r]) /\ FreeOK(r)'
      <3>1. KeyStep(c, k)
        BY <2>1, <2>3, CallOnKey DEF CallOf
      <3>2. ~holds[k].open => ~holds'[k].open /\ kept'[k] = kept[k]
        BY <3>1 DEF KeyStep, Calm, Marks, Pulls, Releases, Holding, Pinned
      <3>3. CASE c # r /\ rq'[r] = rq[r] /\ call'[r] = call[r]
        BY <1>1, <1>2, <2>1, <3>2, <3>3 DEF FreeOK, Unthrown
      <3>4. CASE c = r /\ (CallStep(r) \/ MarkHold(r))
        <4>1. /\ rq'[r].pc = rq[r].pc /\ rq'[r].key = k /\ rq'[r].answer = rq[r].answer
              /\ rq'[r].saved = rq[r].saved /\ rq'[r].present = rq[r].present
              /\ rq'[r].dup = rq[r].dup
          BY <1>1, <3>4, CallEffect
        <4>2. Told(rq'[r])
          BY <1>2, <4>1 DEF Told
        <4>3. ASSUME Unthrown, rq[r].pc \in InSettle
              PROVE  call'[r].out # "threw"
          <5>1. call[r].out # "threw" /\ ~call[r].sweeping
            BY <2>1, <4>3 DEF FreeOK, Unthrown, Linked
          <5>2. call[r].step \in SettleSteps
            BY <1>1, <1>2, <2>1, <3>4, <5>1, CallGoesOn DEF Linked, MarkHold
          <5> QED
            BY <1>1, <1>2, <3>4, <4>3, <5>1, <5>2, OutStays, NobodyThrew DEF MarkHold
        <4> QED
          BY <1>1, <2>1, <3>2, <4>1, <4>2, <4>3 DEF FreeOK, Unthrown
      <3> QED
        BY <2>3, <3>3, <3>4 DEF CallOf
    <2>4. CASE Beside(r)
      BY <1>1, <1>2, <2>1, <2>4 DEF Beside, Calm, FreeOK, Unthrown
    <2>5. CASE Crash
      <3>1. /\ UNCHANGED <<holds, kept, faults>> /\ rq'[r].key = k /\ rq'[r].pc = "end"
            /\ rq'[r].answer = rq[r].answer
            /\ rq'[r].saved = rq[r].saved /\ rq'[r].present = rq[r].present
        BY <1>1, <1>4, <2>5 DEF Crash, ProcessDies, Live, RequestState
      <3> QED
        BY <1>2, <2>1, <3>1 DEF Told, FreeOK, InSettle
    <2> QED
      BY <1>4, <2>2, <2>3, <2>4, <2>5, StepSeen
  <1> QED
    BY <1>3, <1>4

LEMMA FreeInvariant == Spec /\ []SentOnce /\ []Remembered => []FreeInv
  <1>1. Init => FreeInv
    BY DEF Init, InkInit, NewRequest, FreeInv, Told
  <1>2. IInv /\ RequestInv /\ LinkInv /\ SoleInv /\ FreeInv /\ SentOnce /\ [Next]_vars => FreeInv'
    BY FreeStep
  <1> QED
    BY <1>1, <1>2, DraftInvariant, LinkInvariant, SoleInvariant, PTL DEF Spec

\* A request that was told it failed, was refused or was not sent its draft has
\* cost nothing, before its answer and by no sweep after it, while no call threw:
\* of an attempt that was sent once, under the same limit of inkSettled.
THEOREM ChargedWhenDone == Spec /\ []SentOnce /\ []Remembered => []NoChargeUnlessDone
  <1>1. RequestInv /\ SoleInv /\ FreeInv /\ SentOnce /\ ChargeRule => NoChargeUnlessDone
    <2> SUFFICES ASSUME RequestInv, FreeInv, ChargeRule, faults = 0,
                        NEW k \in Key, kept[k] # Zero
                 PROVE  \E r \in Request : rq[r].key = k /\ rq[r].answer \in {"none", "done"}
      BY DEF NoChargeUnlessDone
    <2>1. PICK r \in Request : rq[r].key = k /\ Delivered(r)
      BY DEF ChargeRule
    <2>2. rq[r].answer \in Answer /\ rq[r].pc # "idle"
      BY <2>1, KeyAssumption DEF RequestInv, RequestsOK, RequestState, RequestOK
    <2>3. rq[r].answer \notin {"refused", "error"}
      BY <2>1 DEF FreeInv, Told, Delivered
    <2>4. rq[r].answer # "withheld"
      BY <2>1, <2>2 DEF FreeInv, FreeOK
    <2> QED
      BY <2>1, <2>2, <2>3, <2>4 DEF Answer
  <1> QED
    BY <1>1, DraftInvariant, SoleInvariant, FreeInvariant, ChargeRuleHolds, PTL

-----------------------------------------------------------------------------
(* While no call threw: the band a hold was given, and what a settle read of it. *)

LEMMA OlderStep ==
    ASSUME TypeOK, [InkNext]_inkVars
    PROVE  Older
  <1>1. ASSUME NEW k \in Key, RouteWrite(k) \/ Expire(k)
        PROVE  Older
    BY <1>1, RouteAges
  <1>2. ASSUME NEW c \in Caller, SettleStep(c) \/ SweepStep(c) \/ CallThrows(c)
        PROVE  Older
    BY <1>2, CallerAges
  <1>3. CASE UNCHANGED <<holds, stamp>>
    BY <1>3, OlderSame
  <1>4. \/ \E k \in Key : RouteWrite(k) \/ Expire(k)
        \/ \E c \in Caller : SettleStep(c) \/ SweepStep(c) \/ CallThrows(c)
        \/ UNCHANGED <<holds, stamp>>
    BY DEF InkNext, SettleBegin, OtherWriter, GrantSubscriptionInk, GrantTopupInk,
       CancelSubscriptionInk, ReverseRefundInk, ProcessDies, inkVars
  <1> QED
    BY <1>1, <1>2, <1>3, <1>4

\* A hold that now has an expiresAt given out before had it before.
LEMMA PinStays ==
    ASSUME TypeOK, Older, NEW k \in Key, NEW e \in Nat, e <= stamp[k],
           holds'[k].open, holds'[k].expiresAt = e
    PROVE  holds[k].open /\ holds[k].expiresAt = e
  <1>1. stamp[k] \in Nat /\ Ages(k)
    BY DEF TypeOK, Older
  <1> QED
    BY <1>1 DEF Ages

\* What a caller about to mark or pull, or to release, has read: before, or now.
SameView(d) == call'[d].key = call[d].key /\ call'[d].hold = call[d].hold

ReadsNow(d) ==
    /\ call'[d].key = call[d].key /\ UNCHANGED holds
    /\ holds[call[d].key].open
    /\ call'[d].hold.settleUnits = holds[call[d].key].settleUnits

History(d) ==
    /\ call'[d].step \in {"mark", "pull"} =>
          (call[d].step \in {"mark", "pull"} /\ SameView(d)) \/ ReadsNow(d)
    /\ call'[d].step = "release" =>
          /\ SameView(d)
          /\ call[d].step = "release" \/ (call[d].step = "look" /\ ~Completed(call[d].key))

LEMMA CallHistory ==
    ASSUME TypeOK, NEW d \in Caller, CallStep(d) \/ SettleMark(d)
    PROVE  History(d)
  <1>1. call \in [Caller -> Call] /\ call[d] \in Call
    BY DEF TypeOK
  <1>2. ASSUME NEW out, NEW units, Return(d, out, units)
        PROVE  History(d)
    <2>1. call'[d] = IF call[d].sweeping
                     THEN [Idle EXCEPT !.step = "next", !.sweeping = TRUE, !.todo = call[d].todo]
                     ELSE [Idle EXCEPT !.out = out, !.units = units]
      BY <1>1, <1>2 DEF Return
    <2>2. call'[d].step \in {"idle", "next"}
      BY <2>1 DEF Idle
    <2> QED
      BY <2>2 DEF History
  <1>3. ASSUME NEW step \in {"read", "reread", "rows"}, call' = [call EXCEPT ![d].step = step]
        PROVE  History(d)
    BY <1>1, <1>3 DEF Call, History
  <1>4. CASE SettleRead(d)
    <2> DEFINE h == holds[call[d].key]
               snap == [units |-> h.units, split |-> h.split, expiresAt |-> h.expiresAt,
                        settleUnits |-> h.settleUnits]
    <2>1. CASE h.open
      <3>1. ASSUME NEW hold, call' = [call EXCEPT ![d].step = "mark", ![d].hold = hold]
            PROVE  /\ call'[d].step = "mark" /\ call'[d].hold = hold
                   /\ call'[d].key = call[d].key
        BY <1>1, <3>1 DEF Call
      <3>2. call' = [call EXCEPT ![d].step = "mark", ![d].hold = snap]
        BY <1>4, <2>1 DEF SettleRead
      <3>3. call'[d].step = "mark" /\ call'[d].hold = snap /\ call'[d].key = call[d].key
        BY <3>1, <3>2
      <3>4. call'[d].hold.settleUnits = h.settleUnits
        BY <3>3
      <3>5. ReadsNow(d)
        BY <1>4, <2>1, <3>3, <3>4 DEF ReadsNow, SettleRead
      <3> QED
        BY <3>3, <3>5 DEF History
    <2>2. CASE ~h.open
      BY <1>2, <1>4, <2>2 DEF SettleRead
    <2> QED
      BY <2>1, <2>2
  <1>5. CASE SettleMark(d)
    <2>1. CASE Pinned(call[d].key, call[d].hold)
      <3>1. call' = [call EXCEPT ![d].step = "pull"] /\ call[d].step = "mark"
        BY <1>5, <2>1 DEF SettleMark
      <3>2. call'[d].step = "pull" /\ SameView(d)
        BY <1>1, <3>1 DEF Call, SameView
      <3> QED
        BY <3>1, <3>2 DEF History
    <2>2. CASE ~Pinned(call[d].key, call[d].hold)
      BY <1>2, <1>5, <2>2 DEF SettleMark
    <2> QED
      BY <2>1, <2>2
  <1>6. CASE SettlePull(d)
    <2>1. \/ Return(d, "settled", 0) \/ Return(d, "no_hold", 0)
          \/ \E rows, units :
                call' = [call EXCEPT ![d].step = "rows", ![d].rows = rows, ![d].units = units]
      BY <1>6 DEF SettlePull, PullMissed
    <2>2. ASSUME NEW rows, NEW units,
                 call' = [call EXCEPT ![d].step = "rows", ![d].rows = rows, ![d].units = units]
          PROVE  History(d)
      BY <1>1, <2>2 DEF Call, History
    <2> QED
      BY <1>2, <2>1, <2>2
  <1>7. CASE SettleRows(d) \/ SettleRowsFail(d)
    BY <1>2, <1>7 DEF SettleRows, SettleRowsFail, WriteRows
  <1>8. CASE SweepNext(d)
    <2>1. PICK x \in call[d].todo :
             call' = [call EXCEPT ![d] =
                        [Idle EXCEPT !.step = IF x.deliver THEN "read" ELSE "look",
                                     !.sweeping = TRUE, !.key = x.key,
                                     !.hold = [NoSnapshot EXCEPT !.expiresAt = x.expiresAt],
                                     !.todo = call[d].todo \ {x}]]
      BY <1>8 DEF SweepNext
    <2>2. call'[d].step \in {"read", "look"}
      BY <1>1, <2>1 DEF Idle
    <2> QED
      BY <2>2 DEF History
  <1>9. CASE SweepEnd(d)
    BY <1>1, <1>9 DEF SweepEnd, Idle, History
  <1>10. CASE SweepLook(d)
    <2>1. CASE Completed(call[d].key)
      BY <1>3, <1>10, <2>1 DEF SweepLook
    <2>2. CASE ~Completed(call[d].key)
      <3>1. call' = [call EXCEPT ![d].step = "release"] /\ call[d].step = "look"
        BY <1>10, <2>2 DEF SweepLook
      <3>2. call'[d].step = "release" /\ SameView(d)
        BY <1>1, <3>1 DEF Call, SameView
      <3> QED
        BY <2>2, <3>1, <3>2 DEF History
    <2> QED
      BY <2>1, <2>2
  <1>11. CASE SweepRelease(d) \/ SweepReread(d)
    BY <1>2, <1>3, <1>11 DEF SweepRelease, SweepReread
  <1>12. CASE CallThrows(d)
    <2>1. CASE call[d].step = "next"
      <3>1. call'[d].step = "idle"
        BY <1>1, <1>12, <2>1 DEF CallThrows, Idle
      <3> QED
        BY <3>1 DEF History
    <2>2. CASE call[d].step # "next"
      BY <1>2, <1>12, <2>2 DEF CallThrows
    <2> QED
      BY <2>1, <2>2
  <1> QED
    BY <1>4, <1>5, <1>6, <1>7, <1>8, <1>9, <1>10, <1>11, <1>12 DEF CallStep

LEMMA StepHistory ==
    ASSUME TypeOK, RequestInv, [Next]_vars, NEW d \in Caller
    PROVE  History(d)
  <1>1. call \in [Caller -> Call] /\ Request \subseteq Caller /\ Sweeper \subseteq Caller
    BY CallerAssumption DEF TypeOK
  <1>2. ASSUME call'[d] = call[d]
        PROVE  History(d)
    <2>1. call[d].step = "release" => SameView(d)
      BY <1>2 DEF SameView
    <2> QED
      BY <1>2, <2>1 DEF History, SameView
  <1>3. ASSUME NEW c \in Caller, CallStep(c) \/ SettleMark(c)
        PROVE  History(d)
    <2>1. CASE c = d
      BY <1>3, <2>1, CallHistory
    <2>2. CASE c # d
      <3>1. SettleStep(c) \/ SweepStep(c) \/ CallThrows(c)
        BY <1>3 DEF CallStep, SettleStep, SweepStep
      <3> QED
        BY <1>2, <2>2, <3>1, CallerAges
    <2> QED
      BY <2>1, <2>2
  <1>4. ASSUME NEW c \in Caller, SweepRead(c)
        PROVE  History(d)
    <2>1. CASE c = d
      BY <1>4, <2>1, SweepReadEffect DEF History
    <2>2. CASE c # d
      BY <1>1, <1>2, <1>4, <2>2 DEF SweepRead
    <2> QED
      BY <2>1, <2>2
  <1>5. ASSUME NEW q \in Request, Plain(q) \/ Begins(q) \/ OwnSweep(q)
        PROVE  History(d)
    <2>1. CASE Plain(q)
      BY <1>2, <2>1, PlainEffect
    <2>2. CASE Begins(q)
      <3>1. CASE d = q
        BY <2>2, <3>1, BeginsEffect DEF History
      <3>2. CASE d # q
        BY <1>2, <2>2, <3>2, BeginsEffect
      <3> QED
        BY <3>1, <3>2
    <2>3. CASE OwnSweep(q)
      BY <1>1, <1>2, <1>4, <2>3 DEF OwnSweep, inkVars
    <2> QED
      BY <1>5, <2>1, <2>2, <2>3
  <1>6. ASSUME NEW q \in Request, Start(q) \/ Proceed(q) \/ Beat(q) \/ ClientGone(q)
        PROVE  History(d)
    <2>1. CASE Start(q)
      BY <1>2, <2>1 DEF Start, inkVars
    <2>2. CASE Proceed(q) \/ Beat(q) \/ ClientGone(q)
      BY <1>1, <1>3, <1>5, <2>2, StepKinds DEF MarkHold
    <2> QED
      BY <1>6, <2>1, <2>2
  <1>7. ASSUME NEW s \in Sweeper, TimerSweep(s) \/ CallStep(s)
        PROVE  History(d)
    BY <1>1, <1>3, <1>4, <1>7 DEF TimerSweep
  <1>8. CASE Crash
    BY <1>8 DEF Crash, ProcessDies, Idle, History
  <1>9. CASE (\E j \in Key : HoldExpires(j)) \/ AccountChanges \/ UNCHANGED vars
    BY <1>2, <1>9 DEF HoldExpires, Expire, AccountChanges, OtherWriter, GrantSubscriptionInk,
       GrantTopupInk, CancelSubscriptionInk, ReverseRefundInk, vars, inkVars
  <1> QED
    BY <1>6, <1>7, <1>8, <1>9 DEF Next

\* What the hold of k, and every settle that may still pull it, would keep is in U.
SnapsIn(k, U) ==
    \A d \in Caller : Holding(d, k, "mark") \/ Holding(d, k, "pull") =>
       call[d].hold.settleUnits \in U
HoldIn(k, U) == holds[k].open => holds[k].settleUnits \in U

LEMMA SnapsStep ==
    ASSUME IInv, Older, \A d \in Caller : History(d), NEW k \in Key, NEW U,
           SnapsIn(k, U), HoldIn(k, U)
    PROVE  SnapsIn(k, U)'
  <1> SUFFICES ASSUME NEW d \in Caller, call'[d].step \in {"mark", "pull"}, call'[d].key = k,
                      holds'[k].open, holds'[k].expiresAt = call'[d].hold.expiresAt
               PROVE  call'[d].hold.settleUnits \in U
    BY DEF SnapsIn, Holding, Pinned
  <1>1. TypeOK /\ CallOK(d) /\ call[d] \in Call
    BY DEF IInv, TypeOK
  <1>2. CASE call[d].step \in {"mark", "pull"} /\ SameView(d)
    <2>1. /\ call[d].key = k /\ call[d].hold.expiresAt \in Nat
          /\ call[d].hold.expiresAt <= stamp[k]
          /\ holds'[k].expiresAt = call[d].hold.expiresAt
      BY <1>1, <1>2 DEF SameView, CallOK, Call, Snapshot
    <2>2. Pinned(k, call[d].hold)
      BY <1>1, <2>1, PinStays DEF Pinned
    <2> QED
      BY <1>2, <2>1, <2>2 DEF SnapsIn, Holding, SameView
  <1>3. CASE ReadsNow(d)
    BY <1>3 DEF ReadsNow, HoldIn
  <1> QED
    BY <1>2, <1>3 DEF History

\* The program points between the figure of a draft and its settle's return.
Drafted == {"save", "record", "finish", "settle"}

\* What a settle of the attempt keeps, and what its hold may say of it.
Figure(q) == IF q.band # Unset THEN q.band ELSE Cost
Figures(q) == IF q.pc \in Drafted THEN {q.band} ELSE FigureSet \cup {Unset}

BandOK(r) ==
    LET q == rq[r]
        k == q.key
    IN  /\ q.pc \in {"sweep", "hold", "run"} => q.band = Unset
        /\ q.pc \in {"sweep", "hold", "run", "deliver"} /\ holds[k].open =>
              holds[k].settleUnits = Unset
        /\ q.pc \in Drafted /\ holds[k].open /\ q.band # Unset => q.stored
        /\ HoldIn(k, Figures(q)) /\ SnapsIn(k, Figures(q))

\* What was kept of the attempt, where its request relies on it.
PaidOK(r) ==
    LET q == rq[r]
        k == q.key
    IN  /\ WasInkSettled(k) => kept[k] # Zero
        /\ q.pc \in Drafted \cup {"lost"} /\ kept[k] # Zero =>
              Total(kept[k]) = Figure(q) /\ (q.band # Unset => q.stored)
        /\ q.debited # Unset =>
              q.pc \in {"done", "end"} /\ ~holds[k].open /\ Total(kept[k]) = q.debited
        /\ (q.pc = "done" \/ q.answer = "done") /\ Delivered(r) => kept[k] # Zero
        /\ q.pc \in InSettle /\ Pulled(r) => kept[k] # Zero

\* A hold that was taken again is not one a sweep is about to release.
RepayOK(r) ==
    LET k == rq[r].key
    IN  rq[r].pc \in {"repay", "resettle"} =>
          /\ holds[k].open \/ kept[k] # Zero
          /\ \A d \in Caller : ~Holding(d, k, "release")

PaidInv ==
    \A r \in Request :
       /\ rq[r].pc = "idle" => rq[r].band = Unset /\ rq[r].debited = Unset
       /\ rq[r].pc # "idle" => BandOK(r) /\ PaidOK(r) /\ RepayOK(r)

\* No band is empty, and the draft is not free.
Priced == 0 \notin FigureSet /\ Cost # 0

LEMMA FiguresIn ==
    ASSUME RequestInv, NEW r \in Request
    PROVE  /\ Figures(rq[r]) \subseteq FigureSet \cup {Unset}
           /\ rq[r].band \in FigureSet \cup {Unset}
           /\ FigureSet \subseteq Nat /\ Cost \in Nat /\ (\A f \in FigureSet : f <= Cost)
  BY UnitsAssumption, CostAssumption DEF Figures, RequestInv, RequestOK

\* Whoever settles the attempt settles it for its band, or for what its hold says.
LEMMA CallFigure ==
    ASSUME LinkInv, SentOnce, NEW r \in Request, NEW k \in Key, rq[r].key = k, NEW c \in Caller,
           call[c].key = k, call[c].step # "idle"
    PROVE  call[c].actual \in {Unset, rq[r].band}
  <1>1. CASE call[c].sweeping
    BY <1>1 DEF LinkInv, Linked
  <1>2. CASE ~call[c].sweeping
    <2>1. c \in Request /\ rq[c].key = k /\ call[c].actual = rq[c].band
      BY <1>2 DEF LinkInv, Linked
    <2>2. c = r
      BY <2>1 DEF SentOnce, Twins
    <2> QED
      BY <2>1, <2>2
  <1> QED
    BY <1>1, <1>2

LEMMA MarkUnits ==
    ASSUME RequestInv, LinkInv, SentOnce, NEW r \in Request, NEW k \in Key, rq[r].key = k,
           KeyOK(r), HoldIn(k, Figures(rq[r])), NEW c \in Caller, Marks(c, k)
    PROVE  holds'[k].settleUnits \in Figures(rq[r])
  <1>1. /\ holds[k].open /\ holds[k].units = Cost /\ holds[k].settleUnits \in Figures(rq[r])
        /\ call[c].actual \in {Unset, rq[r].band}
    BY CallFigure DEF Marks, Holding, Pinned, KeyOK, HoldIn
  <1>2. CASE call[c].actual = Unset
    BY <1>1, <1>2 DEF Marks
  <1>3. CASE call[c].actual # Unset
    <2>1. call[c].actual = rq[r].band /\ rq[r].band \in FigureSet
      BY <1>1, <1>3, FiguresIn
    <2>2. holds'[k].settleUnits = rq[r].band
      BY <1>1, <1>3, <2>1, FiguresIn DEF Marks, Lesser
    <2> QED
      BY <2>1, <2>2 DEF Figures
  <1> QED
    BY <1>2, <1>3

LEMMA PullUnits ==
    ASSUME Priced, IInv, RequestInv, LinkInv, SentOnce, NEW r \in Request, NEW k \in Key,
           rq[r].key = k, KeyOK(r), SnapsIn(k, Figures(rq[r])), NEW c \in Caller, Pulls(c, k)
    PROVE  /\ kept'[k] # Zero
           /\ rq[r].pc \in Drafted => Total(kept'[k]) = Figure(rq[r])
  <1> DEFINE h == call[c].hold
             actual == call[c].actual
  <1>1. /\ holds[k].open /\ holds[k].units = Cost /\ kept[k] = Zero
        /\ actual \in {Unset, rq[r].band} /\ h.settleUnits \in Figures(rq[r])
    BY CallFigure DEF Pulls, Holding, Pinned, KeyOK, SnapsIn
  <1>2. h.units = Cost
    BY <1>1 DEF IInv, CallOK, Pulls, Holding
  <1>3. /\ Figures(rq[r]) \subseteq FigureSet \cup {Unset} /\ rq[r].band \in FigureSet \cup {Unset}
        /\ FigureSet \subseteq Nat /\ Cost \in Nat /\ (\A f \in FigureSet : f <= Cost)
    BY FiguresIn
  <1>4. Charged(h, actual) \in Nat /\ Charged(h, actual) # 0
    BY <1>1, <1>2, <1>3 DEF Priced, Charged, Lesser, Unset
  <1>5. Total(kept'[k]) = Charged(h, actual)
    BY <1>1, <1>4 DEF Pulls, Total, Zero
  <1>6. kept'[k] # Zero
    BY <1>4, <1>5 DEF Total, Zero
  <1>7. ASSUME rq[r].pc \in Drafted
        PROVE  Charged(h, actual) = Figure(rq[r])
    <2>1. h.settleUnits = rq[r].band
      BY <1>1, <1>7 DEF Figures
    <2> QED
      BY <1>1, <1>2, <1>3, <2>1 DEF Charged, Lesser, Figure
  <1> QED
    BY <1>5, <1>6, <1>7

\* Of an attempt that has no draft yet nothing is kept, and no settle is on its way.
LEMMA NoneYet ==
    ASSUME RequestInv, ChargeInv, SentOnce, NEW r \in Request, NEW k \in Key, rq[r].key = k,
           rq[r].pc \in Early
    PROVE  /\ kept[k] = Zero /\ ~holds[k].deliver
           /\ \A d \in Caller : call[d].step \in {"read", "mark", "pull"} => call[d].key # k
  <1>1. k \notin PaidKeys
    <2>1. ~Earns(rq[r])
      BY DEF RequestInv, RequestOK, Earns
    <2>2. ASSUME NEW q \in Request, rq[q].key = k
          PROVE  q = r
      BY <2>2 DEF SentOnce, Twins
    <2> QED
      BY <2>1, <2>2 DEF PaidKeys, EarnedKeys
  <1> QED
    BY <1>1 DEF ChargeInv, CallEarned

\* A settle of its own that has pulled was about to.
LEMMA PulledBy ==
    ASSUME TypeOK, NEW r \in Request, rq[r].key \in Key, Linked(r), rq[r].pc \in InSettle,
           CallStep(r) \/ SettleMark(r), Pulled(r)'
    PROVE  \/ Pulled(r)
           \/ /\ call[r].step = "pull" /\ holds[rq[r].key].open
              /\ ~holds'[rq[r].key].open
  <1>1. /\ r \in Caller /\ call \in [Caller -> Call] /\ call[r] \in Call
        /\ holds \in [Key -> Hold]
    BY CallerAssumption DEF TypeOK
  <1>2. ~call[r].sweeping /\ call[r].key = rq[r].key /\ call[r].step \in SettleSteps
    BY <1>1, CallGoesOn DEF Linked
  <1>4. ASSUME NEW out, NEW units, Return(r, out, units), out # "settled"
        PROVE  FALSE
    BY <1>1, <1>2, <1>4, ReturnsHome DEF Pulled
  <1>5. ASSUME NEW step, step # "rows", step # "idle", call'[r].step = step
        PROVE  FALSE
    BY <1>5 DEF Pulled
  <1>6. CASE SettleRead(r)
    <2>1. ASSUME NEW hold, call' = [call EXCEPT ![r].step = "mark", ![r].hold = hold]
          PROVE  call'[r].step = "mark"
      BY <1>1, <2>1 DEF Call
    <2> QED
      BY <1>4, <1>5, <1>6, <2>1 DEF SettleRead
  <1>7. CASE SettleMark(r)
    <2>1. ASSUME call' = [call EXCEPT ![r].step = "pull"]
          PROVE  call'[r].step = "pull"
      BY <1>1, <2>1 DEF Call
    <2> QED
      BY <1>4, <1>5, <1>7, <2>1 DEF SettleMark
  <1>8. CASE SettlePull(r)
    <2>1. CASE Pinned(rq[r].key, call[r].hold)
      <3>1. holds' = [holds EXCEPT ![rq[r].key] = NoHold] /\ call[r].step = "pull"
        BY <1>2, <1>8, <2>1 DEF SettlePull
      <3> QED
        BY <1>1, <2>1, <3>1 DEF Pinned, NoHold
    <2>2. CASE ~Pinned(rq[r].key, call[r].hold)
      BY <1>2, <1>4, <1>8, <2>2 DEF SettlePull, PullMissed
    <2> QED
      BY <2>1, <2>2
  <1>9. CASE SettleRows(r) \/ SettleRowsFail(r)
    BY <1>9 DEF SettleRows, SettleRowsFail, WriteRows, Pulled
  <1>10. CASE CallThrows(r)
    BY <1>2, <1>4, <1>10 DEF CallThrows, SettleSteps
  <1> QED
    BY <1>2, <1>6, <1>7, <1>8, <1>9, <1>10 DEF CallStep, SettleSteps, SweepNext, SweepEnd,
       SweepLook, SweepRelease, SweepReread

LEMMA SweepsInvariant == Spec => []SweepsOK
  <1>1. InkInit => SweepsOK
    BY DEF InkInit, SweepsOK, SeenOK, Idle
  <1>2. IInv /\ IInv' /\ SweepsOK /\ [InkNext]_inkVars => SweepsOK'
    BY SweepsStep DEF IInv
  <1> QED
    BY <1>1, <1>2, ChargeImplementsInk, InkInvariant, PTL DEF InkSpec

\* No sweep turns to release a hold whose draft is recorded, or one taken since.
LEMMA NoRelease ==
    ASSUME IInv, SweepsOK, Older, \A d \in Caller : History(d), NEW k \in Key, Completed(k),
           \A d \in Caller : ~Holding(d, k, "release")
    PROVE  \A d \in Caller : ~Holding(d, k, "release")'
  <1> SUFFICES ASSUME NEW d \in Caller, call'[d].step = "release", call'[d].key = k,
                      holds'[k].open, holds'[k].expiresAt = call'[d].hold.expiresAt
               PROVE  FALSE
    BY DEF Holding, Pinned
  <1>1. TypeOK /\ call[d] \in Call
    BY DEF IInv, TypeOK
  <1>2. SameView(d) /\ call[d].step \in {"look", "release"}
    BY DEF History
  <1>3. call[d].key = k /\ call[d].hold = call'[d].hold
    BY <1>2 DEF SameView
  <1>4. call[d].step = "release"
    BY <1>3 DEF History
  <1>5. call[d].hold.expiresAt \in Nat /\ call[d].hold.expiresAt <= stamp[k]
    BY <1>1, <1>3, <1>4 DEF SweepsOK, SeenOK, StillExpired, Call, Snapshot
  <1>6. Pinned(k, call[d].hold)
    BY <1>1, <1>3, <1>5, PinStays DEF Pinned
  <1> QED
    BY <1>3, <1>4, <1>6 DEF Holding

\* Where a request no longer counts on its hold.
Resting == {"giveup", "failed", "giveback", "resweep", "classify", "undo", "done", "end"}

Paid(r) == BandOK(r) /\ PaidOK(r) /\ RepayOK(r)

LEMMA PaidAtRest ==
    ASSUME RequestInv, NEW r \in Request, NEW k \in Key, rq[r].key = k, rq'[r].key = k, Paid(r),
           NEW U, U = Figures(rq[r]), SnapsIn(k, U)',
           kept'[k] = kept[k], WasInkSettled(k)' => WasInkSettled(k),
           holds'[k].open => holds[k].open /\ holds'[k].settleUnits = holds[k].settleUnits,
           rq'[r].pc \in Resting,
           rq'[r].debited # Unset =>
              rq'[r].pc \in {"done", "end"} /\ ~holds'[k].open /\ Total(kept[k]) = rq'[r].debited,
           (rq'[r].pc = "done" \/ rq'[r].answer = "done") /\ Delivered(r)' => kept[k] # Zero
    PROVE  Paid(r)'
  <1>1. U \subseteq FigureSet \cup {Unset} /\ Figures(rq'[r]) = FigureSet \cup {Unset}
    BY FiguresIn DEF Figures, Drafted, Resting
  <1>2. BandOK(r)'
    BY <1>1 DEF Paid, BandOK, HoldIn, SnapsIn, Drafted, Resting
  <1>3. PaidOK(r)'
    BY DEF Paid, PaidOK, Drafted, InSettle, Resting
  <1>4. RepayOK(r)'
    BY DEF RepayOK, Resting
  <1> QED
    BY <1>2, <1>3, <1>4 DEF Paid

\* Before the settle: the hold, the band and what was kept agree at once.
LEMMA PaidDrafting ==
    ASSUME NEW r \in Request, NEW k \in Key, rq[r].key = k, rq'[r].key = k, Paid(r),
           NEW U, SnapsIn(k, U)', U \subseteq Figures(rq'[r]),
           kept'[k] = kept[k], WasInkSettled(k)' => WasInkSettled(k),
           rq'[r].pc \in {"hold", "run", "deliver", "save", "record", "finish"},
           rq'[r].debited = Unset, rq'[r].answer # "done",
           rq'[r].pc \in {"hold", "run"} => rq'[r].band = Unset,
           holds'[k].open =>
              /\ holds'[k].settleUnits \in Figures(rq'[r])
              /\ rq'[r].pc \in {"hold", "run", "deliver"} => holds'[k].settleUnits = Unset
              /\ rq'[r].pc \in Drafted /\ rq'[r].band # Unset => rq'[r].stored,
           rq'[r].pc \in Drafted /\ kept[k] # Zero =>
              Total(kept[k]) = Figure(rq'[r]) /\ (rq'[r].band # Unset => rq'[r].stored)
    PROVE  Paid(r)'
  <1>1. BandOK(r)'
    BY DEF BandOK, HoldIn, SnapsIn
  <1>2. PaidOK(r)'
    BY DEF Paid, PaidOK, InSettle
  <1>3. RepayOK(r)'
    BY DEF RepayOK
  <1> QED
    BY <1>1, <1>2, <1>3 DEF Paid

LEMMA PaidPlain ==
    ASSUME IInv, RequestInv, ChargeInv, SentOnce, SweepsOK, Unthrown,
           NEW r \in Request, NEW k \in Key, rq[r].key = k, KeyOK(r), SettleOK(r),
           Told(rq[r]), FreeOK(r), Paid(r),
           NEW U, U = Figures(rq[r]), SnapsIn(k, U)', Plain(r)
    PROVE  Paid(r)'
  <1>1. /\ TypeOK /\ rq \in [Request -> RequestState] /\ rq[r] \in RequestState
        /\ UNCHANGED <<call, kept, inkSettled>> /\ rq'[r].key = k /\ rq[r].pc # "end"
        /\ ~Fault /\ RequestOK(rq[r])
    BY PlainEffect, PlainHold, NobodyThrew DEF IInv, RequestInv, RequestsOK
  <1>2. WasInkSettled(k)' <=> WasInkSettled(k)
    BY <1>1 DEF WasInkSettled
  <1>3. rq[r].answer = "none"
    BY <1>1 DEF Told
  <1>4. rq[r].pc # "done" => rq[r].debited = Unset
    BY <1>1 DEF Paid, PaidOK
  <1>5. /\ Figures(rq[r]) \subseteq FigureSet \cup {Unset} /\ rq[r].band \in FigureSet \cup {Unset}
        /\ FigureSet \subseteq Nat /\ Cost \in Nat /\ (\A f \in FigureSet : f <= Cost)
    BY FiguresIn
  <1>6. rq[r].pc \in Early => kept[k] = Zero /\ ~holds[k].deliver
    BY NoneYet
  \* Where a request comes to rest without having been told a debit.
  <1>7. ASSUME rq'[r].pc \in Resting \ {"done"}, rq'[r].answer # "done",
               rq[r].pc # "done", rq'[r].debited = rq[r].debited,
               holds'[k].open => holds[k].open /\ holds'[k].settleUnits = holds[k].settleUnits
        PROVE  Paid(r)'
    BY <1>1, <1>2, <1>4, <1>7, PaidAtRest
  <1>8. ASSUME NEW pc \in Resting \ {"done"}, Go(r, pc), rq[r].pc # "done",
               holds'[k].open => holds[k].open /\ holds'[k].settleUnits = holds[k].settleUnits
        PROVE  Paid(r)'
    BY <1>1, <1>3, <1>7, <1>8 DEF Go, RequestState
  <1>9. ASSUME NEW answer \in Answer \ {"done"}, Answered(r, answer), rq[r].pc # "done",
               holds'[k].open => holds[k].open /\ holds'[k].settleUnits = holds[k].settleUnits
        PROVE  Paid(r)'
    BY <1>1, <1>3, <1>7, <1>9 DEF Answered, RequestState, Resting
  \* Where it is done with a debit that is what was kept.
  <1>10. ASSUME NEW debited, rq' = [rq EXCEPT ![r].pc = "done", ![r].debited = debited],
                UNCHANGED holds, ~holds[k].open, kept[k] # Zero, Total(kept[k]) = debited
         PROVE  Paid(r)'
    <2>1. rq'[r].pc = "done" /\ rq'[r].debited = debited
      BY <1>1, <1>10 DEF RequestState
    <2> QED
      BY <1>1, <1>2, <1>10, <2>1, PaidAtRest DEF Resting
  <1>11. CASE TakeHold(r)
    <2>1. At(r, "hold") /\ ~holds[k].open
      BY <1>11 DEF TakeHold, At, KeyOK, Shut
    <2>2. CASE HoldInk(k, Cost) /\ Go(r, "run")
      <3>1. /\ rq'[r].pc = "run" /\ rq'[r].band = Unset /\ rq'[r].debited = Unset
            /\ rq'[r].answer = "none"
        BY <1>1, <1>3, <1>4, <2>1, <2>2 DEF Go, At, RequestState, Paid, BandOK
      <3>2. holds'[k].open => holds'[k].settleUnits = Unset
        BY <1>1, <1>11, <2>1, PlainHold DEF Leaves, GivesUp, Takes, SetsUnits, Plain,
           HoldsOrReleases, At
      <3>3. Figures(rq'[r]) = FigureSet \cup {Unset}
        BY <3>1 DEF Figures, Drafted
      <3> QED
        BY <1>1, <1>2, <1>5, <3>1, <3>2, <3>3, PaidDrafting DEF Drafted
    <2>3. CASE Answered(r, "refused") /\ UNCHANGED inkVars
      BY <1>9, <2>1, <2>3 DEF Answer, inkVars, At
    <2> QED
      BY <1>1, <1>11, <2>2, <2>3 DEF TakeHold, Maybe
  <1>12. CASE RunSucceeds(r)
    <2>1. /\ rq[r].pc = "run" /\ rq[r].band = Unset /\ UNCHANGED holds /\ kept[k] = Zero
          /\ rq[r].debited = Unset
          /\ holds[k].open => holds[k].settleUnits = Unset
      BY <1>4, <1>6, <1>12 DEF RunSucceeds, At, inkVars, Paid, BandOK, Early
    <2>2. ASSUME NEW b \in FigureSet, rq' = [rq EXCEPT ![r].pc = "deliver", ![r].band = b]
          PROVE  Paid(r)'
      <3>1. /\ rq'[r].pc = "deliver" /\ rq'[r].debited = Unset /\ rq'[r].answer = "none"
        BY <1>1, <1>3, <2>1, <2>2 DEF RequestState
      <3>2. Figures(rq'[r]) = FigureSet \cup {Unset}
        BY <3>1 DEF Figures, Drafted
      <3> QED
        BY <1>1, <1>2, <1>5, <2>1, <3>1, <3>2, PaidDrafting DEF Drafted
    <2>3. CASE Go(r, "save")
      <3>1. /\ rq'[r].pc = "save" /\ rq'[r].debited = Unset /\ rq'[r].answer = "none"
            /\ rq'[r].band = Unset
        BY <1>1, <1>3, <2>1, <2>3 DEF Go, RequestState
      <3>2. Figures(rq'[r]) = {Unset}
        BY <3>1 DEF Figures, Drafted
      <3>3. SnapsIn(k, {Unset})'
        BY <1>1, <2>1, NoneYet DEF SnapsIn, Holding, Early
      <3> QED
        BY <1>1, <1>2, <2>1, <3>1, <3>2, <3>3, PaidDrafting
    <2> QED
      BY <1>12, <2>2, <2>3 DEF RunSucceeds
  <1>13. CASE Deliver(r)
    <2> DEFINE b == rq[r].band
    <2>1. /\ rq[r].pc = "deliver" /\ kept[k] = Zero /\ b \in FigureSet /\ rq[r].debited = Unset
          /\ rq' = [rq EXCEPT ![r].pc = "save", ![r].stored = Stores(k)]
          /\ IF Stores(k) THEN SetHoldSettleUnits(k, b) ELSE UNCHANGED inkVars
      BY <1>1, <1>4, <1>6, <1>13 DEF Deliver, At, Maybe, RequestOK, Early
    <2>2. /\ rq'[r].pc = "save" /\ rq'[r].debited = Unset /\ rq'[r].answer = "none"
          /\ rq'[r].band = b /\ rq'[r].stored = Stores(k)
      BY <1>1, <1>3, <2>1 DEF RequestState
    <2>3. holds'[k].open => rq'[r].stored /\ holds'[k].settleUnits = b
      <3>1. CASE Stores(k)
        <4>1. holds[k].units = Cost /\ holds \in [Key -> Hold]
          BY <1>1, <3>1 DEF Stores, KeyOK, TypeOK
        <4>2. holds' = [holds EXCEPT ![k].settleUnits = Lesser(b, Cost)]
          BY <2>1, <3>1, <4>1 DEF SetHoldSettleUnits
        <4>3. holds'[k].settleUnits = Lesser(b, Cost)
          BY <4>1, <4>2 DEF Hold
        <4> QED
          BY <1>5, <2>1, <2>2, <3>1, <4>3 DEF Lesser
      <3>2. CASE ~Stores(k)
        BY <1>6, <2>1, <3>2 DEF Stores, Early, inkVars
      <3> QED
        BY <3>1, <3>2
    <2>4. Figures(rq'[r]) = {b}
      BY <2>2 DEF Figures, Drafted
    <2>5. PICK B : B = {b}
      OBVIOUS
    <2>6. SnapsIn(k, B)'
      BY <1>1, <2>1, NoneYet DEF SnapsIn, Holding, Early
    <2> QED
      BY <1>1, <1>2, <2>1, <2>2, <2>3, <2>4, <2>5, <2>6, PaidDrafting
  <1>14. CASE Save(r) \/ RecordCompleted(r) \/ Beat(r) \/ ClientGone(r)
    <2>1. /\ rq[r].pc \in {"run", "deliver", "save", "record", "finish"}
          /\ rq[r].debited = Unset
      BY <1>4, <1>14 DEF Save, RecordCompleted, Beat, ClientGone, Alive, At
    <2>2. Leaves(k)
      <3>1. CASE Save(r) \/ RecordCompleted(r) \/ ClientGone(r)
        BY <3>1 DEF Save, RecordCompleted, ClientGone, RecordGeneration, Maybe, inkVars, Leaves
      <3>2. CASE Beat(r)
        <4>1. holds \in [Key -> Hold] /\ ExtendInkHold(k)
          BY <1>1, <3>2 DEF Beat, TypeOK
        <4>2. ASSUME NEW e, holds' = [holds EXCEPT ![k].expiresAt = e, ![k].expired = FALSE]
              PROVE  Leaves(k)
          BY <4>1, <4>2 DEF Leaves, Hold
        <4> QED
          BY <4>1, <4>2 DEF ExtendInkHold
      <3> QED
        BY <1>14, <3>1, <3>2
    <2>3. /\ rq'[r].band = rq[r].band /\ rq'[r].stored = rq[r].stored
          /\ rq'[r].debited = Unset /\ rq'[r].answer = "none"
      BY <1>1, <1>3, <1>14, <2>1 DEF Save, RecordCompleted, Beat, ClientGone, Go, RequestState
    <2>4. \/ rq'[r].pc = rq[r].pc
          \/ /\ rq[r].pc \in {"save", "record"} /\ rq'[r].pc \in {"record", "finish"}
      BY <1>1, <1>14, <2>1 DEF Save, RecordCompleted, Beat, ClientGone, Go, At, RequestState
    <2>5. Figures(rq'[r]) = Figures(rq[r])
          /\ (rq'[r].pc \in Drafted <=> rq[r].pc \in Drafted)
      BY <2>3, <2>4 DEF Figures, Drafted
    <2>6. Figure(rq'[r]) = Figure(rq[r])
      BY <2>3 DEF Figure
    <2>7. /\ rq'[r].pc \in {"hold", "run", "deliver", "save", "record", "finish"}
          /\ rq'[r].pc \in {"hold", "run"} => rq'[r].band = Unset
      BY <2>1, <2>3, <2>4 DEF Paid, BandOK
    <2>8. holds'[k].open =>
             /\ holds'[k].settleUnits \in Figures(rq'[r])
             /\ rq'[r].pc \in {"hold", "run", "deliver"} => holds'[k].settleUnits = Unset
             /\ rq'[r].pc \in Drafted /\ rq'[r].band # Unset => rq'[r].stored
      BY <2>2, <2>3, <2>4, <2>5 DEF Paid, BandOK, HoldIn, Leaves
    <2>9. rq'[r].pc \in Drafted /\ kept[k] # Zero =>
             Total(kept[k]) = Figure(rq'[r]) /\ (rq'[r].band # Unset => rq'[r].stored)
      BY <2>3, <2>5, <2>6 DEF Paid, PaidOK
    <2> QED
      BY <1>1, <1>2, <2>3, <2>5, <2>7, <2>8, <2>9, PaidDrafting
  <1>15. CASE CourtUnavailable(r) \/ RunFails(r) \/ (Finish(r) /\ GivesBack(r))
    BY <1>8, <1>15 DEF CourtUnavailable, RunFails, Finish, At, inkVars, Resting
  <1>16. CASE GiveUp(r) \/ Undo(r) \/ GiveBack(r)
    <2>1. holds'[k].open => holds[k].open /\ holds'[k].settleUnits = holds[k].settleUnits
      BY <1>1, <1>16, PlainHold DEF Plain, HoldsOrReleases, Leaves, GivesUp, Takes, SetsUnits,
         GiveUp, Undo, GiveBack, At
    <2>2. CASE GiveUp(r)
      BY <1>8, <2>1, <2>2 DEF GiveUp, At, Resting
    <2>3. CASE Undo(r)
      BY <1>9, <2>1, <2>3 DEF Undo, At, Answer
    <2>4. CASE GiveBack(r)
      <3>1. /\ rq'[r].pc = "done" /\ rq'[r].answer = "none" /\ rq'[r].debited = Unset
            /\ ~(Delivered(r)')
        BY <1>1, <1>3, <1>4, <2>4 DEF GiveBack, Go, At, RequestState, Told, Delivered
      <3> QED
        BY <1>1, <1>2, <2>1, <3>1, PaidAtRest DEF Resting
    <2> QED
      BY <1>16, <2>2, <2>3, <2>4
  <1>17. CASE RecordFailed(r)
    BY <1>9, <1>17 DEF RecordFailed, RecordGeneration, Maybe, At, Answer, inkVars
  <1>18. CASE Settled(r)
    <2>1. At(r, "settle") /\ UNCHANGED holds /\ rq[r].debited = Unset /\ rq[r].pc \in InSettle
      BY <1>4, <1>18 DEF Settled, At, inkVars, InSettle
    <2>2. ASSUME Returned(r, "settled"),
                 rq' = [rq EXCEPT ![r].pc = "done", ![r].debited = call[r].units]
          PROVE  Paid(r)'
      <3>1. ~holds[k].open /\ Total(kept[k]) = call[r].units /\ kept[k] # Zero
        BY <2>1, <2>2 DEF Returned, SettleOK, Over, Pulled, Paid, PaidOK
      <3> QED
        BY <1>10, <2>1, <2>2, <3>1
    <2>3. ~Returned(r, "threw")
      BY <2>1 DEF Returned, FreeOK, Unthrown
    <2>4. CASE Go(r, "lost")
      <3>1. /\ rq'[r].pc = "lost" /\ rq'[r].band = rq[r].band /\ rq'[r].stored = rq[r].stored
            /\ rq'[r].debited = Unset /\ rq'[r].answer = "none"
        BY <1>1, <1>3, <2>1, <2>4 DEF Go, RequestState
      <3>2. Figures(rq'[r]) = FigureSet \cup {Unset} /\ Figure(rq'[r]) = Figure(rq[r])
        BY <3>1 DEF Figures, Figure, Drafted
      <3>3. BandOK(r)'
        BY <1>1, <1>5, <2>1, <3>1, <3>2 DEF Paid, BandOK, HoldIn, SnapsIn, Drafted
      <3>4. PaidOK(r)'
        BY <1>1, <1>2, <2>1, <3>1, <3>2 DEF Paid, PaidOK, At, Drafted, InSettle
      <3>5. RepayOK(r)'
        BY <3>1 DEF RepayOK
      <3> QED
        BY <3>3, <3>4, <3>5 DEF Paid
    <2> QED
      BY <1>18, <2>2, <2>3, <2>4 DEF Settled
  <1>19. CASE Lost(r)
    <2>1. At(r, "lost") /\ UNCHANGED holds /\ ~holds[k].open
      BY <1>19 DEF Lost, At, inkVars, KeyOK
    <2>2. ASSUME FoundSettled(r),
                 rq' = [rq EXCEPT ![r].pc = "done", ![r].debited = SweptDebit(r)]
          PROVE  Paid(r)'
      <3>1. kept[k] # Zero
        BY <2>2 DEF FoundSettled, Paid, PaidOK
      <3>2. Total(kept[k]) = SweptDebit(r)
        BY <2>1, <3>1 DEF At, Paid, PaidOK, Figure, SweptDebit
      <3> QED
        BY <1>10, <2>1, <2>2, <3>1, <3>2
    <2>3. CASE Go(r, "resweep")
      BY <1>8, <2>1, <2>3 DEF At, Resting
    <2> QED
      BY <1>1, <1>19, <2>2, <2>3 DEF Lost
  <1>20. CASE Rehold(r)
    <2>1. At(r, "rehold") /\ rq[r].debited = Unset
      BY <1>4, <1>20 DEF Rehold, At
    <2>2. ASSUME HoldInk(k, Cost), rq' = [rq EXCEPT ![r].pc = "repay", ![r].reheld = TRUE]
          PROVE  Paid(r)'
      <3>1. rq'[r].pc = "repay" /\ rq'[r].debited = Unset /\ rq'[r].answer = "none"
        BY <1>1, <1>3, <2>1, <2>2 DEF RequestState
      <3>2. /\ holds'[k].open /\ holds'[k].settleUnits = Unset
            /\ holds'[k].expiresAt = FreshExpiry(k)
        <4>1. holds \in [Key -> Hold]
          BY <1>1 DEF TypeOK
        <4>2. holds'[k] = NewHold(Cost, TakeSplit(ink, Cost), FreshExpiry(k))
          BY <2>2, <4>1 DEF HoldInk
        <4> QED
          BY <4>2 DEF NewHold
      <3>3. Figures(rq'[r]) = FigureSet \cup {Unset}
        BY <3>1 DEF Figures, Drafted
      <3>4. BandOK(r)'
        BY <1>1, <1>5, <3>1, <3>2, <3>3 DEF BandOK, HoldIn, SnapsIn, Drafted
      <3>5. PaidOK(r)'
        BY <1>1, <1>2, <3>1 DEF Paid, PaidOK, Drafted, InSettle
      <3>6. ASSUME NEW d \in Caller, call[d].step = "release", call[d].key = k
            PROVE  call[d].hold.expiresAt # holds'[k].expiresAt
        <4>1. call[d].hold.expiresAt <= stamp[k]
          BY <3>6 DEF SweepsOK, SeenOK, StillExpired
        <4>2. stamp[k] \in Nat /\ call[d].hold.expiresAt \in Nat
          BY <1>1 DEF TypeOK, Call, Snapshot
        <4> QED
          BY <3>2, <4>1, <4>2 DEF FreshExpiry
      <3>7. RepayOK(r)'
        BY <1>1, <3>2, <3>6 DEF RepayOK, Holding, Pinned
      <3> QED
        BY <3>4, <3>5, <3>7 DEF Paid
    <2>3. CASE Go(r, "classify") /\ UNCHANGED inkVars
      BY <1>8, <2>1, <2>3 DEF At, Resting, inkVars
    <2> QED
      BY <1>1, <1>20, <2>2, <2>3 DEF Rehold, Maybe
  <1>21. CASE Classify(r)
    <2>1. At(r, "classify") /\ ~holds[k].open /\ UNCHANGED holds
      BY <1>21 DEF Classify, At, KeyOK, Shut, inkVars
    <2> QED
      BY <1>1, <1>9, <1>21, <2>1 DEF Classify, Answer, At
  <1>22. CASE Resettled(r)
    <2>1. At(r, "resettle") /\ UNCHANGED holds /\ rq[r].debited = Unset /\ rq[r].pc \in InSettle
      BY <1>4, <1>22 DEF Resettled, At, inkVars, InSettle
    <2>2. ASSUME Returned(r, "settled"),
                 rq' = [rq EXCEPT ![r].pc = "done", ![r].debited = call[r].units]
          PROVE  Paid(r)'
      <3>1. ~holds[k].open /\ Total(kept[k]) = call[r].units /\ kept[k] # Zero
        BY <2>1, <2>2 DEF Returned, SettleOK, Over, Pulled, Paid, PaidOK
      <3> QED
        BY <1>10, <2>1, <2>2, <3>1
    <2>3. ~Returned(r, "threw")
      BY <2>1 DEF Returned, FreeOK, Unthrown
    <2>4. ASSUME Returned(r, "no_hold"), Go(r, "done")
          PROVE  Paid(r)'
      <3>1. rq'[r].pc = "done" /\ rq'[r].answer = "none" /\ rq'[r].debited = Unset
        BY <1>1, <1>3, <2>1, <2>4 DEF Go, RequestState
      <3>2. kept[k] # Zero
        BY <2>1, <2>4 DEF Returned, SettleOK, Over, Paid, RepayOK, At
      <3> QED
        BY <1>1, <1>2, <2>1, <3>1, <3>2, PaidAtRest DEF Resting
    <2> QED
      BY <1>22, <2>2, <2>3, <2>4 DEF Resettled
  <1>23. CASE SendDone(r)
    <2>1. /\ rq[r].pc = "done" /\ rq'[r].pc = "end" /\ UNCHANGED holds
          /\ rq'[r].debited = rq[r].debited /\ (Delivered(r)' <=> Delivered(r))
      BY <1>1, <1>23 DEF SendDone, Answered, At, RequestState, Delivered, inkVars
    <2> QED
      BY <1>1, <1>2, <2>1, PaidAtRest DEF Paid, PaidOK, Resting
  <1>24. CASE Walks(r)
    BY <1>12, <1>14, <1>15, <1>18, <1>19, <1>21, <1>22, <1>23, <1>24 DEF Walks
  <1>25. CASE HoldsOrReleases(r)
    BY <1>11, <1>16, <1>20, <1>25 DEF HoldsOrReleases
  <1> QED
    BY <1>13, <1>14, <1>17, <1>24, <1>25 DEF Plain, Notes

LEMMA PaidBegins ==
    ASSUME IInv, RequestInv, Unthrown, NEW r \in Request, NEW k \in Key, rq[r].key = k,
           Told(rq[r]), Paid(r), NEW U, U = Figures(rq[r]), SnapsIn(k, U)',
           \A d \in Caller : ~Holding(d, k, "release")' \/ rq[r].pc # "repay",
           Begins(r) \/ OwnSweep(r)
    PROVE  Paid(r)'
  <1>1. /\ TypeOK /\ rq \in [Request -> RequestState] /\ rq[r] \in RequestState
        /\ rq'[r].key = k
    BY BeginsEffect, OwnSweepEffect DEF IInv, RequestInv, RequestsOK
  <1>2. UNCHANGED <<holds, kept, inkSettled>>
    BY <1>1, BeginsEffect, OwnSweepEffect DEF SettleBegin
  <1>3. /\ rq'[r].band = rq[r].band /\ rq'[r].stored = rq[r].stored
        /\ rq'[r].debited = rq[r].debited /\ rq'[r].answer = rq[r].answer
    BY <1>1 DEF Begins, Finish, Repay, OwnSweep, Go, RequestState
  <1>4. WasInkSettled(k)' <=> WasInkSettled(k)
    BY <1>2 DEF WasInkSettled
  <1>5. \/ /\ rq[r].pc = "finish" /\ rq'[r].pc = "settle" /\ ~(Pulled(r)')
        \/ /\ rq[r].pc = "repay" /\ rq'[r].pc = "resettle" /\ ~(Pulled(r)')
        \/ rq[r].pc = "sweep" /\ rq'[r].pc = "hold"
        \/ rq[r].pc = "resweep" /\ rq'[r].pc = "rehold"
    <2>1. CASE Begins(r)
      <3>1. call'[r].step = "read"
        BY <1>1, <2>1, BeginsEffect
      <3> QED
        BY <1>1, <2>1, <3>1, BeginsEffect DEF Pulled
    <2> QED
      BY <1>1, <2>1, OwnSweepEffect
  <1>6. Figures(rq'[r]) = Figures(rq[r]) /\ Figure(rq'[r]) = Figure(rq[r])
    BY <1>3, <1>5 DEF Figures, Figure, Drafted
  <1>7. rq[r].answer # "done"
    BY <1>5 DEF Told
  <1>8. BandOK(r)'
    BY <1>1, <1>2, <1>3, <1>5, <1>6 DEF Paid, BandOK, HoldIn, SnapsIn, Drafted
  <1>9. PaidOK(r)'
    BY <1>1, <1>2, <1>3, <1>4, <1>5, <1>6, <1>7 DEF Paid, PaidOK, Drafted, InSettle
  <1>10. RepayOK(r)'
    BY <1>1, <1>2, <1>5 DEF Paid, RepayOK
  <1> QED
    BY <1>8, <1>9, <1>10 DEF Paid

\* A step of a call: the request stays where it is, its key steps.
LEMMA PaidCall ==
    ASSUME Priced, IInv, RequestInv, ChargeInv, LinkInv, SentOnce, NEW r \in Request,
           NEW k \in Key, rq[r].key = k, rq[r].pc # "idle", KeyOK(r), Told(rq[r]), Paid(r),
           NEW U, U = Figures(rq[r]), SnapsIn(k, U)',
           \A d \in Caller : ~Holding(d, k, "release")' \/ rq[r].pc \notin {"repay", "resettle"},
           NEW c \in Caller, CallOf(c, r)
    PROVE  Paid(r)'
  <1>1. /\ TypeOK /\ rq \in [Request -> RequestState] /\ r \in Caller /\ Linked(r)
        /\ KeyStep(c, k)
    BY CallOnKey, CallerAssumption DEF IInv, RequestInv, RequestsOK, LinkInv, CallOf
  <1>2. /\ rq'[r].pc = rq[r].pc /\ rq'[r].key = k /\ rq'[r].band = rq[r].band
        /\ rq'[r].answer = rq[r].answer /\ rq'[r].debited = rq[r].debited
        /\ (Delivered(r)' <=> Delivered(r))
    BY <1>1, CallEffect DEF CallOf, Delivered
  <1>3. rq[r].stored => rq'[r].stored
    <2>1. CASE c = r /\ MarkHold(r)
      BY <1>1, <2>1 DEF MarkHold, RequestState
    <2> QED
      BY <2>1 DEF CallOf, CallStep
  <1>4. Figures(rq'[r]) = Figures(rq[r]) /\ Figure(rq'[r]) = Figure(rq[r])
    BY <1>2 DEF Figures, Figure
  <1>5. rq[r].pc \in InSettle /\ Pulled(r)' => Pulled(r) \/ Pulls(r, k)
    <2> SUFFICES ASSUME rq[r].pc \in InSettle, Pulled(r)', ~Pulled(r)
                 PROVE  Pulls(r, k)
      OBVIOUS
    <2>1. CASE c # r /\ call'[r] = call[r]
      BY <2>1 DEF Pulled
    <2>2. CASE c = r /\ (CallStep(r) \/ MarkHold(r))
      <3>1. call[r].step = "pull" /\ holds[k].open /\ ~holds'[k].open
        BY <1>1, <2>2, PulledBy DEF MarkHold
      <3> QED
        BY <1>1, <2>2, <3>1 DEF KeyStep, Calm, Marks, Releases, Holding
    <2> QED
      BY <2>1, <2>2 DEF CallOf
  <1>6. CASE Calm(k)
    <2>1. BandOK(r)'
      BY <1>2, <1>3, <1>4, <1>6 DEF Paid, BandOK, HoldIn, SnapsIn, Calm
    <2>2. ~Pulls(r, k)
      BY <1>6 DEF Calm, Pulls, Holding, Pinned
    <2>3. PaidOK(r)'
      BY <1>2, <1>3, <1>4, <1>5, <1>6, <2>2 DEF Paid, PaidOK, Calm
    <2>4. RepayOK(r)'
      BY <1>2, <1>6 DEF Paid, RepayOK, Calm
    <2> QED
      BY <2>1, <2>3, <2>4 DEF Paid
  <1>7. CASE Marks(c, k)
    <2>1. holds[k].open /\ holds'[k].settleUnits \in Figures(rq[r]) /\ call[c].step = "mark"
          /\ call[c].key = k
      BY <1>7, MarkUnits DEF Marks, Holding, Pinned, Paid, BandOK
    <2>2. rq[r].pc \notin Early
      BY <2>1, NoneYet
    <2>3. BandOK(r)'
      BY <1>2, <1>3, <1>4, <2>1, <2>2 DEF Paid, BandOK, HoldIn, SnapsIn, Early
    <2>4. ~Pulls(r, k) /\ kept'[k] = kept[k] /\ (WasInkSettled(k)' => WasInkSettled(k))
      BY <1>7 DEF Marks, Pulls
    <2>5. PaidOK(r)'
      BY <1>2, <1>3, <1>4, <1>5, <2>1, <2>4 DEF Paid, PaidOK
    <2>6. RepayOK(r)'
      BY <1>2, <1>7 DEF Paid, RepayOK, Marks
    <2> QED
      BY <2>3, <2>5, <2>6 DEF Paid
  <1>8. CASE Pulls(c, k)
    <2>1. /\ holds[k].open /\ ~holds'[k].open /\ kept'[k] # Zero
          /\ rq[r].pc \in Drafted => Total(kept'[k]) = Figure(rq[r])
          /\ rq[r].pc # "lost"
      BY <1>8, PullUnits DEF Pulls, Holding, Pinned, Paid, BandOK, KeyOK
    <2>2. BandOK(r)'
      BY <1>2, <1>3, <1>4, <2>1 DEF Paid, BandOK, HoldIn, SnapsIn
    <2>3. PaidOK(r)'
      BY <1>2, <1>3, <1>4, <2>1 DEF Paid, PaidOK, BandOK
    <2>4. RepayOK(r)'
      BY <1>2, <2>1 DEF RepayOK, Holding, Pinned
    <2> QED
      BY <2>2, <2>3, <2>4 DEF Paid
  <1>9. CASE Releases(c, k)
    <2>1. /\ holds[k].open /\ ~holds'[k].open /\ kept'[k] = kept[k]
          /\ (WasInkSettled(k)' => WasInkSettled(k))
      BY <1>9 DEF Releases, Holding, Pinned
    <2>2. rq[r].pc \notin {"repay", "resettle"}
      BY <1>9 DEF Releases, Paid, RepayOK
    <2>3. BandOK(r)'
      BY <1>2, <1>3, <1>4, <2>1 DEF Paid, BandOK, HoldIn, SnapsIn
    <2>4. ~Pulls(r, k)
      <3>1. kept[k] = Zero
        BY <2>1 DEF KeyOK
      <3>2. CASE c = r
        BY <1>9, <3>2 DEF Pulls, Releases, Holding
      <3>3. CASE c # r /\ call[r].step = "pull" /\ Pulls(r, k)
        <4>1. kept'[k] # Zero
          BY <1>1, <3>3, PullUnits DEF Paid, BandOK
        <4> QED
          BY <2>1, <3>1, <4>1
      <3> QED
        BY <3>2, <3>3 DEF Pulls, Holding
    <2>5. PaidOK(r)'
      BY <1>2, <1>3, <1>4, <1>5, <2>1, <2>4 DEF Paid, PaidOK
    <2>6. RepayOK(r)'
      BY <1>2, <2>2 DEF RepayOK
    <2> QED
      BY <2>3, <2>5, <2>6 DEF Paid
  <1> QED
    BY <1>1, <1>6, <1>7, <1>8, <1>9 DEF KeyStep

LEMMA PaidBeside ==
    ASSUME NEW r \in Request, NEW k \in Key, rq[r].key = k, Paid(r),
           NEW U, U = Figures(rq[r]), SnapsIn(k, U)',
           \A d \in Caller : ~Holding(d, k, "release")' \/ rq[r].pc \notin {"repay", "resettle"},
           Beside(r)
    PROVE  Paid(r)'
  <1>1. rq'[r] = rq[r] /\ call'[r] = call[r] /\ Calm(k)
    BY DEF Beside
  <1>2. BandOK(r)'
    BY <1>1 DEF Paid, BandOK, HoldIn, SnapsIn, Calm, Figures
  <1>3. PaidOK(r)'
    BY <1>1 DEF Paid, PaidOK, Calm, Pulled, Delivered, Figure
  <1>4. RepayOK(r)'
    BY <1>1 DEF Paid, RepayOK, Calm
  <1> QED
    BY <1>2, <1>3, <1>4 DEF Paid

LEMMA PaidStep ==
    ASSUME Priced, IInv, RequestInv, RunsInv, ChargeInv, SweepsOK, LinkInv, SoleInv, FreeInv,
           PaidInv, SentOnce, SentOnce', Unthrown, [Next]_vars
    PROVE  PaidInv'
  <1>1. TypeOK /\ rq \in [Request -> RequestState]
    BY DEF IInv, RequestInv, RequestsOK
  <1>2. Older /\ \A d \in Caller : History(d)
    BY <1>1, OlderStep, StepHistory, StepIsInk
  <1> SUFFICES ASSUME NEW r \in Request
               PROVE  /\ rq'[r].pc = "idle" => rq'[r].band = Unset /\ rq'[r].debited = Unset
                      /\ rq'[r].pc # "idle" => Paid(r)'
    BY DEF PaidInv, Paid
  <1>3. CASE rq[r].pc = "idle"
    <2>1. rq[r].band = Unset /\ rq[r].debited = Unset /\ Told(rq[r])
      BY <1>3 DEF PaidInv, FreeInv
    <2>2. CASE rq'[r].pc = "idle"
      <3>1. ~Start(r)
        BY <1>1, <2>2 DEF Start, RequestState
      <3> QED
        BY <1>1, <1>3, <2>1, <2>2, <3>1, IdleSeen
    <2>3. CASE rq'[r].pc # "idle"
      <3>1. Start(r)
        BY <1>1, <1>3, <2>3, IdleSeen
      <3>2. /\ UNCHANGED inkVars /\ rq'[r].pc = "sweep" /\ rq'[r].key \in Key
            /\ rq'[r].band = Unset /\ rq'[r].debited = Unset
            /\ rq'[r].answer = rq[r].answer
            /\ \A q \in Request \ {r} : rq'[q] = rq[q]
        BY <1>1, <2>1, <3>1 DEF Start, RequestState
      <3>3. PICK k \in Key : rq'[r].key = k
        BY <3>2
      <3>4. \A q \in Request : rq[q].key # k
        <4>1. rq[r].key \notin Key
          BY <1>3, KeyAssumption DEF RequestInv, RequestOK
        <4> QED
          BY <3>2, <3>3, <4>1 DEF SentOnce, Twins
      <3>5. ~holds'[k].open /\ kept'[k] = Zero /\ ~(WasInkSettled(k)')
        BY <3>2, <3>4 DEF SoleInv, Untouched, WasInkSettled, inkVars
      <3>6. rq[r].answer = "none"
        BY <1>3, <2>1 DEF Told
      <3>7. BandOK(r)'
        BY <3>2, <3>3, <3>5 DEF BandOK, HoldIn, SnapsIn, Holding, Pinned, Drafted
      <3>8. PaidOK(r)'
        BY <3>2, <3>3, <3>5, <3>6 DEF PaidOK, Drafted, InSettle
      <3>9. RepayOK(r)'
        BY <3>2 DEF RepayOK
      <3> QED
        BY <3>2, <3>7, <3>8, <3>9 DEF Paid
    <2> QED
      BY <2>2, <2>3
  <1>4. CASE rq[r].pc # "idle"
    <2>1. /\ Paid(r) /\ KeyOK(r) /\ SettleOK(r) /\ FreeOK(r) /\ Told(rq[r])
          /\ rq[r].key \in Key
      BY <1>4 DEF PaidInv, Paid, SoleInv, FreeInv, RequestInv, RequestOK
    <2>2. PICK k \in Key : rq[r].key = k
      BY <2>1
    <2>3. PICK U : U = Figures(rq[r])
      OBVIOUS
    <2>4. SnapsIn(k, U)'
      BY <1>2, <2>1, <2>2, <2>3, SnapsStep DEF Paid, BandOK
    <2>5. rq[r].pc \in {"repay", "resettle"} =>
             \A d \in Caller : ~Holding(d, k, "release")'
      <3> SUFFICES ASSUME rq[r].pc \in {"repay", "resettle"}
                   PROVE  \A d \in Caller : ~Holding(d, k, "release")'
        OBVIOUS
      <3>1. Completed(k)
        <4>1. Rowed(rq[r], generation, faults) /\ ~rq[r].dup
          BY DEF RunsInv, RequestInv, RequestOK, Settling
        <4> QED
          BY <2>2, <4>1 DEF Rowed, Unthrown, Decided, Settling, Completed
      <3>2. \A d \in Caller : ~Holding(d, k, "release")
        BY <2>1, <2>2 DEF Paid, RepayOK
      <3> QED
        BY <1>2, <3>1, <3>2, NoRelease
    <2>6. rq'[r].pc # "idle"
      <3>1. CASE Own(r)
        BY <1>1, <3>1, PlainEffect, BeginsEffect, OwnSweepEffect DEF Own
      <3>2. ASSUME NEW c \in Caller, CallOf(c, r)
            PROVE  rq'[r].pc # "idle"
        BY <1>1, <1>4, <3>2, CallEffect DEF CallOf
      <3>3. CASE Beside(r)
        BY <1>4, <3>3 DEF Beside
      <3>4. CASE Crash
        BY <1>1, <1>4, <3>4 DEF Crash, RequestState
      <3> QED
        BY <1>4, <3>1, <3>2, <3>3, <3>4, StepSeen
    <2>7. CASE Plain(r)
      BY <2>1, <2>2, <2>3, <2>4, <2>6, <2>7, PaidPlain
    <2>8. CASE Begins(r) \/ OwnSweep(r)
      BY <2>1, <2>2, <2>3, <2>4, <2>5, <2>6, <2>8, PaidBegins
    <2>9. ASSUME NEW c \in Caller, CallOf(c, r)
          PROVE  Paid(r)'
      BY <1>4, <2>1, <2>2, <2>3, <2>4, <2>5, <2>9, PaidCall
    <2>10. CASE Beside(r)
      BY <2>1, <2>2, <2>3, <2>4, <2>5, <2>6, <2>10, PaidBeside
    <2>11. CASE Crash
      <3>1. /\ UNCHANGED <<holds, kept, inkSettled>>
            /\ rq'[r].key = k /\ rq'[r].pc = "end" /\ rq'[r].debited = rq[r].debited
            /\ rq'[r].answer = rq[r].answer /\ (Delivered(r)' <=> Delivered(r))
        BY <1>1, <1>4, <2>2, <2>11 DEF Crash, ProcessDies, Live, RequestState, Delivered
      <3>2. WasInkSettled(k)' => WasInkSettled(k)
        BY <3>1 DEF WasInkSettled
      <3> QED
        BY <2>1, <2>2, <2>3, <2>4, <3>1, <3>2, PaidAtRest DEF Paid, PaidOK, Resting
    <2> QED
      BY <1>1, <1>4, <2>6, <2>7, <2>8, <2>9, <2>10, <2>11, StepSeen DEF Own
  <1> QED
    BY <1>3, <1>4

LEMMA PaidInvariant ==
    ASSUME Priced
    PROVE  Spec /\ []SentOnce /\ []Remembered /\ [](faults = 0) => []PaidInv
  <1>1. Init => PaidInv
    BY DEF Init, NewRequest, PaidInv
  <1>2. IInv /\ RequestInv /\ RunsInv /\ ChargeInv /\ SweepsOK /\ LinkInv /\ SoleInv /\ FreeInv
           /\ PaidInv /\ SentOnce /\ SentOnce' /\ faults = 0 /\ (faults = 0)' /\ [Next]_vars
        => PaidInv'
    BY PaidStep DEF Unthrown
  <1> QED
    BY <1>1, <1>2, DraftInvariant, RunsInvariant, ChargeInvariant, SweepsInvariant, LinkInvariant,
       SoleInvariant, FreeInvariant, PTL DEF Spec

\* "no unpaid done", and no false one: while no call throws, a request that was
\* told done for a draft it delivered has paid for it, however often its hold was
\* lost, and the debit it was shown is what was kept, whoever settled: of an
\* attempt that was sent once, under the same limit of inkSettled.
THEOREM DonePaidFor ==
    ASSUME Priced
    PROVE  Spec /\ []SentOnce /\ []Remembered /\ [](faults = 0) => []DoneIsPaid
  <1>1. RequestInv /\ FreeInv /\ PaidInv => DoneIsPaid
    <2> SUFFICES ASSUME RequestInv, FreeInv, PaidInv, NEW r \in Request, rq[r].answer = "done"
                 PROVE  /\ Delivered(r) => kept[rq[r].key] # Zero
                        /\ rq[r].debited # Unset => Total(kept[rq[r].key]) = rq[r].debited
      BY DEF DoneIsPaid, PaidDone, DebitShown
    <2>1. rq[r].pc # "idle"
      BY DEF FreeInv, Told
    <2> QED
      BY <2>1 DEF PaidInv, PaidOK
  <1> QED
    BY <1>1, DraftInvariant, FreeInvariant, PaidInvariant, PTL
=============================================================================
