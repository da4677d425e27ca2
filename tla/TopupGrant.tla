----------------------------- MODULE TopupGrant -----------------------------
(***************************************************************************)
(* One paid top-up order, granted once: grantTopupInk of billing's         *)
(* ink-ledger.service.ts under Razorpay's webhooks.                        *)
(*                                                                         *)
(* order.paid, payment.captured and their retries are deliveries that run  *)
(* at the same time.  A delivery answered 500, or not at all, comes again; *)
(* a 200 ends it.  The claim is the order's ledger row: an attempt inserts *)
(* it, or takes over one that is pending for longer than CLAIM_STALE_MS,   *)
(* credits the user, and marks it granted.  Any database call may throw,   *)
(* its write landed or not; an attempt may be slower than CLAIM_STALE_MS;  *)
(* the process may die; the user may be erased.                            *)
(***************************************************************************)
EXTENDS Integers, FiniteSets

CONSTANTS
    Delivery,             \* the webhook deliveries of the order's events
    MarkGrantedAttempts,  \* MARK_GRANTED_ATTEMPTS
    MaxSlow,              \* bound: how often a live attempt's claim goes stale
    MaxFaults,            \* bound: how many database calls throw
    MaxDeaths             \* bound: how often the process dies

ASSUME DeliveryAssumption == IsFiniteSet(Delivery)
ASSUME AttemptsAssumption == MarkGrantedAttempts \in Nat \ {0}
ASSUME BoundAssumption == {MaxSlow, MaxFaults, MaxDeaths} \subseteq Nat

VARIABLES
    claim,     \* the ledger row: its state, claimToken, and age
    tokens,    \* how many claim tokens were written; the last one's number
    credited,  \* how often the order's units were added to inkTopup
    uses,      \* how often the order's coupon was counted
    user,      \* the user document exists
    reported,  \* a manual-grant report was sent for the order
    att,       \* the deliveries: the locals of their attempt in progress
    slow, faults, deaths

limits == <<slow, faults, deaths>>
vars == <<claim, tokens, credited, uses, user, reported, att, limits>>

\* "none": there is no row.  fresh: claimed no longer than CLAIM_STALE_MS ago.
Claim == [state : {"none", "pending", "granted"}, token : Nat, fresh : BOOLEAN]

NoClaim == [state |-> "none", token |-> 0, fresh |-> FALSE]

Pending(token) == [state |-> "pending", token |-> token, fresh |-> TRUE]

\* error: answered 500, or not at all.  ok: answered 200.
Pc == {"insert", "look", "reclaim", "credit", "rollback", "mark", "coupon", "error", "ok"}

\* token: the attempt's claimToken.  seen: the one of the row it read.
\* missing: the user was not found.  tries: calls of the mark that threw.
Attempt == [pc : Pc, token : Nat, seen : Nat, missing : BOOLEAN,
            tries : 0..(MarkGrantedAttempts - 1)]

Arrived == [pc |-> "insert", token |-> 0, seen |-> 0, missing |-> FALSE, tries |-> 0]

Init ==
    /\ claim = NoClaim /\ tokens = 0
    /\ credited = 0 /\ uses = 0
    /\ user = TRUE /\ reported = FALSE
    /\ att = [d \in Delivery |-> Arrived]
    /\ slow = 0 /\ faults = 0 /\ deaths = 0

-----------------------------------------------------------------------------
At(d, pc) == att[d].pc = pc
Go(d, pc) == att' = [att EXCEPT ![d].pc = pc]

NoFault == UNCHANGED limits
Fault == faults < MaxFaults /\ faults' = faults + 1 /\ UNCHANGED <<slow, deaths>>

Owns(d) == claim.token = att[d].token

\* The attempt that holds the claim and has not given it up.
Guards(d) == Owns(d) /\ att[d].pc \in {"credit", "mark"}

TakeClaim == claim' = Pending(tokens + 1) /\ tokens' = tokens + 1

\* The attempt's own token is now the claim's.
Claimed(d) ==
    TakeClaim /\ att' = [att EXCEPT ![d].pc = "credit", ![d].token = tokens + 1]

\* A claim that was written, or not, by a call that threw.
ClaimThrows(d) ==
    (TakeClaim \/ UNCHANGED <<claim, tokens>>) /\ Go(d, "error") /\ Fault

-----------------------------------------------------------------------------
(* The claim. *)

Insert(d) ==
    /\ At(d, "insert")
    /\ \/ claim.state = "none" /\ Claimed(d) /\ NoFault
       \/ claim.state # "none" /\ Go(d, "look") /\ NoFault /\ UNCHANGED <<claim, tokens>>
       \/ claim.state = "none" /\ ClaimThrows(d)
       \/ claim.state # "none" /\ Go(d, "error") /\ Fault /\ UNCHANGED <<claim, tokens>>
    /\ UNCHANGED <<credited, uses, user, reported>>

\* Mutant: a claim that is busy is answered 200.
BusyIsOk(d) == IF claim.state = "pending" THEN "ok" ELSE "error"

\* GrantClaimBusyError: the claim was rolled back, or another attempt has it.
Busy(d) == "error"

\* Mutants: a pending claim is taken over at once; or never.
TakenAtOnce(d) == TRUE
NeverTaken(d) == FALSE

\* Claimed longer than CLAIM_STALE_MS ago.
Stale(d) == ~claim.fresh

\* Granted by another delivery: nothing left to do.
Already(d) == "ok"

Look(d) ==
    /\ At(d, "look")
    /\ \/ claim.state = "granted" /\ Go(d, Already(d)) /\ NoFault
       \/ claim.state = "none" /\ Go(d, Busy(d)) /\ NoFault
       \/ claim.state = "pending" /\ ~Stale(d) /\ Go(d, Busy(d)) /\ NoFault
       \/ /\ claim.state = "pending" /\ Stale(d) /\ NoFault
          /\ att' = [att EXCEPT ![d].pc = "reclaim", ![d].seen = claim.token]
       \/ Go(d, "error") /\ Fault
    /\ UNCHANGED <<claim, tokens, credited, uses, user, reported>>

\* The row is the one that was read: its token and claimedAt are.
Matches(d) == claim.state = "pending" /\ claim.token = att[d].seen

Reclaim(d) ==
    /\ At(d, "reclaim")
    /\ \/ Matches(d) /\ Claimed(d) /\ NoFault
       \/ ~Matches(d) /\ Go(d, "error") /\ NoFault /\ UNCHANGED <<claim, tokens>>
       \/ Matches(d) /\ ClaimThrows(d)
       \/ ~Matches(d) /\ Go(d, "error") /\ Fault /\ UNCHANGED <<claim, tokens>>
    /\ UNCHANGED <<credited, uses, user, reported>>

-----------------------------------------------------------------------------
(* The grant. *)

Credit(d) ==
    /\ At(d, "credit")
    /\ \/ user /\ credited' = credited + 1 /\ Go(d, "mark") /\ NoFault
       \/ /\ ~user /\ NoFault /\ UNCHANGED credited
          /\ att' = [att EXCEPT ![d].pc = "rollback", ![d].missing = TRUE]
       \/ /\ credited' = credited \/ (user /\ credited' = credited + 1)
          /\ Go(d, "rollback") /\ Fault
    /\ UNCHANGED <<claim, tokens, uses, user, reported>>

\* rollbackClaim: only this attempt's pending claim.
Freed(d) == IF claim.state = "pending" /\ Owns(d) THEN NoClaim ELSE claim

\* An unknown user is reported, and answered 200.
Rollback(d) ==
    /\ At(d, "rollback")
    /\ \/ claim' = Freed(d) /\ reported' = (reported \/ att[d].missing) /\ NoFault
       \/ claim' \in {claim, Freed(d)} /\ reported' = TRUE /\ Fault
    /\ Go(d, IF att[d].missing THEN "ok" ELSE "error")
    /\ UNCHANGED <<tokens, credited, uses, user>>

\* Mutant: an attempt that lost its claim says nothing.
LostQuietly(d) == FALSE

\* The mark matched no row: the claim was taken over during the grant.
Superseded(d) == claim.state = "none" \/ ~Owns(d)

MarkedClaim(d) == IF claim.state # "none" /\ Owns(d)
                  THEN [claim EXCEPT !.state = "granted"] ELSE claim

LastTry(d) == att[d].tries + 1 >= MarkGrantedAttempts

\* retryOnThrow: the last throw is reported, and the grant stands.
Mark(d) ==
    /\ At(d, "mark")
    /\ \/ /\ claim' = MarkedClaim(d) /\ reported' = (reported \/ Superseded(d))
          /\ Go(d, "coupon") /\ NoFault
       \/ /\ claim' \in {claim, MarkedClaim(d)} /\ Fault
          /\ \/ LastTry(d) /\ Go(d, "coupon") /\ reported' = TRUE
             \/ /\ ~LastTry(d) /\ UNCHANGED reported
                /\ att' = [att EXCEPT ![d].tries = @ + 1]
    /\ UNCHANGED <<tokens, credited, uses, user>>

\* The order's coupon is counted behind the grant; a throw is caught.
CountCoupon(d) ==
    /\ At(d, "coupon")
    /\ \/ uses' = uses + 1 /\ NoFault
       \/ uses' \in {uses, uses + 1} /\ Fault
    /\ Go(d, "ok")
    /\ UNCHANGED <<claim, tokens, credited, user, reported>>

-----------------------------------------------------------------------------
(* The environment. *)

\* CLAIM_STALE_MS pass.  A live attempt is that slow at most MaxSlow times.
ClaimGoesStale ==
    /\ claim.state = "pending" /\ claim.fresh
    /\ claim' = [claim EXCEPT !.fresh = FALSE]
    /\ IF \E d \in Delivery : Guards(d)
       THEN slow < MaxSlow /\ slow' = slow + 1
       ELSE UNCHANGED slow
    /\ UNCHANGED <<tokens, credited, uses, user, reported, att, faults, deaths>>

Redeliver(d) ==
    /\ At(d, "error")
    /\ att' = [att EXCEPT ![d] = Arrived]
    /\ UNCHANGED <<claim, tokens, credited, uses, user, reported, limits>>

\* The attempts in progress are gone and never answer.
ProcessDies ==
    /\ deaths < MaxDeaths
    /\ deaths' = deaths + 1
    /\ att' = [d \in Delivery |-> IF At(d, "ok") THEN att[d]
                                  ELSE [att[d] EXCEPT !.pc = "error"]]
    /\ UNCHANGED <<claim, tokens, credited, uses, user, reported, slow, faults>>

UserErased ==
    /\ user /\ user' = FALSE
    /\ UNCHANGED <<claim, tokens, credited, uses, reported, att, limits>>

Handle(d) ==
    Insert(d) \/ Look(d) \/ Reclaim(d) \/ Credit(d) \/ Rollback(d) \/ Mark(d)
        \/ CountCoupon(d)

Next ==
    \/ \E d \in Delivery : Handle(d) \/ Redeliver(d)
    \/ ClaimGoesStale \/ ProcessDies \/ UserErased

Spec == Init /\ [][Next]_vars

\* Handlers run on, Razorpay sends again what was not answered 200, time passes.
Fairness ==
    /\ \A d \in Delivery : WF_vars(Handle(d)) /\ WF_vars(Redeliver(d))
    /\ WF_vars(ClaimGoesStale)

FairSpec == Spec /\ Fairness

-----------------------------------------------------------------------------
(* Properties. *)

TypeOK ==
    /\ claim \in Claim /\ tokens \in Nat
    /\ credited \in Nat /\ uses \in Nat
    /\ user \in BOOLEAN /\ reported \in BOOLEAN
    /\ att \in [Delivery -> Attempt]
    /\ slow \in 0..MaxSlow /\ faults \in 0..MaxFaults /\ deaths \in 0..MaxDeaths

\* "rather than a 200 that would end Razorpay's retries while the grant is
\* unsettled" (ink-ledger.service.ts:404-408): after a 200 the units are on the
\* balance, or a human was told.
OkMeansSettled ==
    \A d \in Delivery : At(d, "ok") => credited > 0 \/ reported

\* However many deliveries race, the order is credited once, and once more at
\* most for each attempt that outlived CLAIM_STALE_MS, each call that threw and
\* each process that died: the claim is never lost or shared for another reason.
CreditBound == credited <= 1 + slow + faults + deaths

\* "both may have granted. Needs a human check" (ink-ledger.service.ts:571-572):
\* while nothing throws or dies, an order that was credited twice was reported
\* once every attempt has marked its grant.
DoubleGrantReported ==
    (faults = 0 /\ deaths = 0 /\ credited > 1 /\ \A d \in Delivery : ~At(d, "mark"))
        => reported

\* "a retry or the sibling event never counts it twice" (subscription.service.ts
\* :2349-2350): the order's coupon is counted at most once for each grant.
CouponWithinGrants == uses <= credited

\* What is true of the claim, the balance and the coupon in every state, together:
\* a double grant is reported, and the coupon is never counted without a grant.
GrantsOK == TypeOK /\ CouponWithinGrants /\ DoubleGrantReported

\* A paid order is granted in the end, whatever throws or dies a bounded number
\* of times, unless its user is gone.
GrantArrives == <>(credited > 0 \/ ~user)
=============================================================================
