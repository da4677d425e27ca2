# Lawie in TLA+

Lawie (`src/`) drafts Indian legal documents and charges for them in *Ink*. It is
a set of Node services around MongoDB and Redis: `drafting` (generates documents
and charges for them), `billing` (Razorpay subscriptions, top-ups, refunds,
invoices), `auth` (accounts, sessions, erase), `email-worker`, `gateway` and the
`web` client. This directory holds TLA+ models of the parts where the hard
promises are about ordering, failure and money, TLC configurations that check
them, and TLAPS proofs of the promises that matter most.

`PROJECT.json` lists, for every definition, the source lines it models, and for
every hazard of the code the properties that cover it.

## 1. Inventory

| Part | State it keeps | Operations | What makes it correct | Here |
|---|---|---|---|---|
| Ink account (`drafting/services/credits.service.ts`) | `inkSub`, `inkAnnualCarry`, `inkTopup`, `inkHolds`, `inkSettled` of a user; `inkledger` rows | holdInk, extendInkHold, setHoldSettleUnits, settleInk, releaseInk, releaseExpiredHolds | no Ink made or lost; a hold closed once; the ledger matches what was kept | `InkHold` |
| Charge of a draft (`drafting/routes/documents.routes.ts`) | the request's locals, `Generation` rows | resolveRun, withInkHold (hold, heartbeat, delivered, finish, release, sendDone), recordGeneration | Ink is kept only for a delivered draft, and once; `done` shows what was kept; every hold closes, every request ends | `DraftCharge` |
| Revision of a document (same file) | document versions, run sequence | mode `revise`, document undo | as above, and the document is put back when the draft is withheld | not modelled |
| Ink grants (`billing/services/ink-ledger.service.ts`) | grant claims, buckets | grantSubscriptionInk, grantTopupInk, cancelSubscriptionInk, coupon use | a payment grants once | effect on the buckets in `InkHold`; a top-up's claim and coupon in `TopupGrant`; a cycle's grant in `SubscriptionCycle` |
| Refund debits (same file, `refund-ink.service.ts`) | `refund:<id>` claims, buckets | reverseInkForRefund, reverseRefundInk | parts of a refund take back the grant exactly; never more | `RefundReversal` |
| Yearly drip (`packages/shared/billing/yearly-drip.ts`) | `inkDripCount`, next drip date | settleYearlyDrip | each month granted once; an unpaid plan ends, a paid one stays | `SubscriptionCycle` |
| Subscriptions (`billing/services/subscription.service.ts`) | Subscription rows, cycle claims, checkout locks | webhook events, checkout, adoption, reconcile sweep | each paid cycle grants once; the row is stopped or ended only when Razorpay says so; no access without payment | events: `SubscriptionCycle`; checkout, adoption and reconcile not modelled |
| Invoices and credit notes (`billing/services/invoice.service.ts`) | InvoiceCounter, Invoice, RefundCap | record, issue, credit, sweep | numbers without gaps or repeats; credits never exceed the invoice; what is recorded is issued | `InvoiceSeries` implements `InvoiceBook` |
| Sessions (`auth/services/session.service.ts`) | Redis keys of a session family, Session rows | sign-in, rotate and replay (Lua), log-out, revoke one, all, others | one live token per family; a retry gets the same answer; what was revoked stays so | `SessionRotation` implements `SessionFamilies` |
| Document erase, review links (`drafting/services/document-erase.service.ts`, `routes/review.routes.ts`) | the delete marker with its links, and the rows that hang on a document | DELETE, erase steps, sweep, feedback post | what is deleted is gone with all that names it; shared facts stay with the documents kept | `DocumentErase` |
| Account erase (`account-erase.service.ts` of auth, drafting and billing) | the lock, stages, other services' data | lock, stages, remote calls, recheck, sweep | once locked it ends erased; nothing skipped, nothing unreachable | `AccountErase` |
| Unverified accounts (`auth/services/unverified-sweep.service.ts`, `verify-email.service.ts`) | User flags, verify codes | warn, delete, verify | nobody is deleted after verifying | the delete step and verify in `AccountErase` |
| One-time tokens (verify, reset, OAuth state) | Redis or Mongo tokens | issue, consume | a token works once | not modelled: each is consumed by one command |
| Drafting pipeline, intake, templates, exports, gateway, web, deployment | none that is shared, or the client's own | text generation, rendering, proxying | not about ordering or failure | not modelled |

How they interact. The web client calls the services through the gateway, may
send a request twice, retries with the run id it was given, and may leave at any
time. `drafting` and `billing` write the same user documents: each write is one
MongoDB command with a filter, and that filter is all the mutual exclusion there
is. Every service runs its sweeps on `setInterval` beside the request handlers.
Razorpay and BullMQ deliver again whatever was not acknowledged.

What is hard here: functions that await several database commands interleave
with themselves, with the sweep and with other services; a call that throws may
have been applied; a process may die between any two commands; time passes a
hold's `expiresAt` while its owner still runs; a second request may share the
first one's attempt.

## 2. The modules

    InkHold            one user's account: every write of credits.service.ts
      MCInkHold        its instances for TLC
    DraftCharge        EXTENDS InkHold: the requests that use the account
      MCDraftCharge    its instances for TLC
      DraftChargeProofs  theorems about the account, then about its requests
    TopupGrant         one paid order's grant (checked by itself)
      TopupGrantProofs
    RefundReversal     the refunds of one grant
      RefundReversalProofs
    SubscriptionCycle  a user's subscriptions, their cycles' grants and the drip
      SubscriptionCycleProofs
    InvoiceBook        what numbering promises
      InvoiceSeries    invoices and credit notes; implements InvoiceBook
      InvoiceSeriesProofs
    SessionFamilies    what sessions promise
      SessionRotation  a user's refresh tokens; implements SessionFamilies
      SessionRotationProofs
    DocumentErase      deletions of a user's documents
      DocumentEraseProofs
    AccountErase       closing one account, across auth, drafting and billing
      AccountEraseProofs

The modules from `RefundReversal` to `AccountErase` each have an `MC` module with their
instances for TLC. They and `TopupGrant` are apart from `InkHold`, which sees
billing's writes as `OtherWriter`, and from each other:
what one needs of another is an action of its environment.

`InkHold` is also the abstract specification: `InkNext` is the most general
client of the account (any caller, any operation, any key, any time), and
`DraftCharge` is shown to implement `InkSpec`, by TLC and by proof. What is
proved of the account for that client is therefore true under every handler,
present or future, that uses only those operations.

### InkHold

One user (users share no state). A key is an attempt, the pair
`(runId, runSequence)`.

| Model | Code |
|---|---|
| `ink` | the three balance buckets, in storage units (half Inks) |
| `holds[k]` | the `inkHolds` entry of the key; `expiresAt` is a number that is fresh at every write, `expired` says that time has passed it, `deliver` and `settleUnits` are the mark and the band |
| `inkSettled` | the keys of the settled holds, cut to the newest `SettledKeep` (`$slice: -50`) |
| `ledger`, `generation` | the `inkledger` rows and the `Generation` row of the key |
| `call[c]` | where a running `settleInk` or `releaseExpiredHolds` of caller `c` is, and what it read |
| `kept` | history, not in the code: what settles have kept of each key |

Each `findOne`, `findOneAndUpdate`, `updateOne` is one atomic action. `holdInk`,
`extendInkHold`, `setHoldSettleUnits` and `releaseInk` do one write that counts,
so each is one action. `settleInk` is four: `SettleRead` (1292-1313), `SettleMark`
(1315-1333), `SettlePull` (1339-1405), `SettleRows` (1407-1448); others act
between them. The sweep is a cursor that read its candidates once (`SweepRead`,
`todo`) and, for each, looks the Generation up (`SweepLook`), then settles,
or releases with the filter `expiresAt <= now, deliver != true` (`SweepRelease`),
or reads again (`SweepReread`). `SettleRowsFail` is a `bulkWrite` that wrote some
of the rows; `CallThrows` is a command that threw, landed or not; `ProcessDies`
forgets every call. The writes of other services are `OtherWriter`: a monthly grant
that *sets* `inkSub`, a top-up, a cancellation, a refund debit.

The release filter compares times. A hold's `expiresAt` that was rewritten after
the sweep's `now` was read lies after that `now`, so the filter is equivalent to
"the hold still has the `expiresAt` the sweep saw", which is how `Releasable`
says it.

### DraftCharge

A request walks through the program points `Pc`: `sweep` (holdInk's own sweep of
this user), `hold`, `run` (the model calls; heartbeats run), then either
`giveup`, `failed`, or `deliver` (store the band), `save`, `record`, `finish`,
and from there `giveback` or `settle`, with the path of a lost hold (`lost`,
`resweep`, `rehold`, `classify`, `repay`, `resettle`, `undo`), and `done`.
`rq[r]` has the locals that outlive an await (`saved`, `dup`, `gone`, `present`,
`stored`, `band`, `reheld`), the answer, and `debited`, the figure `done` shows.
A refused attempt (402, 409) ends at `TakeHold`. Every database call may throw
(`Maybe`: whether or not its write landed), up to `MaxFaults` times. The two
generate routes take the same path; they differ in where the band comes from
(`RunSucceeds` has a band, or none).

Left out: fixture users (they have no holds), what is written besides the charge
(the document's text), display reads of the balance, a throw of `resolveRun`
(it comes before `withInkHold`), and the `revise` mode.

### TopupGrant

One paid order. A *delivery* is one of its webhook events (`order.paid`,
`payment.captured`) with all its retries; deliveries run at the same time. A
Razorpay timeout that sends an event again while its first attempt still runs is
one more delivery.

| Model | Code |
|---|---|
| `claim` | the ledger row `topup:<order id>`: absent, `pending` or `granted`, its `claimToken`, and `fresh` while `claimedAt` is no older than `CLAIM_STALE_MS` |
| `tokens` | a `randomUUID` never repeats: tokens are numbered |
| `credited`, `uses` | how often the `$inc` of `inkTopup`, and of the coupon's `uses`, landed |
| `reported` | `reportManualGrant` was called |
| `att[d]` | the locals of the attempt in progress: where it is, its token, the token it read, whether the user was missing, how often its mark threw |

Each database command of `grantTopupInk` is an action: `Insert`, `Look`,
`Reclaim` (compare-and-set on the token that was read), `Credit`, `Rollback`,
`Mark` (with `retryOnThrow`), then `CountCoupon` of `handleWebhookEvent`. Each may
throw, landed or not. A throw is answered 500 (`error`) and Razorpay sends the
event again; `ok` is a 200. `ClaimGoesStale`, `ProcessDies` and `UserErased` are
the environment's. Left out: rows of an older format, which only end an attempt
early, an order without an id or a user id that is not one, which are refused
before the claim, and the payment-history row, which is behind the grant and
never throws.

### RefundReversal

The refunds of one grant. Razorpay delivers `refund.processed` until it is answered
200; an attempt (`att[w]`) is one handling of it, through `reverseInkForRefund`
(`ReadPrior`, `ReadRemaining`) into `reverseRefundInk` (`Insert` ... `Mark`).

| Model | Code |
|---|---|
| `claim[r]` | the ledger row `refund:<id>`: its state, `metadata.dueUnits`, and `fresh` while no older than `CLAIM_STALE_MS`; `capped` is history: its due was compared with the other claims |
| `ink`, `user` | the buckets in the order they are taken from; the user document exists |
| `bill[r]` | the payment and the amount a refund is of; two payment rows may name one grant |
| `debits`, `taken`, `unsure`, `overlap` | history: what landed, what threw although it landed, whether attempts overlapped |

A claim that throws at its insert belongs to nobody; a stale one is not taken over,
as a top-up's is, but answered 200 and logged (line 990). Left out: the rows of the
older format and the lookup of the grant by its payment. There are finitely many
refunds (`RefundAssumption`), any number of attempts.

### SubscriptionCycle

A user's subscriptions. *Stories* are what Razorpay and the user do, in order
(subscribe, charge, halt, pause, resume, cancel, complete, expire, a month passes);
everything else interleaves freely: deliveries in any order, again after a 500 and
after a 200 that was lost, balance reads, throws, deaths.

| Model | Code |
|---|---|
| `rz[s]` | Razorpay's subscription: when it started, cycles charged, the last stop |
| `sub[s]` | the Subscription row: `status`, the cycle last granted (`lastGrantedPaidCount`), `paidThrough` and the drip fields in months, the claim with its token |
| `user` | plan, and whether it has subscription Ink |
| `del[w]`, `read[r]` | a webhook's handling, and a `settleYearlyDrip` run by a balance read |
| `grants`, `lost`, `reports`, `doubt`, `retaken`, `undone` | history: what was granted, lost by a read, reported, granted although it threw, taken over; the cycles whose claim was undone when the cycle before was over already |
| `raced`, `dropped`, `stranded` | history of cycles: granted while a finding that nothing is paid for was on its way to the plan; answered for by a delivery though no claim stood; their claim undone when another delivery had answered for them |

`applySubscriptionEvent` is one action for an event whose handling is one filtered
update (`ApplyStatus`), four for `expired` and `ClaimCycle`, `Grant`, `Mark`,
`Rollback` for a charge, whose filter is the count and the token (`HoldsCycle`).
`settleYearlyDrip` is `ReadPlan`, `TakeDrip`, `SetDrip`,
and for an ended plan `ReadEnded`, `ReadCurrent`, `TakePlan`. Not modelled: events
without a paid count, `updated` and `pending`, `currentPeriodEnd` where
`paidThrough` was never written, payment rows, `stampLostClaimGrant`, plans from
before SKUs, checkout's lock, adoption and the reconcile sweep. Deliveries of one event may
overlap each other, and reads overlap both. One thing is kept out by a guard: a month
passing while something runs (`Tick`; section 5 says what it would show).

### InvoiceSeries and InvoiceBook

`InvoiceBook` is what numbering promises: entries numbered 1, 2, 3 ... in each year
and series, one for each row, credit after invoice. `InvoiceSeries` is the code: rows
recorded by upsert, `RefundCap` seeded and counted, a number taken from the counter
by `findOneAndUpdate` with the row it is for (`pending`), written on the row by
`finalizeAllocation`, the series freed or the number given back; whoever finds a
series waiting for another row finishes that one first (`helping`). `Drop` is the
row of a payment before `GST_EFFECTIVE_FROM`. `lost` is history: the numbers that an
attempt freed while it finished *another* number of the same row; the book has the
same set, as numbers that were given to nobody when their turn came. Not modelled: the
mail of an invoice and its marker, alerts of rows that wait too long, PDF, export,
backfill, the number's text. So the branch for a number that is too long
(invoice.service.ts:438, 497) is left out: prefix, year and four digits are 16
characters, as many as are allowed, and no series gets to 10 000; only
t436-numbering.test.ts:361, which mocks the counter, gets there. `Of`, the amounts, the
first states and the bounds that go with each (`busy`, `mishaps`, `lastYear`) are
`Starts`; credit notes from before the cap (`legacy`) stay within their invoices
(`LegacyAssumption`). A credit note
recorded before its invoice is dropped waits for ever; `AllSettles` says so.

### SessionRotation and SessionFamilies

`SessionFamilies` is what sessions promise: a token is exchanged once, for one
successor that all its presenters are told, and a family that ended never comes back.
`SessionRotation` is the code: `refresh[t]` is the record under
`session:refresh:<uid>:<hash>` (live, or grace with its successor), `access` the
access keys, `rows` the Session rows, and `call[c]` the locals of a call. Each Lua
script is one step; so is a SCAN with its MGET and the walk of `collectFamily`, whose
result (`Reach`) is the least set closed under the links it follows (`Closed`).
`Present` ... `WriteRow` is a refresh, `LoseRotation` and `Replay` the path of a token
already rotated; `Find`, `Walk`, `Scan`, `Del`, `DeleteRows` is `deleteSession`, with
`RevokeListed`, `RevokeAll` and `RevokeOthers` before it. `root`, `succ`, `given`,
`revoked` and `cut` are history; a family is `cut` when the DEL of a removal of all
took one of its records and left it alive (section 5). `Orphan(c)` is a caller whose
access key names a record that is gone, so that its walk finds nothing. `PromptRemovals` keeps a grace
record from expiring while a removal runs: the grace lasts 30 s, a removal
milliseconds. Left out: the undo of `acceptPrivacy`, display fields, the access
token's check.

### DocumentErase

The documents of a user. `status[d]` is the row (`marked` is `isDeleted` with the
delete marker), `saved[d]` the links kept on the marker, `linked`, `ledger`, `aux`,
`diffs`, `tokens` and `feedback` the rows that hang on documents and intakes, and
`run[h]` a run of `eraseDocument` by a request or the sweep. Each numbered step of
the service is an action (`SaveLinks`, `Erasable`, `EraseTokens` ... `EraseRow`);
`Fail` is a step that throws, or a death in it. `saveLinks` and `erasableLinks`
read several collections; each is one step here. The v3 ledgers and the auxiliary
calls are erased by the same links, one step. A ledger is named by its intake. A
drafted document (`Draft`, one step) brings its intake's rows with it. A review post is
three steps: it reads the document (`BeginPost`), stores the feedback
(`StoreFeedback`), and writes the event that names the document (`EndPost`). Erases,
drafts and posts of one intake interleave freely, as nothing in the service serialises
them. What comes of that is in the history: `late` (rows a post wrote after their step
of the erase), `left` (an erase found the facts shared and left them for the other
document), `behind` (a document drafted after an erase had found nobody to leave them
for, and whether they were taken from it).

### AccountErase

One account. `user.stage` is the erasure marker's stage (0: none), `runner[r]` a run
of `closeAccount`, of the unverified sweep or of the erase sweep, and `call[c]` a run
of drafting's `eraseAccount`, which goes on when auth gives up after fifteen
seconds; its `by` is the run that still waits for it. Drafting's erase is step by
step where the order matters (rows found through other rows), billing's, auth's
data and the audit log are one step each. `rows` are those held by user id, by
kind; a request in flight at the lock may still write one (`LateWrite`), late if
the last stage that erases its kind is done. Review posts are public and come at any
time, also while drafting erases: `BeginPost` reads, `EndOwnPost` stores feedback on
the user's document, `EndGuestPost` the user's answer on somebody else's, which stays
with a placeholder for the name. A row they store behind the erase is `late`
(`BehindOwn`, `BehindGuest`). The event is written with the feedback here; it is a step
of its own in `DocumentErase`. Left out: re-authentication, the dry
run, counts, the warning's dates and mail.

## 3. The runs

| Run | Instance | Properties |
|---|---|---|
| `ink_race` | `InkHold`: 2 callers on 1 key, with room for two holds, beside grants, cancellations, refund debits and crashes | `HoldsOK`, `LedgerWithinKept`, `Conserve`, `SweepReleasesOnlyExpired` |
| `charge_main` | 2 requests, 2 runs, a heartbeat, an expiry, clients leave | `RequestsOK`, `NoChargeUnlessDone`, `DoneIsPaid` |
| `charge_faults` | 2 requests, 1 run, 2 faults, an expiry | `ChargeRule`, the refinement `InkSpec`, `EveryRequestEnds` |
| `charge_sweep` | 2 requests, 1 fault, a crash, 4 expiries | `SingleCharge`, `OneDraftPerRun`, `HoldsClose` |
| `topup_grant` | 2 deliveries and their retries, 2 slow attempts, 2 faults, a death | `GrantsOK`, `OkMeansSettled`, `CreditBound`, `GrantArrives` |
| `refund_reversal` | 2 attempts, 2 refunds in four splits, 1 mishap | `ReversalOK`, `ExactInTheEnd`, `EveryRefundAnswered` |
| `subscription_cycle` | 9 stories of up to 3 subscriptions, 2 at work at a time (also on one event), 1 mishap | `GrantsOK`, `MonthsAccounted`, `PaidPlanStays`, `StopsAreTrue`, `Settles` |
| `plan_taken` (violation) | one of the stories, no mishap | `PaidKeepsPlan` |
| `invoice_series` | 1 payment, 2 refunds, 5 first states; 2 of two webhooks and the sweep at work and 1 mishap, from one of the states all 3 at work and none | `CreditOK`, `NoGap`, the refinement `KeepsTheBook`, `AllSettles` |
| `session_rotation` | 2 calls, 2 sign-ins, 1 removal, 3 refresh and 4 access tokens, 1 mishap | `FamiliesOK`, `RevokedStaysRevoked`, `KeepsTheCaller`, the refinement `KeepsThePromise` |
| `document_erase` | 2 documents of 1 intake, a request and the sweep, 1 failure, a post, a document drafted between | `EraseOK`, `FactsOK`, `DeletionFinishes` |
| `account_erase` | a close request, the unverified sweep, the erase sweep, 2 calls of drafting, 1 fault, 1 late request or review post | `StagesOK`, `FinishedMeansErased`, `LockOK`, `EraseFinishes` |

A property that ends in `OK` is the module's type invariant with the parts that are
true in every state and belong together; `Settles`, `StopsAreTrue` and `LockOK` join
two temporal properties each. Section 4 names the parts.

Bounds. `MaxStamp` (how many `expiresAt` values a key may get) cuts nothing off
in `DraftCharge`: `StampAssumption` says it allows two holds and every heartbeat
of every request. `MaxSeq` is 2: a first attempt and a retry. `MaxExpiries`,
`MaxFaults`, `MaxCrashes` and `MaxBeats` bound the environment. `SettledKeep` is
2, as many as the runs settle, standing for 50 keys of one user; with fewer than
the keys settled during one run `wasInkSettled` would forget, and the code would
charge again (a hazard in `PROJECT.json`). The price is 2 units and the band 1:
one unit from each of two buckets, so that returning Ink to the wrong bucket
shows. One key is enough in `ink_race`: the operations of a key touch other keys
only through the balance, the proofs cover any number of keys, and the charge
runs have two to four of them. Deadlock is not checked in any run: a system where
every request was answered, every event acknowledged and every erase finished has
nothing left to do.

In `topup_grant`, `MaxSlow`, `MaxFaults` and `MaxDeaths` are large enough for a
claim to be taken over twice and for the credit to throw in either attempt;
`MarkGrantedAttempts` is 2 for the code's 3, so that two faults exhaust it. Three
deliveries add no new pair of claim holders, and the proofs cover any number.
Every order may end answered 200, so deadlock is not checked there either.

Two requests share an attempt only when a third has failed one before (a run id
without rows starts a new run). The charge runs have two requests, so no attempt is sent
twice there. The theorems cover that case for `ChargeRule` and `OneDraftPerRun`
(`ChargeRuleHolds`, `OneDraftCharged`); what it does to the others is in section 5.

Two at work at the same time (`MaxBusy`, `Worker`, `Client`, `MaxRuns`) is where the
races of the other modules are: each compare-and-set has one party that reads and one
that writes between. Numbering needs three for a number to be lost, so one start of
`invoice_series` has three. The other cases that need more are in section 5.
`MaxMishaps`, `MaxFaults` and `MaxFails` are shared between throws, deaths, repeats and
expiries: one of them anywhere, and every run of the sweep after it goes on. In
`session_rotation` three refresh tokens are two families and a rotation, or one family
rotated twice while a removal runs; four find nothing more. `YearLen` is 3 and
`MaxCharges` 2: a year's first month and two drips, a renewal, and a read that settles
two months at once. The stories are sequences so that the histories are the ones
Razorpay produces; each was chosen for a rule of `applySubscriptionEvent` (renewal of
a yearly plan, a halt delivered after the charge that ended it, pause and resume,
completion, an ended plan replaced by another, a charge that arrives after its
subscription was written expired, two paid for at once, a yearly renewal charged a
month late). `invoice_series` has two years, so that the end of a year falls between
any two steps, and a `MaxSeq` of 2, so that credit notes can fill their series. In
`account_erase` late requests and review posts are those of verified users
(`PostsToVerified`), at most one (`MaxLate`). A subscription is charged at most once a
month in every story.

Fairness. `SweepSpec` has weak fairness of the timer's sweep, of its steps and
of time passing each `expiresAt`: `setInterval` in `startHoldSweep` and the clock.
It has none for the requests, so `HoldsClose` relies on no request doing
anything. `RequestSpec` has weak fairness of a request's own steps: in a live
Node process an await of a database command returns or throws; model calls have
timeouts. Neither has fairness for clients, heartbeats or faults. The expiries
of `charge_sweep` are bounded by 4, at least the number of holds that its two
requests can open, so fairness of `HoldExpires` is never stopped by the bound.

`TopupGrant`'s `FairSpec` has weak fairness of an attempt's steps, of Razorpay's
redelivery of what was not answered 200, and of time making a pending claim stale.
Razorpay stops after a day; faults and deaths here are few enough to come before
that. Without redelivery, or if a pending claim could not be taken over,
`GrantArrives` fails.

The other modules: weak fairness of every step of an attempt, handler, runner or
call (an await returns or throws), of redelivery by Razorpay per event, and of time
making a pending claim stale. Strong fairness where something else may come in
between for ever: the invoice sweep of each row it found, and the erase sweep of
each marked document (both go over all that they found, however often a request is
in the way), and the delivery of an event in `SubscriptionCycle`, because the places
at work are few here (`MaxBusy`) and others may take them again and again. None of requests, clients, posts, faults.

## 4. The properties

Account (`InkHold`):

- `Conserve` is the central one: in every step, per bucket, balance + the hold's
  split + what settles kept of the key is constant, but for the writes of other
  services. It fails if any two of settle, release, sweep and re-hold can both
  act on one hold.
- `HoldsOK`: the types, that a hold's split is its units (`HoldShape`), and
  `PinnedSplit`: what `settleInk` read before two awaits is still the split of
  the hold it pulls, or its filter does not match. It rests on `expiresAt` never
  repeating for a key.
- `LedgerWithinKept`, `SweepReleasesOnlyExpired`.

Charge (`DraftCharge`): `ChargeRule`, `NoChargeUnlessDone`, `SingleCharge`,
`OneDraftPerRun` (of a run at most one attempt is charged, unless an earlier one was
sent twice and a call threw), `DoneIsPaid` (`done` is paid for, and shows the debit),
`HoldsClose`, `EveryRequestEnds`, and `InkSpec` as a refinement. Some hold under a
condition, stated in the property or by the bounds of the runs that check it, and each
condition is needed:

- `NoChargeUnlessDone` needs that no database call throws: a retried settle may
  throw after it landed, and the draft is then withheld though it was paid. The
  code cannot know. Two expiries with a double-sent retry break it too (section 5).
- `DoneIsPaid` needs at most one expiry: a second stall can lose the re-taken hold
  as well (`rehold_no_hold`, logged). It also needs that no double-sent twin
  releases the re-taken hold (section 5).
- `SingleCharge` is checked with two requests beside expiries, a fault and a crash.
  With three and an expiry it fails (section 5).

`ChargeRule` has no such condition. It is proved, and so is `OneDraftPerRun` with its
exception, which section 5 shows to be needed. The three above are proved for attempts
sent once, with no bound on requests, expiries or crashes (section 6): the bounds of their
runs matter for twins only.

Grant (`TopupGrant`): `CreditBound` is the claim protocol's promise with its
exceptions counted: once, and once more for each attempt that outlived
`CLAIM_STALE_MS`, each call that threw, each death. One credit more than that
would be a claim lost or shared without a cause. The comment at
ink-ledger.service.ts:423-425 ("Razorpay's retry grants once") holds unless the
`$inc` landed and threw; `CreditBound` counts that as the throw it is.
`OkMeansSettled` says that a 200, which ends the retries, never leaves an order
that was neither credited nor reported; `GrantsOK` that two attempts that both
credited are not both silent (`DoubleGrantReported`) and that the coupon stays
within the grants (`CouponWithinGrants`); `GrantArrives`.

Refund (`RefundReversal`): `ReversalOK` holds that the dues of claims that were
compared never exceed the grant and, unless a debit threw after it landed, that no
refund debits twice and all of them take no more than was granted.
`ExactInTheEnd`: refunds in sequence that add up to the payment are due exactly the
grant, whatever each rounded. `EveryRefundAnswered`.

Subscription (`SubscriptionCycle`): `GrantsOK` (`OncePerMonth`: a second grant only
for a claim that was taken over or whose grant threw after it landed;
`DoubleReported`), `MonthsAccounted` (no drip is counted in a cycle that was not
granted to it); both except the drips of a subscription charged a month late whose
claim was undone (section 5), `StopsAreTrue` (a subscription is stopped only by
a stop after its last granted charge, and an end is for good), `Settles` (every
charge is granted or reported, but for those `dropped`; a user with nothing paid for ends
on the free plan). `PaidPlanStays`: whoever was charged and granted a cycle has the plan
to its end, whatever other subscriptions ended and whatever events came late. It names
what is excepted (section 5): a cycle that `raced`, which the run reaches, and one that was
`dropped` or `stranded` although its grant landed. Those two cost the plan only when an
earlier charge of the subscription is still to be delivered, which the run's stories do not
have and the theorem allows. `PaidKeepsPlan` is the same without exceptions, which is
what the comment says; `plan_taken` refutes it.

Invoice (`InvoiceSeries`): `NoGap` and `KeepsTheBook` about numbers, but for those
`lost` (with two at work none is, and one start has three), `CreditOK` about
the cap (each refund counted once, notes within the invoice), `AllSettles`.

Session (`SessionRotation`): `FamiliesOK` (one live token in a family; a presenter is
told one successor), `RevokedStaysRevoked`, which says of rotations and replays in
flight that what they issue does not outlive a removal (but for families `cut`),
`KeepsTheCaller` (signing out the others deletes no record of the caller's family,
unless the caller is an `Orphan`), `KeepsThePromise`.

Document erase: `EraseOK` (`NothingLeft`, but for the rows of a late post;
`DoneMeansGone`), `FactsOK` (`LiveKeepsFacts`: a live document keeps its facts unless it
was drafted behind an erase; `LastTakesIt`: the last document takes them, unless two
erases left them to each other or one was drafted behind), `DeletionFinishes`. Account
erase: `StagesOK` (`StageHonest`: a stage is written only when some run did its work;
`Reachable`: a row found only through another is never left without it),
`FinishedMeansErased`, both but for the rows of a late post, `LockOK` (`VerifiedIsKept`,
`StaysLocked`), `EraseFinishes`.

## 5. Where the code and its comments disagree

One disagreement is a run, `plan_taken`: `settleYearlyDrip` looks for an ended
subscription, then for one still paid, then takes the plan with a filter on the
user alone (yearly-drip.ts:236). A charge claimed and granted between the second
and the third loses its plan and its Ink, though line 220 says "keep the plan if
another sub still runs". `subscription.expired` has the same gap
(subscription.service.ts:2918, 2924).

These are the others. In each of a draft's no Ink is made or lost, and nobody is
charged for an attempt that was not delivered. The properties that they touch name them
as exceptions where the third column says so; the safety properties among them are proved
with everything else allowed. "Run" says that the passing run reaches the case; the rest
were seen with larger instances of the same modules.

| Where | What happens | Excepted in | What the code says |
|---|---|---|---|
| credits.service.ts:1521 | A sweep saw an expired hold; its request settled it; a twin took the key again; the sweep, acting by key, settles the twin's live hold: paid twice. Three requests and one expiry. |  | "never charge twice" (documents.routes.ts:501-502) |
| documents.routes.ts:756 | Of two double-sent retries one fails and records it; the other's *completed* row is refused by the same index, so it releases its hold and sends `done`. Nobody paid. |  | "the winning request already accounts for this attempt" (310-311) |
| documents.routes.ts:1395 | Of two double-sent retries one fails and records it; the other's completed row is not written because the call throws; that is logged, and its draft is charged. The next retry takes the next number and is charged as well. Four requests and one fault. | `OneDraftPerRun` | "never charge twice" (501-502) |
| documents.routes.ts:848 | A request whose hold was swept is told that its twin holds the attempt, and settles that; the twin fails and releases it first. `done` goes out unpaid. |  | "no unpaid `done`... the rule holds on all three" (506-510) |
| credits.service.ts:1308 | A sweep's settle reads the hold before the request's mark stores the band, and pulls it after: the full price is kept, `done` shows the band. The two are apart by an expiry, and the delivery's mark was not stored or a twin completed the row. |  | "from then on a sweep keeps that figure" (1284-1286) |
| documents.routes.ts:779 | The document is not saved, the settle throws before its mark, `done` is sent; the sweep finds no completed row and gives the Ink back. |  | "so nothing is free" (502-504) |
| invoice.service.ts:480 | The series is freed by row and not by number. A helper that finished a number of a row, while that row was given another by a third, frees a number still pending. It takes three at work and two numbers of one row. | `NoGap`, `KeepsTheBook` (run) | "both writes are conditional", "No gap either way" (416-421) |
| session.service.ts:780 | A family signs in while `deleteAllUserSessions` runs, and is listed by its second SCAN; it rotates, and a log-out of it starts from the old token; the DEL takes that token's record, and the log-out's walk does not reach the new one. Both answer done and the family refreshes on. Three clients, two removals. | `RevokedStaysRevoked` | a racing refresh "either fails its CAS ... or is followed" (717-719) |
| subscription.service.ts:2656 | A yearly renewal is charged more than a month late: its claim is written, a balance read gives the new cycle's first drip, the grant throws, and the claim is undone with the drip fields. The retry claims again, and that month is granted again. | `GrantsOK`, `MonthsAccounted` (run) | "restoring the claim (drip fields included) lets Razorpay's retry grant exactly once" (2555-2557) |
| session.service.ts:820 | The caller's family rotates between the second `collectFamily` and the SCAN: the access key just issued names a token in neither set, and is deleted. The refresh token stays, so the client refreshes again. |  | "the access keys naming them ... all stay" (796-798) |
| document-erase.service.ts:132 | Two documents of one intake are deleted at once: each still sees the other's link, neither takes the ledger. Or a document is drafted after an erase found the facts shared with nobody: they are taken from it. | `FactsOK` (run) | "left for that document" (23-25) |
| document-erase.service.ts:186 | A post that had read the document before it was marked stores its feedback after the feedback step. | `EraseOK` (run) | "a feedback POST cannot land between the two steps and leave an orphan row" (186-187) |
| drafting's account-erase.service.ts:273 | Feedback goes before the links there: a post between the two leaves feedback whose document goes last; the recheck finds no document to look through. The same for the user's answer on a document of somebody else. | `StagesOK`, `FinishedMeansErased` (run) | the order of document-erase.service.ts:186 is the other one |
| session.service.ts:809 | A token is rotated, and a replay of the old one issues an access key that names the new one and lives its own time. The new one is rotated again and its grace ends. Signing out the others by that key finds no record to start from, keeps that name alone, and deletes the caller's own live token. | `KeepsTheCaller` (run) | "the access keys naming them ... all stay" (796-798) |
| session.service.ts:729 | The same key logs out: nothing to start from again, so the successor lives and the family refreshes on. | `RevokedStaysRevoked` (run) | "the whole family goes" (710) |
| subscription.service.ts:2665 | A charge is delivered twice at a time. The second finds the claim of the first; the first's grant throws and its claim is undone; the second looks once more, finds a count that is not its own, and answers 200. If the first is not sent again, the cycle was paid for and is never granted. | `Settles` (run), `PaidPlanStays` | "lets Razorpay's retry grant exactly once" (2555-2557) |

Smaller ones. A re-hold refused for a twin's hold asks for the reason in a second read
(credits.service.ts:1104); if a sweep settles the twin's hold between the two, for the
completed row of the very request that asks, that request shows "Insufficient Ink"
although its saved draft is paid for (`NoChargeUnlessDone` fails; two expiries and a
double-sent retry). A yearly drip compares its count and not its cycle
(yearly-drip.ts:167), which needs a month to pass during one read. A charge that arrives
after its subscription was locally written expired grants Ink that the next read takes,
as `PaidFor` excepts. A charge delivered only after a later one of its subscription is
answered 200 and not granted (subscription.service.ts:2604, 2637): the instance has one
charge of a subscription in a month. A session created by a sign-in in flight after auth's
stage, and a ledger row the Ink sweep writes after the recheck, are left by an account
erase.

## 6. The proofs

All for any constants that satisfy the assumptions of the modules: any set of
keys and callers, any prices and bands, any bounds.

The account (`DraftChargeProofs`, first part: nothing in it mentions a request).
`TypeOK`, `HoldShape`, `PinnedSplit` and `LedgerWithinKept` are
not inductive apart. `IInv` conjoins to the types:

- `HoldOK(k)`: the split of a hold sums to its units, its `expiresAt` is at most
  the key's `stamp`, its band at most its units;
- `CallOK(c)`: a settle in progress has a snapshot whose split sums to its units,
  whose `expiresAt` is at most the key's `stamp`, and *if the key's hold still has
  that `expiresAt` it has that split and those units*. This is what makes the pull
  exact: a new hold takes a larger stamp, so an old snapshot can never match it;
- the ledger of each key is within `kept`, also when the rows a settle is about
  to write are added by maximum.

`InkInvariant` is `InkSpec => []IInv` (one lemma per action); the property theorems
follow from it. `InkConserved` is the action property `Conserve`: each action either
moves Ink of one key between the three places (`HoldInkConserves`, `RefundConserves`,
`SettlePullConserves`) or moves none (`NothingMoves`). `SweepReleasesExpired` is the
other action property. Its invariant `SweepsOK` says of every candidate that a sweep
has read: if the key's hold still has the `expiresAt` that was read, it is expired
still, and that `expiresAt` is no newer than the key's `stamp`. Time does not run
back, and every rewrite of a hold takes a new stamp.

Its requests (same module). `RequestInv` says what each program point implies for the
request's locals; with it

- `RequestsTypeCorrect`: `Spec => []RequestsOK`;
- `ChargeImplementsInk`: `Spec => InkSpec`, each action of a request mapped to
  one of the account or to a stutter, so that every theorem about
  `InkSpec` holds of the drafting service: `DraftsConserveInk`;
- `ChargeRuleHolds`: `Spec => []ChargeRule`. The inductive invariant `ChargeInv`
  says that Ink kept, completed rows, holds marked delivered, and settles in
  progress exist only for `EarnedKeys`, the keys of requests that delivered a
  draft; and that set only grows, since `saved`, `present` and a row's status are
  never taken back. That is why the sweep, which sees only rows and marks, may
  keep Ink for a process that died;
- `OneDraftCharged`: `Spec => []OneDraftPerRun`. The invariant `RunsInv` says that every
  attempt before one that was started is recorded as failed (that is how `resolveRun`
  numbers), that whoever recorded a failure is over and delivered nothing, and that,
  while no call threw, a request that may settle has its completed row. An attempt that
  was paid for has a request that delivered it, which is another than the one whose
  failure is recorded.

The other three properties of a request are false of attempts that are sent twice
(section 5), and proved of all others: they assume `SentOnce` (no two requests resolved to
one attempt: every retry is a new one) and `Remembered` (a request that lost its hold to a
settle still finds its key among the last `INK_SETTLED_KEEP`, 50 in the code: fewer other
settles of the account came between). Sweeps, the timer, crashes and other requests of the
account race the request without limit.

- `ChargedOnce` is `SingleCharge`. `LinkInv` says whose a call is: a settle outside a
  sweep is its own request's, with that request's band. `SoleInv` follows the one hold of
  an attempt: `KeyOK` that nothing is kept while it is open, and that past a program point
  which lost it it is closed; `SettleOK` that a settle whose pull is done knows what was
  kept, and one in progress has the pin of the hold, if that is still open; `Untouched`
  that an attempt nobody resolved has no hold, no Ink kept and no settle.
- `ChargedWhenDone` is `NoChargeUnlessDone`, which itself excepts calls that threw.
  `FreeInv` says what an answer and a place tell of the draft (`Told`), and that while
  nothing threw nobody undoes a save, and a draft withheld has no hold and nothing kept.
- `DonePaidFor` is `DoneIsPaid`, while nothing threw, for prices that are not zero
  (`Priced`). `PaidInv`: the hold, and every settle that may still pull it, carry the
  request's own band (`BandOK`); what was kept is the figure shown (`PaidOK`); a hold that
  was taken again is not one that a sweep is about to release (`RepayOK`), for its row is
  completed when a sweep that read the new `expiresAt` looks it up, and an older reading
  is no match. So, of an attempt sent once, a hold that expires again between the
  re-hold and the settle is settled by the sweep and not lost: the bound on expiries that
  the runs have is for twins.

`TopupGrantProofs` proves every safety property of `TopupGrant`, for any number of
deliveries, slow attempts, faults and deaths. `GrantInv` conjoins to the types:

- `TokensOK`: a token has at most one attempt that still works with it;
- `SeenOK`: a claim that was read stale never becomes fresh under the same token,
  so a compare-and-set that matches takes over a stale claim;
- `CountOK`: each credit used up a token, each coupon use a credit;
- `BudgetOK`: the tokens written, plus one if another can still be written, are
  within `1 + slow + faults + deaths`. Another can be written unless the claim is
  granted, or fresh in the hands of an attempt that has not given it up (`Guarded`);
  each step that ends that state is slow, a fault or a death, or spends a token for
  good. `CreditsBounded` follows from the two;
- `QuietOK`: while nothing throws or dies, each credit is about to be marked, is
  the one that was marked, or was reported, which gives `DoubleGrantsReported`;
- `SettledOK`: what a program point and a granted claim say of the credit, which
  gives `OkIsSettled`.

`DocumentEraseProofs` proves `EraseOK` and `FactsOK`, for any documents, intakes,
handlers, posts and failures, whatever overlaps. `Inv` conjoins to the types:

- `OwnOK`: what is stored about a document concerns its own intake;
- `RowOK`, with `GoneOK`, `LiveOK` and `MarkedOK`: what is there in each state of the
  row. A marked document reaches its intake through its generation, or else through the
  marker: that is why `saveLinks` adds to what is saved and never replaces it;
- `BusyOK`, `SavedOK`, `TokensOK`, `FeedbackOK`, `DiffsOK`, `UnlinkOK`: what a run has
  done is still done past each step, but for what a late post wrote;
- `TakesOK`, `LeavesOK`, `LinksOK`, `TakenOK`: what a run read of the shared facts is what
  it goes by. It takes them from nobody but a document drafted behind it, leaves them to
  everybody it found, and what it took is gone unless a sibling was drafted meanwhile;
- `LeftOK`: whom an erase left the facts for is still linked, or left them too;
- `KeptOK`: facts that are stored have a linked document of their intake, or are excused
  by one of the two exceptions.

`AccountEraseProofs`, for any runs, calls, faults, late requests and posts, with no
assumption on what overlaps. `StageHonest` and `LockOK`: `RunOK(r)` says that a run at a
stage has the earlier ones done by somebody, `CallersOK` that a call which answers has the
one run that waits for it. `Reachable` and `FinishedMeansErased` need
`FullInv == Inv /\ Reachable /\ CallsOK /\ SecondPass /\ GoneOK`: `CallsOK` says what an
open call has read and erased of the review rows, in the order of `eraseAccount`;
`SecondPass` that the drafting pass after the audit stage, when it answers, has left no row
from before it; `GoneOK` the same once the user is gone.

`SessionRotationProofs`, for any clients, tokens, sign-ins, removals and mishaps. `Inv`:

- `ChainOK`: tokens are issued in order, and those of a family form a chain in which each
  but the last was rotated into the next; `RecordOK`: only the last may have a live
  record, and the links of the others lead along the chain;
- `ConvexOK`: the records still held of a chain have no hole, which is why a walk from
  any of them reaches the live one (`Reach` is a least closed set, so this is an
  argument about intervals and needs no induction over the walk);
- `RefreshOK`, `RemovalOK`, `OthersOK`: what the locals of a call still say of the chain;
  what a call that signs out the others keeps is all the records of its family that its
  walk could start from, or, of an `Orphan`, none.

From it `FamiliesSound`, `KeepsTheCallerHolds` and the refinement
`SessionsKeepThePromise`. `RevokedSound` assumes `PromptRemovals`, without which a grace
record that expires under a walk breaks the chain, and adds `OwedOK`: before its walk a
removal has a start in every living family it owes the end of, after it none of them
lives, in the end none has an access key, but for families that were `cut`.

`RefundReversalProofs`, for any finite set of refunds, any attempts and mishaps.
`ReversalSound`: `SoleOwner` (from its insert on one attempt owns a claim), `AttemptOK`
(what it knows of it), `DebitsOK` (what debits took), and `AgreedWithinGrant`: the dues of
the claims, *each cap that was worked out counted as if it were written*, sum to at most
the grant. The dues alone are not inductive: two attempts that both compared may both
still have to lower theirs. `PartsAddUp`: in a behaviour that never overlapped
there is one attempt (`Alone`) and, while no claim of the payment is left behind
(`Clean`), the dues done are the share of the paise done (`ExactFor`); each due is the
difference of two shares, so they telescope to the grant.

`InvoiceSeriesProofs`, for any payments, finitely many refunds, any webhooks at work and
mishaps. `IInv` conjoins to the types:

- `CapOK`, `CountsOK`: a cap's total is the sum of what it counted, within the
  invoice, and covers every credit note stored; an attempt that is about to seed a cap
  that is not there has read all the notes; one that stores a note has it counted. This
  gives `CreditStaysWithin`;
- `CounterOK`, `RowOK`, `NumberOK`: an issued row has a number its series has given, and
  the last one only if nobody else is waiting for it; as long as the row an attempt
  works for is unnumbered, the number it is about to write is the one its series holds;
  one that is given back is not on the row. These give `NumbersGivenOnce`,
  `CreditAfterInvoice` and `IssuedIsFinal`;
- `DropOK`: only early payments are dropped, once the date is configured.

`GapFree` and `BookKept` prove `NoGap` and the refinement `KeepsTheBook`, for any number at
work. Of each year and series, `Whole(y, s)`: the numbers lost are past ones, and those on
rows together with the one pending are 1 to `seq` without the lost ones; and `HeldIsNew`:
the number that a series holds is on no row but, once written, the one it is held for. So
a number leaves the counter written, lost, or given back when nobody has it. For the
refinement, the numbers that are gone, written or lost, are 1 to `seq` save the one held:
each number that is written or lost is the next.

`SubscriptionCycleProofs`, for any histories, deliveries, reads, cycles and mishaps.
`Base` conjoins to the types that events, counts and grants speak only of what was
charged, and that a subscription which shows a stop counts no charge after it: this is
`StopsTrue`. A count is not monotone: an undo restores what its claim found, and may do so
long after other claims. But an undo works only if the row still carries its count and
token, and then gives back the pair the claim found; so the pairs that a row may still
show lie on a *pile*. An invariant names a pile `S` of which the row shows the top and
that no undo leaves (`Kept`):

- `ClaimStays`: while a delivery has a claim, the row shows that claim or others made on
  top of it; `GrantedStays`: once a cycle is granted and its delivery knows, all that
  can come back counts at least that cycle;
- `FirstOnce`: hence a cycle that was not taken over is one delivery's, and granted once
  unless it is in doubt; `DoubleOK`: two deliveries that granted it do not both find
  their claim when they mark it, and the other one reports;
- `DocsOK`, `BackInTime`: while no claim of the subscription was undone late, the drip
  fields are those of the cycle counted, and a row that went back over a cycle it is
  paid for did so before that cycle started. `ReadsOK`: so a read that takes a drip is
  in its cycle. `DripOnce`: a drip once counted is counted for good; `AccountsOK`.

From these `GrantsRight` and `MonthsRight`. `PlanKept` is `PaidPlanStays`, with reads and
deliveries of one event overlapping as they like. `EventTime`: a charge waits within its
cycle to be delivered; `GotSeen`: a cycle granted and answered for is counted, by its row
and by all that can come back, unless it is `Gone` (`dropped` or `stranded`); `PaidOn`: a
row with a granted cycle, or one being granted, shows itself paid to that cycle's end, or
at least to now while a charge is still to come again; `PlanOK`: that then the plan is
there, and no finding to the contrary on its way to the user, unless the cycle `raced`.

The sums that `RefundReversalProofs` and `InvoiceSeriesProofs` need are folds, and their
lemmas (`SumWithout`, `SumNat`, `SumOfMore`) stand at the head of each. The induction is a
minimal counterexample among the subsets of a finite set (`Least`, from the library's
`WFMin`), because an induction theorem that takes an operator is out of reach.

`HoldsSound` and `GrantsSound` restate the invariants of `ink_race` and `topup_grant` as
the runs check them.

Only model-checked, and why:

- liveness (`EveryRequestEnds`, `HoldsClose`, `GrantArrives`, `EveryRefundAnswered`,
  `Settles`, `AllSettles`, `DeletionFinishes`, `EraseFinishes`): out of the prover's reach;
- `NoChargeUnlessDone`, `DoneIsPaid`, `SingleCharge` of an attempt that was sent twice, or
  whose settle was forgotten: true within the bounds of their runs and false beyond them
  (`SettledKeep` in section 3, twins in section 5). Where calls throw, `DoneIsPaid` is
  neither proved nor checked: `PaidDone` excepts it, and the debit shown may be wrong there
  (section 5, credits.service.ts:1308).

## 7. The plan

1. Proofs: `SingleCharge` of an attempt sent twice with no expiry beside it, and what is
   left of `DoneIsPaid` where calls throw.
2. Models, each in the place of a run that shares its shape: `Revision`, the revise
   mode on top of DraftCharge's hold, with document undo; checkout's lock, adoption
   and the reconcile sweep beside `SubscriptionCycle`.

Not modelled, and why. The drafting pipeline, intake, templates, exports, gateway,
web and deployment hold no shared state of their own; what they do to the parts
above is an environment action here (a run succeeds with a band, or fails), and
they are most of the repository's lines. One-time tokens, referrals, the sign-up
bonus and payment rows are single atomic commands with nothing between them. The
queue's retries and the mail providers are external.
