# Formal models of Awoof

Awoof is a student-discount marketplace. Students prove they are enrolled,
buy deals through Awoof (Paystack checkout) or redeem them on a merchant's own
site (verified benefit, widget, partner SDK); vendors list deals; administrators
approve vendors and institutions. The backend is a Node/Express service over
PostgreSQL, `src/apps/backend/src`; paths below are relative to it, except those
of the web application, which begin with `apps/web`.

The models are about the protocols inside that backend, and the one page of the
web application that takes part in one: what survives concurrent requests,
replies that arrive late, twice or never, crashes between two statements, and
clocks that run on while locks are awaited.

## How code becomes TLA+

* A PostgreSQL transaction whose row locks are held to COMMIT and that waits on
  nothing in between is one action. Where it reads something and then waits
  (for further row locks, a provider, a mail server) it is two or more actions
  and the state it read is kept in a `handler`, `worker` or `request` record.
* Statements outside a transaction are actions of their own, and a crash may
  separate any two of them. A crash in a transaction rolls it back.
* Row locks that matter to a property are explicit (`Locked`, `Free`).
* Paystack, mail and the identity providers are external: each reply the code
  distinguishes is a choice of the environment, including no reply at all.
* Names, addresses, digests and amounts are members of small sets. Clocks are
  integers that tick at any time up to a bound.
* History variables (`supply`, `paid`...) record what properties speak of and
  are never read by a guard.
* Definitions introduced by "Mutated:" are deliberately wrong variants of the
  next definition. They are used by nothing; `PROJECT.json` "mutants" pairs each
  with a property that must fail when it takes the place of the original.

## Inventory

| Part | State | Operations | What must hold | Modelled in |
| --- | --- | --- | --- | --- |
| Marketplace checkout (`controllers/checkout.controller.ts`, `services/payment/checkout.service.ts`, `services/payment/paystack.service.ts`, webhook) | `transactions`, `payment_reconciliation_queue`, `products.stock`, `savings_stats`, outbox row | reserve and initialize; webhook or poll settles; vendor edits | one live charge per student and deal; captured money accounted for; stock and savings exact; discounts only while eligible | `Checkout`, `OrderLedger`, `CheckoutLedger` |
| Commerce notification outbox (same file, `services/notification`) | `commerce_notification_outbox`, `notifications`, `savings_milestones` | claim under a five minute lease, five steps, drain every minute | a purchase is announced once in-app and mailed at least once; rows come to rest | `NotificationOutbox` |
| Merchant benefit (`services/verification/merchant-benefit.service.ts`, `merchant-assertion.service.ts`, `product-claim.service.ts`, `routes/merchant-verification.routes.ts`, `scripts/cleanup-benefit-authorizations.ts`) | claim sessions, assertions, authorizations, receipts, held stock | open session, claim, issue, exchange, report, refund, the five statements of the cleanup job | one redemption per checkout, retries answered identically, a held unit used once, one settlement per payment | `MerchantBenefit` |
| Sessions, passwords, closure (`services/auth/session.service.ts`, `account-closure.service.ts`, `controllers/auth.controller.ts`) | refresh hash, active session id, password hash, credential generation, reset OTP | login, refresh, logout, forgot, reset, update, close | a slow request never signs in, or overwrites, across a change it did not see | `Credentials` |
| Provider login, links, re-authentication, grants (`services/auth/student-sso-*.ts`, `student-reauth.service.ts`, `student-action-grant.service.ts`) | login attempts, linked identities, action grants | start, callback, finish, link, unlink, grant, consume | a grant serves its session and purpose once; the owner keeps a way in | `Credentials`, partly |
| Recovery (`student-account-recovery.service.ts`, `student-recovery-code.service.ts`, `recovery-otp-outbox.service.ts`) | recovery codes, attempts, mail outbox | generate, activate, remove, cancel; start, verify, complete; deliver | a code recovers once and supersedes everything before it; mail retries bounded | `Credentials`, without the mail outbox |
| Eligibility, policy, consent (`services/verification/eligibility-*.ts`) | evidence, eligibility state, policy version, processing grants, reserved registration numbers | grant, withdraw, select a school, decide, read | stale identity, policy or consent authorizes nothing | `Enrolment`; as `expires` and `evidence` of the commerce models |
| Registration lookup (`registration-lookup.service.ts`, `verification-flow.service.ts`) | generation and decision of a check | begin, look up, apply | an answer is applied only to the context it was asked for; a denial stands | `Enrolment`, partly |
| Microsoft verification (`services/verification/microsoft-*.ts`) | consents, attempts, identities, proofs | consent, start, callback, finish, unlink, withdraw, retention | one account per student and school, unlinking is final, repeated finishes agree with the readers | `Enrolment`, partly |
| Academic profile (`services/academic-profile/academic-profile.service.ts`, `apps/web/src/app/student/profile/complete/page.tsx`, `apps/web/src/lib/student-academic-profile.ts`) | profile row with revision and school; the page's view, draft and request | read (which clears an outdated profile), save, erase; load, edit, save, reconfirm, read back | answers fit the school they are stored under; no answer is overwritten unseen; success means saved | `AcademicProfile` |
| Academic deletion ledger (`academic-profile-ledger.service.ts`, `academic-profile-retention.service.ts`, `academic-profile-reconciliation.service.ts`) | ledger table used as outbox, host file with lock file, tail and ever-written markers | erase, publish, rebuild, purge, startup gate, reconciliation | an erased profile stays erased through crashes and restored dumps | `DeletionLedger` |
| Sign-up and challenges (`services/auth/student-signup.service.ts`, `services/verification/challenge.service.ts`) | `verification_challenges`, attempts, cooldowns | start, resend, confirm, retention | one consumption per code, bounded attempts | — |
| Payouts (`controllers/payment.controller.ts`, `scripts/reconcile-payout.ts`) | `payout_change_requests`, vendor bank fields | request, apply, reconcile | one pending change, unknown outcomes stay pending | — |
| Support tickets (`services/support`) | tickets, messages, status | open, reply, assign, close | closed tickets change only by reopening | — |
| Other controllers (products, categories, vendors, universities, analytics, widget settings) | rows edited by one statement or transaction | CRUD | as far as they touch stock and listings they are actions of the models above | — |
| Rest of the web application, widget, SDK, migrations, CI and deployment scripts | — | — | — | — |

Interactions: checkout, benefit, single sign-on and consent all lock user,
student, university, eligibility state, vendor and product rows in one global
order; settlement writes the outbox row that the dispatcher drains; closure and
recovery bump the credential generation that resets, grants and recoveries
compare; a change of school outdates evidence and academic profile; closing an
account starts the window after which the retention job writes tombstones.
`PROJECT.json` "hazards" lists, at its line, what in this code is hard to test,
and the property that covers it.

## Modules

A model `X` comes with `MCX` and `MCX.cfg` (instances for TLC) and `XProofs`
(theorems). `MCSalesLive` and `MCEnrolment` pack two models into one run: each
behaviour keeps one of the two busy and the other at rest.

### Checkout, OrderLedger, CheckoutLedger

`status`, `init`, `url`, `order`, `consumed`, `credit` are columns of
`transactions`; `reason` is the row of `payment_reconciliation_queue`; `outbox`
the row of `commerce_notification_outbox`; `listing` the product joined with its
vendor; `charge` and `paid` are Paystack's. One element of `Handlers` is one
request. `CreateCheckout` is `createCheckout` up to the COMMIT of the
reservation, and the row's `quote` is its `list_price_snapshot` with the price it is
charged at; the call to Paystack follows, and its reply is `RecordInitialized`,
`RecordRejected` or `RecordUnknown`. `BeginSettle` is
`completeMarketplaceTransaction` up to the eligibility read, which leaves the
student's authority rows locked; the five `Settle...` actions are its outcomes
after the row locks. Between the two, time passes, vendors edit, and webhook and
poll compete. A product stands in for its vendor's rows as well. `EditListing` is
`updateProduct`: availability, the stock, and the list price and student price
as a pair, any of which may change while a charge is open. The fallback to the
live list price for a row without a snapshot is left out: migration 024 filled the
snapshot of every row there was, and `createCheckout` writes it for each new one.

`OrderLedger` says what checkout is for, without reservations, providers or
replays: a buyer has one open order for a deal, an order ends once, and a
fulfilment takes one unit in stock and counts one purchase. `CheckoutLedger` maps
`Checkout` to it and `ImplementsLedger` says that every step of checkout is a
step of the ledger or invisible to it.

### NotificationOutbox

`row` is the outbox row (status, attempts, and how long ago it was stamped),
`flags` its five marker columns, `worker` an emission or a drain in memory.
`Drain` is the SELECT of `drainCommerceNotificationOutbox`: pending rows first,
then by age. Its `list` is taken in that order, whatever became of the rows
meanwhile (`DrainClaim`, `GoOn`). `Claim` is the claiming
UPDATE of `emitCommerceNotifications`, `ReadRow` its joined SELECT; `Perform` is
one step, where `Notify` writes marker and notification in one statement and
`SendMail` and `AnnounceMilestone` are followed by a `Mark` of their own;
`Finish` is the closing UPDATE. Faults are a failing claim or read
(`ClaimFails`, `ReadFails`) and a death of the worker (`Crash`). `Tick` lets
leases run out under a worker that is still at it. The joined SELECT finding no
row (a purchase deleted meanwhile) is not modelled.

### MerchantBenefit

`session`, `code`, `receipt`, `auth` are the four tables of the protocol,
`order` the completed transactions a merchant reported; an order's key is its
payment reference. `Exchange` is a first exchange under an idempotency key and
`Retry` one under a known key, which `readCommittedReceipt` answers from the
row; `receipt.told` is history, the codes whose requests got this receipt. Every
transaction first locks the owner's user row and the vendor row FOR UPDATE
(`prepareMerchantDisclosure`, `createClaimSession`, `updateProduct` and
`updateOrderStatus` all do), so each is one action. The job of
`scripts/cleanup-benefit-authorizations.ts` runs autocommit statements:
`RestoreExpired`, `DeleteExpired`, `TombstoneSessions`, `DetachCodes`,
`DeleteSessions`, in any interleaving with the rest. Deadlines are ticks left.
`Skew` is how far the clock of the job's host is ahead of the database's.
`evidence` stands for the evidence row together with its processing grant, of
which a new check of the enrollment makes another. Left out, because they only
refuse: the merchant's key, origin and nonce comparisons, the pilot gate, and
claim sessions from before quotes were stored.

### Credentials

`user` and `session` are columns of `users` (hash, generation, reset OTP,
`deleted_at`, setup, binding and re-enrolment flags, recovery fence; refresh
token, active session and its identity); `codes`, `grants`, `recoveries`,
`logins` and `linked` are the tables of recovery codes, action grants, recovery
attempts, login attempts and identities. A request that compares or hashes a
password is two actions: what the first read is kept in `requests`, what the
second requires of it is what its UPDATE or its locked recheck requires.
Transactions under the user's row lock are one action. `session.proof`,
`code.hash`, `code.uses` and `history` are history variables: they record how a
session was opened and a code enrolled.

Abstractions: a deadline can only disable a step, all properties here are safety
properties, so nothing expires; one-time codes, session ids and hashes are
distinct numbers; the ceremony of re-authentication by a provider is one step
(`ReauthFinish`); institution policy stands still; suspension, link hand-offs,
onboarding of unlinked identities, challenge budgets and the recovery mail
outbox are not modelled.

### Enrolment

`profile` is what evidence is bound to: the student's school and a version that
stands for the profile's name and registration number and the account's epoch.
`policy` and `provider` are policy versions of a school, `grant` the consents to
processing, `state` the eligibility state of a student at a school (generation,
last applied answer, denial), `check` an enrolment check and what it was asked
about, `reserved` the registration numbers, `evidence` the evidence rows;
`consent`, `attempt`, `identity` are the tables of the Microsoft flow.
`BeginEnrollmentCheck` is the transaction that snapshots the context, the lookup
at the institution runs outside any transaction, `ApplyEnrollmentDecision` is
the transaction of its answer and `EndCheck` an answer that never comes. A
Microsoft attempt goes through `Start`, `Claim`, `Redeem`, `Observe`, `Finish`,
each with the account, the school and consents rechecked as the code does;
`UnlinkMicrosoftIdentity`, the two withdrawals, `UpdateProviderPolicy` and the
retention job (`Forget`) cut across them. `Effective` is
`getEffectiveEligibility`, `RetryReports` what a repeated finish answers.

Abstractions: proof of the mailbox is always there, since no code path changes a
user's address; the account stays active, closure and restoration being one of
the changes that raise the version; a policy's mode and its time windows are
reduced to its version; identity-only mode, replacement of sessions, rate limits
of starts, evidence by e-mail (which never decides) and the column
`current_evidence_id` are left out; a registration number is the one typed by
the student and confirmed by the institution; every transaction is one action,
because user, student, university and state rows are locked throughout. The
branch of `applyMicrosoftEnrollment` that reuses existing evidence cannot be
reached within one transaction and has no action. Beginning a new check
discards the answer of an earlier one still out, a denial included: the model
has this as the code does, and `DenialStands` speaks of denials that were applied.

### AcademicProfile

`row` is the student's profile, with its revision, the school it was stored
under, the school the student claims and, per field, the answer together with
the school its page showed and the generation of the profile it was meant for
(history). `university` is the school of the account; it changes by
`SelectInstitution`. One element of `tab` is one open page: `view`, `draft`,
`dirty` are its React state, `pc` what it waits for, `patch` the request on its
way. `Save` is `saveAcademicProfile` with its conflicts (`Verdict`), the carried
answers that need a reconfirmation (`Carried`) and the invalidation. A GET is
two steps for an outdated profile (`SelectOutdated`, `Invalidate`), because the
second locks what the first read. `AnswerLost` and `ConnectionLost` send the
page to read back what was stored; a request whose page gave up stays in `stray`
and may still arrive (`LateSave`). The arrival of an answer is merged with what
the page does with it.

Left out: estimate and validation of the year of graduation, search of the
catalogue, the dialog on leaving, sessions that end and accounts that are
suspended or closed. An unknown or skipped answer is no answer. The request of
an erasure and the page's waiting for it are one step.

### DeletionLedger

`live`, `ledger`, `published` are the profile rows, the ledger table and its
`host_published_at`; `host` the file (`lines`, how many of them are flushed,
`torn` if it ends in half a line) with the marker that it was ever written and
the tail marker (`tail`); `lock` the lock file; `worker` the locals of a DELETE
request, of the dispatcher and of the retention job; `acked` the generations
whose student was told they are erased; `backup` a dump; `server` the phase of
startup. A `worker` in `republishMissingDurableLedgerEntries` reads the outbox
(`Continue`), repairs the tail (`Recover`) or takes the whole history
(`LoadHistory`), takes the lock file and appends line by line (`PublishLine`),
leaves the lock (`Unlock`) and marks rows one by one (`MarkRow`). An append may
complete, be rolled back, or be cut short by a kill. `Start`, `StartRebuild`,
`Gate`, `ReconcilePurge`, `ReconcileRows` and `Opened` are the startup of
`index.ts`. Processes and host may die at any step; unflushed lines are lost
with the host.

Abstractions: a profile generation is its tombstone; `erasures` is the clock of
`erased_at` and every generation's stamp; the initialized marker is never lost;
an append is one step under the lock file with all its outcomes, so that readers
without the lock see the file before or after it; a write and the truncation
meant to undo it do not both fail; a batch of the retention job holds every
account that is due. `Recover` is one step: `recoverLedgerTailWithClient` reads
the file, awaits the database and then describes the file once more in the tail
marker, all without the lock file, so that in the code an append may fall in
between (the marker then describes the longer file, or is a step behind it and
makes the next reader refuse or recover again) and so may a loss of the file,
which the model keeps outside. `ReopenAccount`, `Dump`, `RestoreDump`, `LoseFile` and
`CutFile` are the operators and the volume.

Two observations the model confirms and no property forbids: when a crash leaves
a stale tail marker while another erasure is committed but unpublished, startup
is refused until an operator acts, which is why `EveryErasurePublished` is
conditioned on the server coming back; and a repeated DELETE that finds the
outbox empty and the tail stale may answer with the latest line of another user.

## Runs

All passing runs end with the whole state space explored. Every bound is a
constant of the configuration, and every constraint is named in the MC module.

| Run | Instance | Shows |
| --- | --- | --- |
| `checkout` | two students, one deal with at most one unit, two rows, two handlers, two pairs of list and student price, one vendor edit, one crash, two instants (`OneTrouble`: crash and edit at the first) | one live charge, money, stock and savings accounted for, eligibility at completion, and the refinement of `OrderLedger` |
| `sales_live` | `MCSalesLive`: one student with two rows, two handlers and a crash; or one checkout of a merchant with three codes, one of them from before units were held | every captured charge settles; every held unit is settled or released |
| `outbox` | two purchases, two emissions or drains of one row, a mail each, two claims per row, leases of one tick; a replay or a fault meets one purchase (`OneTrouble`) | what students and vendors receive, whoever overlaps |
| `outbox_live` | two purchases, one emission at a time from drains of up to two rows, five claims, a replay, a fault | every row comes to rest |
| `benefit` | two checkouts, two codes, two keys, two payments, one unit, retries, one edit or a second evidence (`OneChange`), clocks that agree | every safety property of the discount |
| `benefit_skew` | one code that outlives the job's clock error | the first finding |
| `credentials` | two requests in flight, two credential changes, two sessions, two mails, two codes, two grants, two recoveries; grants are asked for around one recovery with nothing else going on (`OneConcern`) | races of passwords, closure, recovery and enrolment of codes |
| `enrolment` | `MCEnrolment`: two students, two schools, one number, two checks, two consents, two attempts, two accounts, one combination of troubles per behaviour (`Troubles`); or provider logins of two identities beside one request, a code and a recovery (`GrantOrRecovery`) | eligibility only where it is due; logins only by proofs that stand |
| `academic_profile` | two tabs, two schools, two fields, up to three saves, with an erasure, changes of school, or lost answers | what is stored, under which school, and what pages report |
| `academic_stale` | the same, a profile made again after an erasure | the second finding |
| `deletion_ledger` | two users, one request beside dispatcher and retention job, two generations; crash and failing append, crash and restored dump, closure, killed job, lost file, cut file, each kind on its own | erased stays erased, the file keeps what was published, only the erased vanish, everything is published |
| `ledger_rebuild` | the file is lost and the first attempt to write it again fails | the third finding |

Why these bounds: each race in this code is between two parties over one row
(two requests of a student, webhook and poll, two students for the last unit,
two emissions of a purchase, two codes for a checkout, a slow compare and a
change, two tabs over one profile, two students over one registration number).
Two of each, one unit, one edit and a clock that can pass each deadline once let
every one of them happen; a third party meets a row that the first two have
already moved on. Budgets count the troubles of a behaviour (crashes, failed
appends, changes of policy...): each kind appears in some behaviour of the run
beside kinds it interacts with. Leases and code lives are a tick or two
because only their order is compared. The theorems below speak of every value of
the bounds: what the instances might be too small for, they cover for the
safety properties.

Every safety property of a passing run is a theorem as well, so the instances
are a second look at them; the runs are the only evidence for liveness.

Deadlock is off in all configurations: the counters are bounded, and a system
in which nobody buys and everything has expired rests.

### Fairness

* Checkout: a handler ends (weak fairness of settlement and of recording an
  outcome: every await of the code has a timeout or a pool that answers), and
  Paystack redelivers a captured charge until a delivery is acknowledged; the
  student's lock is free again and again but not for good, so beginning a
  settlement needs strong fairness.
* Outbox: `checkout.service.ts:158-169` drains every minute; a worker that lives
  performs its next step; time passes. Nothing is assumed of replays, faults or
  settlements.
* Benefit: the runbook `docs/runbooks/student-benefit-cutover.md` (lines
  124-130) has the cleanup job recur; time passes. Nobody is assumed to report,
  exchange or refund.
* Deletion ledger: the dispatcher runs on an interval
  (`startAcademicProfileLedgerDispatcher`), a worker that lives performs its
  next step, and a server that was started goes through startup. Nothing is
  assumed of students, operators or the retention job, and that the server comes
  back at all is a premise of the property, not an assumption. The outbox being
  empty again and again means that every row is published, because generations
  are finite.

### Findings

`benefit_skew`: `scripts/cleanup-benefit-authorizations.ts:45` takes "expired"
from the clock of its host, while deadlines are stamped and checked on the
database clock, and `reportMerchantBenefit` does not look at
`stock_restored_at`. A comment (`merchant-assertion.service.ts:192-193`) says
that a reservation is consumed by the report path *or* restored. With a host
that runs ahead by less than a code lives, TLC gives a unit back and then settles
its authorization, so that one unit can be sold twice. With `Skew = 0` the same
property is a theorem (`ReservationUsedOnceHolds`).

`academic_stale`: a save is compared with the stored revision only
(`academic-profile.service.ts:1100`), and a profile made after an erasure counts
revisions from 1 again. A tab that still shows the erased profile can save
answers given for another school into the new one. The same cause has two more
effects. Such a save may replace answers its page never showed, and the page is
told "saved" although the answers on its screen which it did not send were erased
and are not stored. So three properties leave out pages and saves of an erased
generation while another one is stored, and hold: `AnswersFitSchool`,
`NoBlindSave` and the second part of `ShownIsSaved` (everything on the screen is
stored). Its first part, that what a page sent is stored, has no exception.
Without the guard `tab[t].view.gen = row.gen` TLC finds `ShownIsSaved` violated
by a page of the erased profile in twelve states.

`ledger_rebuild`: when a lost file is written again and an append fails after a
line, `republishUnderLock` has already described the partial file in its tail
marker (`academic-profile-ledger.service.ts:699`, whose append ends with line
203), and the gate takes it for whole. The hypothesis of `PublishedIsKeptHolds`
is the complement of this case.

Not findings but worth knowing: the claiming UPDATE of the outbox looks at
neither attempts nor backoff and `Finish` does not check that the lease is still
held, so that emissions which always outlive their lease are bounded only by
`MaxAttempts`, a bound of the model. A report of a sale that is refused because
the authorization has expired or the product was withdrawn leaves no record.

## Proofs

TLAPS checks the following for every value of the constants that meets the
assumption named in the module (`CheckoutAssumption`, `OutboxAssumption`,
`BenefitAssumption`, `CredentialsAssumption`, `LedgerAssumption`,
`ProfileAssumption`, `EnrolmentAssumption`): any number of students, rows,
handlers, workers, tabs and codes, any clock, any bound and any set of budgets.
The assumptions say what kind of value a constant is (rows, codes and purchases
are finite, a student never pays more than the list price, milestones are
positive) and that names for "none" are not used for something else; one relates
two deadlines (`BenefitAssumption`: a session is kept longer than a code can be
used). The theorems with a further hypothesis are named below with it.
Each module begins with `Typed`, its type invariant, which the others rest on.

* `CheckoutProofs`. `ReservationHolds`: `Reserved` is inductive given the types.
  `OneLiveCharge` alone is not, because nothing in it says why a row that stopped
  blocking has no charge: `RejectedOnly` (a row fails only when Paystack refused
  it) and `SoleReporter` (only the request that reserved a row reports on it, and
  before it failed) do, and `OneOpen` is what the reservation query then
  guarantees; `HoldsEligibility` (a settlement runs on captured money and its
  eligibility cannot have changed) is what `CompletionEligibleHolds` rests on.
  `MoneyHolds`, `SettledIsFinalHolds` follow from these, `StockHolds` counts the
  consumed rows. `SavingsMatchHolds` counts savings unit by unit: the savings of
  a student are the cardinality of a set of pairs (row, n-th unit of the list
  price not asked for, both prices as the row quoted them, whatever the listing
  says at settlement), so that a settlement adds a block disjoint from the rest,
  and no induction over a sum is needed. `Implementation`: by `OneOpen` a
  reservation maps to `Place`; settlements map to `Fulfil` and `Close`, vendor
  edits to `Restock`, the rest to stuttering.
* `NotificationOutboxProofs`. `TruthfulHolds`: what emissions have in memory
  agrees with what is recorded, although they overlap: in an emission without
  failures so far, a step it no longer has to do is marked (`Kept`), one about to
  be marked has had its effect (`Performed`), a marked mail has left, a delivered
  row has all its steps marked. The argument is that marks and mails only grow
  (`Grows`), so that other workers' steps cannot falsify it. `InAppOnceHolds` and
  `DeliveredIsDoneHolds` are parts of it. `MailPerAttemptHolds` rests on
  `MailsOwed`: the mails that left, together with the emissions that may still
  send one, are no more than the attempts counted on the row. A claim adds one to
  both sides, sending moves one from the second group to the first, and a crash
  only removes. `MilestoneAnnouncedHolds` rests on `TopAnnouncedHolds`: purchases
  are enqueued in order, an emission of the latest one has read the full total
  (`TotalsRead`), and before it marks its step (`TopBeforeMark`) and ever after
  (`TopMarked`) the highest milestone is announced. The property speaks of
  savings from marketplace purchases only: refunds and merchant benefits change
  the total as well and announce nothing.
* `MerchantBenefitProofs`. `Typed` includes that stock never goes below zero.
  `OneRedemptionHolds` rests on `Claimed`: an attached code's session is there
  and quotes what was seen (`Attached`), a detached one can no longer be used
  because `CodeTTL + Skew <= Retention` (`Loose`), and a used code's checkout is
  taken for good (`Redeemed`). `PaymentSettlesOnceHolds`, `QuoteHonouredHolds`,
  `SettledUnderClaimHolds` rest on `Authorized`: an authorization carries the
  quote and evidence of its code (`Carried`) and an order those of its
  authorization (`Ordered`). `IInv` is their conjunction. `OneReceiptHolds` is
  inductive together with `ToldOwn` (a receipt was told to requests for its own
  code and to no others), by which a retry tells nothing new. `SavingsMatchHolds`
  counts units as in checkout; a refund takes away the block its order added, and
  `Priced` says that there is a catalogue quote behind every order. It needs nothing of
  the clocks.
  `ReservationUsedOnceHolds` and `StockConservedHolds` assume `Skew = 0`: a
  restored reservation is then expired and can no longer be reported (`Unspent`).
* `CredentialsProofs`. `Typed` includes what a refresh token may belong to.
  `AccountHolds` collects who is signed in: `Retired` (a closure or recovery has
  bound the account to sessions and taken the old token), `ClosedOut`,
  `NamesIdentity` (the column unlinking looks at names the identity the session
  was opened with), `SessionProven`, `LoginRemains`; it needs nothing about the
  requests in flight, because each write compares what it read with what stands.
  `NoBlindOverwriteHolds` does: `Seen` says that whoever read the current
  generation read the current password, since every change of it bumps the
  generation. `ReenrolledByPasswordHolds` rests on `Enrolment` (while the demand
  to re-enrol stands, a code pending under the current generation was generated
  with the password now stored). `OneRecoveryPerCodeHolds` is inductive with the
  types.
* `MCEnrolmentProofs` carries `SessionProven` and `LoginRemains` over to the
  instance of `Credentials` that is packed into `MCEnrolment`: its steps are those
  the lemmas of `CredentialsProofs` speak of, and the account it rests at meets
  the same invariant (`IdleAccount`). The number of students, schools and attempts
  of the other half does not matter.
* `EnrolmentProofs`. `Accounts` is the inductive invariant of the Microsoft flow
  (`AccountsHold`): evidence is what its completed attempt was about
  (`OfAttempt`), a student has one account per school (`LinkedOnce`), the attempt
  a link names is its owner's (`ByOwner`), attempts from before an unlinking are
  over (`PastIsOver`) and never change (`AttemptsKept`). `RegistrationNumbers` is
  the one on reservations (`NumbersHold`): evidence is bound to the context its
  provider was asked about, and as long as that context stands its number is
  reserved to the student; a number has one holder per school (`ReservedOnce`).
  `EffectiveIsEntitledHolds`, `OneStudentPerIdentifierHolds`, `ReportsAgreeHolds`
  and `UnlinkIsFinalHolds` are consequences. `DenialStandsHolds` rests on
  `ChecksCounted`: a check whose generation is still ahead of the applied one was
  begun after the denial.
* `AcademicProfileProofs`. `FitsHold`: every change of the stored profile counts
  its revision or its generation on, so that a page, a draft or a save on its way
  that names the revision and generation now stored shows what is stored
  (`Fits`). `AnswersFitSchoolHolds`, inductive with it, and `NoBlindSaveHolds`
  follow for each save, because a save is accepted only for the current revision.
  Readers hold the row locks when they clear, so that an outdated profile is either
  still as they saw it or already cleared:
  `ReadersClearOnceHolds`. `ShownIsSavedHolds` looks at each way a page comes to
  report success (the answer itself, or a readback after a lost answer). The three
  theorems about saves carry the exception for erased generations that *Findings*
  describes.
* `DeletionLedgerProofs`. `SafeHolds` is the inductive invariant whatever happens:
  a recorded generation is not live in the database, nor in a dump
  (`Databases`), workers carry committed erasures only (`Queued`), one worker
  writes the file (`Locked`), and a server that answers has been reconciled with
  every line of it (`Reconciled`). `OnlyErasedVanishHolds` follows from what each
  action removes. `ErasedStaysErasedHolds` needs one of two reasons. Where the
  volume keeps its file, everything promised is flushed (`Flushed`): rows marked
  or about to be marked, also those of the last dump, and what students were told.
  Where no dump is restored, what students were told is still in the database
  (`OnRecord`). Hence its hypothesis `NoRestoreAfterLoss`: a file that was lost
  and a database put back to an older dump leave no copy at all.
  `PublishedIsKeptHolds` needs `Flushed` again or, where the file is lost or cut
  but no process dies and no append fails, `Rebuilt`: the file is described by its
  marker or the marker counts more lines than are left (`Described`), so that the
  gate refuses it until it is complete; a file that passes the gate or is being
  extended holds everything promised, one being rebuilt will. Its hypothesis
  `NoLossWhileInterrupted` excludes exactly the meeting of loss and interruption
  that run `ledger_rebuild` refutes. Every budget of run `deletion_ledger` meets
  both hypotheses.

### Only model-checked

`CapturedSettles`, `HeldIsReleased`, `EveryRowRests`, `EveryErasurePublished`:
liveness under fairness, and ENABLED, are out of the provers' reach. So is
induction over data, which is why no definition that is proved about is
recursive and sums are stated as cardinalities. The three properties of the runs
that end in a counterexample are false as they stand; the theorems above say
under which condition, or for which pages, they hold.

## Not modelled

* One-time codes: challenges with their attempts and cooldowns, sign-up on top
  of them, and the recovery mail outbox with its bounded retries.
* Payout changes: ambiguous answers of the provider, the reconciliation script.
* Of single sign-on: link hand-offs, onboarding of unlinked identities, sign-up
  by a provider, and the inside of a re-authentication ceremony.
* Of verification: identity-only mode, rate limits, evidence by e-mail,
  diagnostics and the read-only projections of assurance.
* Of the deletion ledger: loss of the initialized marker and the scripts
  operators run by hand.
* Reporting keys, support tickets, analytics, widget settings and other rows
  edited by one statement or one short transaction.

Pure reads, formatting, validation, rate limiting, mail contents, the other web
pages, the widget and the SDK keep no state of their own that these protocols
depend on.
