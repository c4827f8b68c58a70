# A TLA+ model of the B2B expense tracker

The repository is a Go service over PostgreSQL: organisations file expense
claims that managers approve and finance pays.  Around that it has sessions,
memberships and plan limits, receipts in an object store, notifications through
a task queue, recurring vendor charges, a relay that projects the organisation's
own subscription from a payment gateway, and streamed reports.  This directory
holds TLA+ modules translated from that code, the TLC configurations that check
them on small instances, and proofs, checked by TLAPS, that the main safety
properties hold for any number of members, claims, requests, tokens, events,
sweeps and faults.

## Inventory

| Part | State | Operations | Who interferes |
|---|---|---|---|
| Roles and authority (`domain/tenant`) | none | permission matrix, ceilings, department scope | - |
| Claim state machine (`domain/expense`) | one claim's row | six transitions, new, edit | - |
| Expense service (`expense_service.go`, `expense_repo.go`, `tx.go`, `00004`) | `expenses`, `expense_events`, row locks | Create, Update, Transition, Delete | other requests, membership changes, aborts |
| Membership and plan limits (`org_service.go`, `domain/billing`) | `users`, `memberships`, `departments`, the entitlement | InviteMember, UpdateMember, Create- and ArchiveDepartment | concurrent administrators, plan changes |
| Sessions (`auth_service.go`, `account_service.go`) | accounts, refresh-token families | register, login, switch, refresh, change password, purge | concurrent refreshes, replays, failures between statements |
| Attachments (`attachment_service.go`, `storage`) | rows and objects in two stores | presign, upload, confirm, delete | every move of the claim, overlapping confirmations and removals |
| Notifications (`worker/tasks.go`, `handlers.go`, `notify`) | tasks in Redis | enqueue, run, retry, archive | crashes around the commit, deduplication by task id |
| Billing relay (`billing_service.go`, `billing_repo.go`, `handler/billing.go`) | `billing_events`, `tenant_subscriptions`, the customer link | receive, apply, settle, sweep, reconcile, checkout | redelivery, reordering, crashes, overlapping sweeps |
| Recurring charges (`handlers.go`, `budget_repo.go`) | `vendor_subscriptions`, recurring claims | create, edit, claim a batch, materialise, advance | overlapping sweeps, edits, crashes |
| Reads (`scope.go`, `tx.go`, `page.go`, `report_service.go`, `00006`) | pooled connections and their settings, cursors, a stream | list, queue, export, system sweep | every write, role and plan changes, retries |

What makes the system hard is named, with its line, in the hazards of
`PROJECT.json`: requests interleaved between the statements of a READ COMMITTED
transaction, roles, counts and tokens that are stale when used, two stores
without a common transaction, an at-least-once unordered relay, crashes between
steps that belong together, sweeps that overlap, and deduplication that drops
what was not a duplicate.

## Modules

    Roles  <-  StateMachine  <-  ClaimRecord  <-  Expenses  <-  MCExpenses
                    |                                |
                    |                          ExpensesProofs
                    +------  Notifications   <-  MCNotifications, NotificationsProofs

    Roles, Entitlements  <-  Organisation  <-  MCOrganisation, OrganisationProofs
    Roles                <-  Reads         <-  MCReads, ReadsProofs

    SessionFamilies  <--(implements)--  Sessions  <-  MCSessions, SessionsProofs
    Attachments     <-  AttachmentsProofs
    BillingRelay    <-  BillingRelayProofs
    RecurringSweep  <-  MCRecurring, RecurringSweepProofs

**Roles** is the authority of `domain/tenant`: ranks, the permission matrix,
approval ceilings, department scope.  **Entitlements** is `domain/billing`: the
product matrix, when a subscription counts, and which limit follows.

**StateMachine** is `domain/expense` as pure operators.  The transitions table
is one function per column (`From`, `To`, `EventOf`, `actionPermission`) and one
set of actions per guard; `Applies` is `Apply` with `checkGuards`, `Moved` and
`MoveEvent` are `commit`.  A timestamp column is a Boolean, set or not.  The
text of a reason or a payment reference is blank, given or too long.

**ClaimRecord** is what the service promises: the committed row of a claim and
its committed ledger change together, one legal operation at a time.  It has no
transactions, locks or memberships.

**Expenses** is how the service keeps that promise.  A request is a transaction:

| Action | Code |
|---|---|
| `Begin` | `Scope.run`: open the transaction, resolve the actor, refuse an inactive one |
| `Insert` | `ExpenseService.Create`: the two INSERTs |
| `Load` | `GetForUpdate`: `SELECT ... FOR UPDATE NOWAIT` |
| `Write` | the domain call (`Attempts`), then `Save`, `UpdateDraft` or `DeleteDraft` with the compare-and-swap and the CHECKs (`Accepts`) |
| `Commit` | COMMIT; deleting a row cascades to its ledger |
| `Refuse` | every error return: permission, guard, validation, missing or locked row, failed CHECK |
| `Abort` | disconnect, timeout, death of the process: rollback |
| `UpdateMember` | another administrator's `UpdateMember`, one committed step |

The actor is the membership as `Begin` read it; `UpdateMember` may commit at any
time after.

**Organisation** takes the membership changes apart.  `InviteMember` is
`InviteLookup` (the user row, outside the transaction), `InviteCheck` (caller,
rank, seats) and `InviteCommit`; `UpdateMember` is `UpdateAdmit`,
`UpdateCompare` and `UpdateCommit`; `CreateDepartment` is `DepartmentCheck` and
`CreateDepartment`.  None of them locks what it read, so any other step may come
in between.  `byOwner` is history: whose role the founder set last.

**Sessions** is the account and session code, where every statement is its own
transaction.  A refresh is `RefreshFind`, `RefreshConsume` (the compare-and-swap
on `used_at`), `RefreshLoad` and `Issue`, or `RefreshRevoke`; `Fail` ends a
request anywhere and leaves what it did.  A family is named by its first token.
**SessionFamilies** is the promise behind it: a session is a baton, held by one
token or by one request exchanging it, and once dropped it stays dropped.

**Attachments** is one claim's receipts.  `ticket` is a signed PUT, `object` the
bucket, `row` the table; a content stands for its checksum, and `Reporting` are
the keys whose checksum the store reports.  `ConfirmUpload` is `Stat`,
`ConfirmLock` and `Confirm`: the row keeps the digest the request declares, which
`Stat` compares with the object's only if there is one to compare with.
`Delete` is `DeleteCheck`, `DeleteRow`, `DeleteCommit` and `RemoveObject`.  The
claim's `Transition` is `SubmitLock` and `SubmitCommit`, `Withdraw`, `Reject`
and `Revise` (pending, approved and paid are one status here), its `Delete` is
`Discard`.  `evidence`, `leaving` and `raced` are history: the rows of the last
submission, the removals executed by then, and the keys of which a confirmation
and a removal overlapped.

**Notifications** follows one claim from `Decide` and `Commit` to the enqueues
that `notify` makes after the commit, and each task through the queue: a task is
identified by what it is about, an id that exists in any state swallows a new
enqueue, an active task reads the database once and then sends, a failed
attempt is retried or archived, and a task about a claim that has been
discarded (`Discard`) ends without a message (`Skip`).  The approvals of other
claims only move the budget.  `owed` and `missed` are history: the last commit nobody has been told
of, and the calls that came to nothing.

**BillingRelay** is one tenant's subscription.  Receivers and sweeps are workers
that claim, apply and settle a delivery in separate steps; `line` is the order
of `received_at` in which `ReclaimStuckBillingEvents` finds rows.  The state of
the subscription is the number of the event that produced it.  The gateway and
the clock are external: it emits events, may redeliver or not, and two readings
of the clock may be equal.  A row a receiver has in hand is not stale, because
`RelayStaleAfter` (5 minutes) exceeds the route's timeout (25 seconds unless
`HTTP_RELAY_TIMEOUT` says otherwise).

**RecurringSweep** is the nightly sweep.  A date is counted in cadences.  A
batch is read in one step (its row locks end with it) and each charge is
written in a later one, from the batch's copy of the row.  Subscriptions are
created and edited meanwhile, in two steps each: `CreateVendorSubscription` and
`UpdateVendorSubscription` are the checks, on a row read without a lock and on
the day as it is then; `Insert` and `Save` are the statements that write, with no
condition on either.  An edit carries the whole row, so it sets the date as well
as the status.  `since` and `behind` are history: the date a person last gave,
and the charges somebody asked for when a sweep had a later one of the same
subscription in hand.

**Reads** is every read path over a pool of connections: `Acquire`,
`bindSession`, `ResolveActor`, the query, `Commit` or a failure, with the retry
of `runTx`.  `List` and `PendingQueue` are walked by a client page by page, with
the cursor as the token carries it; the export takes its snapshot at
`bindSession`, checks, sends its headers (`began`) and then streams row by row.
A failure that `runTx` retries may come from any statement; the work then starts
again, with the rows of a download that are out still out and counted, which
`resent` records.  What other requests commit is one step each.  A claim's date
and department are constants (`Filed`): the one request that would change them
is the edit of a draft, and the run `edit` shows that it never succeeds.

Operators marked *Seeded fault* are small changes to the operator below them, of
the kind a slip in the code would make.  Each property is known to fail when
its fault takes the operator's place.

## Runs

| Run | Shows | Result |
|---|---|---|
| `claims` (`MCExpenses.cfg`) | ten properties of the expense service | holds |
| `edit` (`MCExpensesEdit.cfg`) | `EditPersists`: an edit of a draft is refused by the schema | violated |
| `relay` (`MCBillingRelay.cfg`) | five properties of the relay | holds |
| `relay_ack` (`MCBillingRelayAck.cfg`) | `AcknowledgedIsDone`: a failed event is acknowledged when it is redelivered | violated |
| `recurring` (`MCRecurring.cfg`) | three properties of the sweep | holds |
| `recurring_overlap` (`MCRecurringOverlap.cfg`) | `LastGeneratedIsTrue`: two sweeps mark a charge as generated that is not | violated |
| `sessions` (`MCSessions.cfg`) | one credential per session, and the refinement of the baton | holds |
| `attachments` (`MCAttachments.cfg`) | evidence stands, receipts have objects | holds |
| `organisation` (`MCOrganisation.cfg`) | who is owner, who makes admins, how far a limit is overrun | holds |
| `notifications` (`MCNotifications.cfg`) | six properties of the path from commit to message | holds |
| `reads` (`MCReads.cfg`) | five properties of pooled, paged and streamed reads | holds |
| `queue` (`MCReadsQueue.cfg`) | `QueueNeverRepeats`: the approval queue returns a claim twice | violated |

A violated run checks one sentence of the repository's own comments or
documentation, quoted above the property and in the findings of `PROJECT.json`.

**claims.**  `LedgerTellsTheClaim`: the ledger leads to the row.
`OneDecisionPerRevision`: a revision is approved or
rejected at most once.  `SeparationOfDuties`: behind every payment is an
approval of the same revision and amount, by three different people in all.
`DeciderIsInLedger`.  `LockProtectsTheRead`: nothing changes between a load and
its commit.  `TransitionsMeetConstraints`: the domain never hands the database a
row it refuses.  `SettledIsFinal`: from
approved a claim moves only to paid, unchanged, and then no more.  `ClaimSpec`: the transactions implement the
abstract record.  `RequestsEnd`: a request in flight is answered.
Bounds: one claim (claims do not interact), two requests at once, three members
of whom two can be moved from manager to finance, one amount at the manager's
ceiling, versions up to 7, which holds a rejection, a revision, a second
approval and its payment.

**relay.**  `SucceededIsReflected`: the out-of-order guard holds across
receivers, sweeps and reconciliation.  `SettledOnce`: a settled delivery is not
settled again.  `ClaimedIsSettled`: no
crash loses a claimed delivery.  `Converges`: once the tenant is
linked and the gateway stops changing, the projection shows its state for good.  Bounds: two events, one receiver, two
sweeps, two clock readings (so timestamps may tie), two attempts, one fault
anywhere.  Deadlock is not checked: with everything delivered and settled the
service is rightly idle.

**recurring.**  `EveryChargeFiled`: no charge is early, and none is skipped but
for one gap.  An edit that asks for a date while a sweep has a later charge of
the subscription in hand has its date passed over when that sweep advances the
row.  Such a date has passed by the time it is written: the edit was checked on
the last day for it, or the row it was checked against has been advanced since.
`DueIsFiled`: no charge stays due.  Bounds: an ordinary subscription created on
the way, one without an owner and one whose draft never validates; two sweeps,
one editor, batches of two, two days, one edit, one fault.  `DueIsFiled` needs fewer
never-valid charges than a batch holds: with a full batch of them the loop of
`HandleRecurringSweep` reads the same batch for ever, and the property fails.
Such a charge exists: a vendor name is limited to 200 characters and a claim's
merchant to 200 bytes.

**recurring_overlap.**  Overlap is possible: the scheduler's `Unique` lease ends
after an hour, a sweep started with `-task` is deduplicated by another key,
and Asynq retries a task whose worker lost its lease.  A single sweep with an edit
between its batch and its write break `LastGeneratedIsTrue` as well.

**sessions.**  `OneCredentialPerSession`: never two unspent tokens of a session,
nor one beside a request still to hand one out.  `SessionsAreBatons`: the
refinement, which adds that a session that is over is not revived.  A request
that has won the exchange issues its token even if the family is revoked
meanwhile; the abstract specification says so.  Bounds: one user (sessions of
two users share nothing), an organisation to found and one to be invited to,
three tokens, which is a session renewed twice or two sessions, two requests.

**attachments.**  `EvidenceIsFixed`: the receipts of a claim that is submitted
or rejected are the ones it was submitted with; the one gap, a removal whose
DELETE had run when the submission committed, is part of the statement.
`ReceiptsHaveObjects`: a receipt has its object, unless its key was confirmed
again while a removal of it was under way; no oversized file is a receipt; and
where the store reports checksums the object is what the row says.  Where it
reports none it need not be: the row has what the client declared.
Bounds: two keys, one of them with its checksum reported, two contents and an oversized one, two requests, one
attachment per claim, so that the limit is met.  Deadlock is not checked: a
deleted claim with nothing in flight is the end.

**organisation.**  `OwnerStands`: the founder is the one owner, and active.
`AdminsComeFromTheOwner`: no request overtaken by role changes makes an admin.
`DepartmentsNearLimit`: a limit is overrun by at most the other requests in
flight.  That is what `enforceLimit` really gives: its
comment says that two creates cannot both see room for the last place, and at
READ COMMITTED they can.  Bounds: three people, two requests, the roles owner,
admin and member, two subscriptions beside the free plan with limits of one and
five departments.  The code's own product matrix is used.

**notifications.**  `WorkersSeeTheTransition`: a worker reads what its task is
about.  `NothingForgotten`: what is neither told nor under way was missed for
one of four reasons: lost with its request, dropped as a duplicate, out of
retries, or the claim was gone.  `DecidersAreTold`: the recipients query agrees with the
guards.  `BreachIsAlerted`: a department that reaches its line is alerted about,
unless a check of it was missed.  It says nothing of the tenant-wide envelope,
which the check after a department's claim skips.  `TasksEnd`: no task is at work
for ever.  Bounds: a team of eight with every kind of approver, three moves of the claim, one other approval's department, two
requests, one retry, three commits, one lost request.  Deadlock is not checked:
with everything told the system is idle.

**reads.**  `PooledIsUnbound`: no connection in the pool carries a tenant, and
one at work carries its request's.  `WalkIsExact`: a walk of the list returns
nothing twice and misses nothing that was there throughout.
`ListedIsReadable`: list and single read agree on who may see what.
`CompleteFileIsOneInstant`: a download that ended well is the whole report as of
one instant, unless its transaction was run again after rows were sent; then
the rows of the second run follow those of the first.  Bounds: two tenants, a manager who is moved to
finance or suspended, four claims, three of one day, pages of one row,
one connection for two clients, two attempts, two commits by others.

**queue.**  The queue seeks forward on `submitted_at`, which has a fraction of a
second, with a cursor that has none; the list seeks on a date and is not
affected.

### Fairness

`Expenses`: a request in flight goes on (`WF` of its next statement); nothing is
assumed of new requests, aborts or membership changes.  `BillingRelay`: a
running worker goes on, the relay sweep (every ten minutes) and the nightly
reconciliation keep being scheduled; nothing is assumed of the gateway, which
may never redeliver.  `RecurringSweep`: the sweep is scheduled every night and a
running one goes on.  `Notifications`: a request that has decided goes on or
dies, and a worker takes, reads and ends a task, by its timeout if need be;
nothing is assumed of new requests or of the end of a retention.  Faults are
bounded, or bounded by the retries, so after the last one a running process is
left alone.

## Proofs

All theorems hold for every value of the constants that meets the named
assumptions: amounts are positive, `NULL` is no identifier, the initial
memberships are keyed by their ids, subscriptions, requests and claims are
finitely many where they are counted or sorted, limits are what the product
matrix gives, a claim's date is a whole second.

| Theorem | States |
|---|---|
| `ClaimInvariance`, `ClaimSafety`, `ClaimSettledIsFinal` | the abstract record keeps `LedgerTellsTheClaim`, `OneDecisionPerRevision`, `SeparationOfDuties`, `DeciderIsInLedger`, `SettledIsFinal` |
| `ExpensesInvariance`, `ConstraintsMet` | `TypeOK`, `LockProtectsTheRead`, `TransitionsMeetConstraints` |
| `ImplementsClaimRecord` | `Spec => ClaimSpec` |
| `ExpensesSafety`, `ExpensesSettledIsFinal` | the properties of the abstract record, for the service |
| `RelaySafety`, `RelaySettledOnce` | `RelayTypeOK`, `SucceededIsReflected`, `SettledOnce` |
| `RecurringSafety` | `RecurringTypeOK`, `EveryChargeFiled` |
| `SessionsSafety`, `SessionsRefineFamilies` | `SessionsTypeOK`, `OneCredentialPerSession`, `SessionsAreBatons` |
| `FounderStands`, `OnlyTheOwnerMakesAdmins`, `DepartmentOverrun` | `OrganisationTypeOK`, `OwnerStands`, `AdminsComeFromTheOwner`, `DepartmentsNearLimit` |
| `EvidenceStands`, `StoresAgree` | `AttachmentsTypeOK`, `EvidenceIsFixed`, `ReceiptsHaveObjects` |
| `WorkersAreCurrent`, `CallsAreKept`, `RecipientsDecide` | `NotificationsTypeOK`, `WorkersSeeTheTransition`, `NothingForgotten`, `DecidersAreTold` |
| `ReadsInvariance`, `PooledStaysUnbound`, `WalksAreExact`, `ListedStaysReadable`, `FilesAreSnapshots` | `ReadsTypeOK`, `PooledIsUnbound`, `WalkIsExact`, `ListedIsReadable`, `CompleteFileIsOneInstant` |

*Claims.*  `SeparationOfDuties` speaks of the ledger, and pay's guard reads the
row, so it is not inductive by itself.  `ClaimInv` adds, per claim, `History`:
an approved or rejected row names the actor of the last event as its decider;
a payment is the last event and follows the approval of its revision; an
undecided row has a revision above every decision.  The service inherits all of
it: `ExpensesInv` says that what a request has written is the result of a legal
operation on the row it read, and that the lock keeps that row the committed
one, so a `Commit` is a step of `ClaimRecord` and every other action leaves the
record alone.

*Relay.*  `RelayInv` adds that a worker about to settle an event as succeeded
has it in the projection already, and that whatever is in a worker's hands, a
sweep's batch or the line is in the ledger.  The projection's timestamp never
goes back, because `Upserted` is guarded by `Fresh`.

*Recurring.*  `RecurringInv` adds that a charge in a sweep's hands, however
stale, was due and has all charges from `since` on before it filed or in
`behind`.  An edit is checked against one row and written over another, so its
date may lie before charges a sweep holds; those it is written behind are
`behind` from then on (`OvertakenProperties`), and each lies before a charge
that was due, hence before today.  Nothing is assumed of what is in a request's
hands but its type.

*Sessions.*  `SessionsInv` adds what a request knows of the token it presented:
if its row is still there it is of the family the request remembers, and every
family is named by a token already handed out, so `Issue` never revives one.
For the refinement each action is shown to be `Start`, `Exchange`, `Renew`,
`Lose`, `End` or no step of the batons.

*Organisation.*  The properties speak of memberships, and what endangers them is
a request that compared roles and has not written.  `OrganisationInv` adds, per
request, what its position has established and nobody can undo: its caller
outranks the role it will write, and its target is not the founder.  For the
limit, every request past the count is counted as if it had inserted.

*Attachments.*  `AttachmentsInv` adds that a key is drawn once, so only one
content is ever uploaded under it; that what is or can still be uploaded under
the key of a row, or of a request that has looked at it, is as it was looked at
(`Vouched`); that a request about to delete an object has no row and no
confirmation of it beside it unless the key is in `raced`; and that whoever
works on the claim's row holds its lock, which makes the claim a draft.

*Notifications.*  `NothingForgotten` speaks of quiet ids only.
`NotificationsInv` says of every id what `Accounted` says: a commit nobody has
been told of is missed, still to be enqueued, to be read by a task that has not
read, or read already by the one at work.  `RecipientsDecide` rests on
`ApproverRoles`: the roles the query lists are those the matrix lets approve.

*Reads.*  Two arguments meet.  The first is about the queries, without any
behaviour.  `Sorted` puts at position `i` the row with `i - 1` rows before it;
that there is one, and only one, follows from counting (`Ranks`: the ranks of
`n` rows are `n` different numbers below `n`), so the result lists each row
once, in order (`RankedSequence`).  No induction over the sequence is needed.  `ListPage` is what a page then
says: its rows lie beyond the cursor, every row found beyond the cursor is on
it or beyond its own, and `Encode` loses nothing of a date.  The second is
`ReadsInv`: a request past `Acquire` holds one connection and no other does,
with nothing set before `bindSession` and its own tenant after it (`ConnsOK`);
the claims a walk has seen lie before its cursor, and those there from the
first page on are seen or ahead (`WalkOK`); a page in a request's hands is a
page of what its actor may see (`PageOK`); what a report has sent, followed by
what is left, is the query on its snapshot, within the limit, unless it was
`resent` (`ReportOK`).
`CompleteFileIsOneInstant` follows from `ReportOK` and what the sorted query
returns, the other four from the part of `ReadsInv` about them.

Only model-checked: the liveness properties (`RequestsEnd`, `ClaimedIsSettled`,
`Converges`, `DueIsFiled`, `BreachIsAlerted`, `TasksEnd`), which the proof
system does not reach; and the violated properties, which are about what the
code does not do.

## Where the code and its comments differ

Beside the four violated runs, the models have behaviours that a comment of the
repository rules out, and for which there is no run:

- Rejecting, revising and deleting a claim deletes its ledger with it
  (`ClaimRecord`), though `00001_bootstrap.sql:120-121` says that "nothing
  reachable from an HTTP request can delete an audit row".
- At READ COMMITTED a role change can commit between `ResolveActor` and the load
  of the claim (`Expenses`), though `scope.go:86-88` says that both come "from a
  single snapshot".  `SeparationOfDuties` holds nonetheless.
- After a lost customer link the subscription's events are skipped as those of
  an unknown tenant and the link stays lost (`LinkLost` in `BillingRelay`),
  though `billing_service.go:108-110` says it "is recovered when the
  subscription arrives".
- A notification lost between the commit and the enqueue stays lost
  (`Notifications`), though `expense_service.go:181-185` says that "the
  reconciliation sweep catches it": no sweep looks for it.
- A completed transition task keeps its id for an hour, and a second submission
  of the claim within it is not announced; the comment at `tasks.go:122`
  speaks of a minute.
- Two concurrent creates can both take the last place under a plan's limit
  (`Organisation`), see above.
- The row of a receipt can outlive its object (`Attachments`): a removal
  deletes the object after its row, and a confirmation of the same key that
  overlaps it inserts the row anew; `attachment_service.go:272` calls that the
  worse failure.
- A claim without a department is announced to managers of departments, who may
  not decide it; `DecidersAreTold` says so by its condition on the department.

## Limits of the model

Except in `Reads` there is one tenant, and the organisation is active: no code
changes `tenants.status`.  The clocks of the API processes agree, so the two
CHECKs on the order of timestamps are not modelled.  In `Expenses` and `Reads`
an `UpdateMember` is one step; `Organisation` takes it apart.  A filed recurring
draft is not discarded.  The recurring sweep's `SKIP LOCKED` (a row another
transaction has at that moment is left for the next batch) is left out, as are
validation of text and message wording.  Access tokens do not expire in
`Sessions`.  In `Notifications` every claim costs one unit and memberships stand
still; an edit of a budget never enqueues a check, so budgets are constants.  In
`Reads` a statement timeout (15 seconds) is one of the failures that may come at
any step, and a retryable failure may too, though PostgreSQL has few reasons to
report one of a read-only transaction.  In `Attachments` a key's checksum is
either always reported or never.

## Not modelled

- **Money**: 64-bit arithmetic with overflow checks and parsing, pure functions
  of two numbers.
- **Calendar**: `NextChargeDate` is Go's `AddDate`; January 31st plus a month is
  March 3rd, which the models do not see because they count in cadences.
- **Budgets' own operations, `UpdateProfile`, `UpdateOrganisation`**: one
  statement each, except that `UpdateOrganisation` counts claims before it
  changes the currency, a window the hazards list.
- **The gateway client's retries**: the idempotency key of a checkout contains
  the minute and is computed per attempt; what that costs is decided by the
  gateway, which is not in this repository.
- **Encoders, HTTP transport, rate limiter, configuration, start-up, seeding,
  web client**: formatting, wiring and decoding around the operations above.
