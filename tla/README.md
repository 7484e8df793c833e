# Assembly Concierge backend: a TLA+ model

TLA+ modules, TLC configurations and TLAPS proofs for the Assembly Concierge
backend: an Express service that takes bookings for assembly work, collects
payment through Stripe, dispatches contractors by text message, gathers
completion photos, and mirrors its jobs to Airtable. PostgreSQL holds the
state; every request handler, webhook and queue worker reads and writes it
concurrently, and most of what can go wrong here goes wrong *between* two
queries of one handler.

Paths below are relative to `src/modules/` of the repository unless they start
with `README` or `db/`.

## 1. The system

### 1.1 Components, their state and their operations

| component | state it keeps | operations |
|---|---|---|
| **Job state machine** `jobs/job.stateMachine.ts` | none (a table of transitions) | `canTransition`, `assertTransition` |
| **Dispatch** `dispatch/`, parts of `jobs/jobs.routes.ts` | `jobs.status`, schedule columns, `dispatches`, `contractor_assignments` | approve-dispatch, dispatch, cancel-assignment, cancel, mark-complete, schedule conflict check |
| **Contractor SMS** `sms/sms.service.ts` | the same tables, `customer_otw_text_*` | CONFIRM, DECLINE, OTW, DONE/FINISH from the SMS webhook; texts to the customer |
| **Contractor administration** `admin/admin.routes.ts` | `contractors.is_active`, onboarding status | activate, deactivate, patch, dashboards |
| **Payments** `payments/` | `payments`, `payment_events`, `jobs.status`, `jobs.remainder_amount_cents` | checkout session of three types, four Stripe events |
| **Completion approval, recalculation** `jobs/jobs.routes.ts` | `jobs` | approve-completion with its photo and payment gate and its background checkout, recalculate |
| **Completion photos** `public-booking/contractorCompletion.routes.ts`, `storage/s3.service.ts` | `uploaded_media`, the bucket | presign, confirm, cancel-reservation, cleanup |
| **Airtable mirror** `airtable-sync/` | `jobs.airtable_record_id`, the BullMQ queue, rows in Airtable | enqueue, sync attempt, retry, error mirror |
| **Customer texts, payment links** `sms/sms.service.ts`, `notifications/paymentLink.sms.ts` | sent-at and status columns of `jobs` | the link: claim, send, write; the news: look, send, write |
| **Public booking, intake** `public-booking/publicBooking.routes.ts`, `intake/` | `intake_submissions`, `jobs`, `customers` | Jotform webhook, instant booking, review request, processing into a job |
| **Intake photos** `public-booking/photos.routes.ts` | `uploaded_media`, the bucket | presign, confirm |
| **Onboarding** `onboarding/onboarding.service.ts` | `contractor_onboarding_documents`, Google Drive folders, receipts in Airtable | receive, find the folder, upload, merge with the earlier rows, store, mirror, unlock the follow-up |
| **Missing documents** `onboarding/missingDocuments.*` | `contractor_missing_document_submissions`, files in Google Drive, fields in Airtable | reserve, file, update Airtable, tell the operator, resume |
| **E-mail events** `email/` | `email_events` | reserve, reset for a forced resend, send, mark, delete |
| **Pricing** `pricing/pricing.service.ts` | none | prices, deposit, remainder, rush fee |

Pure formatting, the audit log (nothing reads it back), signature checks,
middleware and migrations carry no behaviour of this kind; `PROJECT.json` lists
them with the reason each is left out.

### 1.2 How they interact

- Almost everything meets in the row of a job. `job.stateMachine.ts` says which
  status changes are legal, and each caller asserts it on the status *it* read.
- `dispatch`, `cancel-assignment` and `cancel` take the job row `FOR UPDATE`
  before they read; `approve-dispatch`, `mark-complete`, `approve-completion`,
  `recalculate`, the SMS webhook and the Stripe webhook do not, and write by
  primary key later.
- Stripe and the text gateway call in: at any time, more than once, in any
  order. The Stripe webhook answers 200 before it processes
  (`payments/stripe.webhook.ts:65`), so a lost event does not come back.
- Calls out (Stripe, text gateway, bucket, Airtable, mail) happen after the
  commit and outside its transaction; a crash or a failure can leave one side
  done and the other not.
- Syncs to Airtable are tasks for a worker that runs three at a time, retried up
  to five times if Redis is there, tried once in the process if not.

### 1.3 What is hard, and what makes each component correct

| component | hard behaviour | correct when |
|---|---|---|
| Dispatch and SMS | unlocked read, later write; two operators; text sent after commit | one contractor at most holds a job, the job row agrees with its holder, nobody is booked twice, released is released, status moves along the table |
| Payments | repeated, reordered, lost events; three handlers on one job row | no work without a charge, no closing with a remainder owed, the three tables agree, paid prices stay |
| Completion photos | two requests count at once; expiry; cleanup without lock; approvals and stale status writes in between | limit holds for accepted and promised photos, accepted photos stay, approval needs one, and an approved job is opened again by nothing but a command that was read in time |
| Airtable mirror | retries, two workers on one job, duplicate creation, lost answers, restarts, photos that could not be read | retries heal what they write, rows do not go back, one row per job, every accepted task ends |
| Customer texts | the news is sent after a look and recorded afterwards; a text whose news is lost | the payment link that is claimed (`notifications/paymentLink.sms.ts`) is texted once whatever happens, the news once unless two commands meet or a record is lost |
| Booking and intake | capacity counted before the insert; repeated submission; processing after the 202 | a booking fits unless another job came into the window since it counted; one job per submission |
| Intake photos | the limit is counted without a lock | the excess stays below the number of requests at once |
| Missing documents | repeated deliveries, claims that lapse under their holder, partial failure and resume | one delivery files and one tells, nothing is called received that is not filed, a decision of the operator stays |
| Onboarding | receipts read before minutes of uploads and written after; partial failure | nothing is called received that is neither filed nor answered, receipts are not taken back and no follow-up is unlocked early by a delivery that was alone |
| E-mail events | requests at once, forced resends, deletion under a sender, lost answers | one message per row without a forced resend, the row says what happened |
| Pricing | caps and roundings | parts add up to the whole, nothing negative |

`PROJECT.json` (`hazards`) has each of these at its line of code, with the
properties that cover it or the reason none does yet.

## 2. Modules and how they correspond to the code

`JobStateMachine` is the table. Each component below is modelled on its own.
Three abstract specifications say what a component promises: `AssignmentBook`,
which `Dispatch` implements, `PhotoAlbum`, which `CompletionPhotos` implements, and
`JobLifecycle`, which `Dispatch` and `Payments` implement: it is their common ground,
the column `jobs.status`. The proofs about a component are in the module named after
it with `Proofs`; `OnboardingProofs` is about `Onboarding` and `EmailEvents`,
`CustomerProofs` about `Booking`, `IntakePhotos`, `CustomerTexts` and `Pricing`,
`RecordsProofs` about the composition `MCRecords`.

*History variables.* Where the code leaves out a lock, two handlers that meet can
do what either alone cannot. A variable without counterpart in the code records
that they have met (`overtaken`, `lapsed`, `caught`, `overlapped`, `overlapping`,
`crowded`, `muddled`, `doubtful`), and the property holds of everything it does not name.
Each is set in the step in which the code steps over the missing lock, or in
which time passes or a person decides without it (`lapsed`, `caught`), or in which
an answer is lost or a failure swallowed (`muddled`, `doubtful`, `unlinked`, `unseen`).
Each property has a mutant that breaks it while its variable excuses nothing. What
happens to the excused is not covered by that property: it is a hazard whose note
says so, or, where a comment denies it, a run that expects a violation.

### JobStateMachine
`JobStatus`, `Transitions`, `CanTransition`: `job.stateMachine.ts` line by line.

### Dispatch
*State.* `jobStatus`, `scheduled`, `isActive` are columns; a `Row` is the pair of
a `dispatches` and a `contractor_assignments` row that one transaction inserts
(`dispatches`, `assignments`, `rowJob`, `rowContractor`). `texting` are the
commits whose text is on its way; `smsRead` and `adminRead` are the requests
between their unlocked read and their write. A job starts before it is paid.

*Actions.* The three endpoints that lock first are one atomic action each. The
others are a read action, which remembers what it decided, and a write action,
which applies it by primary key to whatever the rows have become. The result of
the dispatch text arrives later (`DispatchTextSent`, `DispatchTextFailed`) or,
after a crash, never. The webhook and approve-completion move the same jobs, as
`JobSettles` says: `PaymentRead`, then `PaymentWrite` or `PaymentEnds`
(`settling`).

*History.* `overtaken` collects the jobs that a write hit when the rows were no
longer those its handler had read. This is exactly what the missing lock costs:
the safety properties hold of every job outside it, in every interleaving, and
the runs `dispatch_cancelled` and `dispatch_backtoready` show what it does and
what goes wrong even without it. That `overtaken` does not excuse too much is
what the mutants show: each breaks its property on a job that is not in it.

### AssignmentBook
What dispatch promises, without rows, locks, requests or texts: a line per job
with its phase (open, offered, held, done, cancelled, astray) and its holder.
An offer goes to an open job only, and only to a contractor who holds nothing
that clashes with it. `Dispatch` implements it (`KeepsTheBook`): `PhaseOf` reads
the phase off the status once the job is over and off the assignment rows before
that, so `deposit_paid`, `ready_for_dispatch` and a declined offer are all
"open", and an approval is no step at all; `HolderOf` is the contractor of the
active row. A job in `overtaken` is astray.

| code | entry in the book |
|---|---|
| dispatch | `Offer` |
| CONFIRM | `Accept` |
| DECLINE, cancel-assignment | `Release` |
| DONE, mark-complete | `Finish` |
| the webhook closing a job whose deposit is paid before it is dispatched | `Close` |
| cancel | `Cancel` |
| any write on rows that changed since they were read | `GoAstray` |

### JobLifecycle
What the handlers of `Dispatch` and of `Payments` do to `jobs.status`, with neither
the rows of the one nor those of the other. `JobRow` is the column. `JobMoves` is
the half of dispatch: a move along one of `DispatchEdges`, in one step (`Move`,
which also cancels) or as the two steps of a request that reads without a lock,
`MoveRead` and `MoveWrite`. `JobSettles` is the half of payments: `SettleRead` when
one of the seven `SettleEdges` starts at the status, then `SettleWrite` along such an
edge, or `SettleEnds`. Both write by primary key, whatever the job has become.
`MovesLost` and `SettlesLost` are a crash, which ends both.

Each component has its own half from the code and takes the other from here:
`Dispatch` extends `JobSettles`, `Payments` extends `JobMoves`. And each implements
the whole (`KeepsToItsMoves`, `SettlesAsPromised`), so that what one assumes of the
other is what the other does. `Moving` are the `adminRead` and `smsRead` requests of
`Dispatch`, each with the status it saw and the one it will store (OTW stores none);
`Settling` are the `approvals` of `Payments` and those of its `webhooks` that have
read a status they are going to move.

| code | in JobLifecycle |
|---|---|
| dispatch, cancel-assignment, cancel | `Move` |
| approve-dispatch, mark-complete | `MoveRead`, then `MoveWrite` |
| CONFIRM, DECLINE, DONE | `MoveRead`, then `MoveWrite` |
| a completed checkout that moves its job | `SettleRead`, then `SettleWrite`; `SettleEnds` if it fails |
| approve-completion | `SettleRead`, then `SettleWrite` |
| a completed checkout whose move is skipped, every other event, everything else | no step |

`JobSettles` asks for no charge: in `Dispatch` a job may be paid without a
customer who pays. That only adds behaviours. That there is a charge is
`PaidBeforeDispatch` and `ClosedIsPaid` of `Payments`.

### Payments
*State.* `payStatus`, `payJob`, `payType` are columns of `payments`, `recorded`
is `payment_events`, `remainder` says whether `remainder_amount_cents > 0`.
`charged` and `outbox` are Stripe's: who was charged, which events have still to
be delivered. `webhooks`, `approvals`, `recalcs`, `autoCheckout` are requests and
background work in progress.

*Actions.* `StripeEventReceived` answers 200 and passes the idempotency look-up;
the processing that follows is one commit, except that `CheckoutJobRead` reads
the job in a query of its own. `StripeEventFailed` and `Crash` lose it.
`approve-completion` is read, decide, write, and then the checkout of the
remainder in the background. Dispatch moves the same job as `JobMoves` says: in one
step where the job row is locked (`DispatchMoves`, cancellation too), and as
`DispatchRead` and `DispatchWrite` (`moving`) where it is not. Such a write goes by primary key like the others: a
text message's DONE may overwrite what the webhook has stored since, and the
other way round; either puts the job in `overtaken`.

### CompletionPhotos
*State.* One job, since every query is limited to one. A storage key moves
through `pending` (reserved, younger than ten minutes), `stale`, `confirmed`, and
leaves through `removing`; `inBucket` is the bucket. A presigned URL lives five
minutes, less than the reservation, but an upload that has begun may end later:
`PutObject` allows it for every issued key, at any time.

*Actions.* `presign` and `confirm` hold the job row from `PresignBegin` /
`ConfirmBegin` to their end (`resolveCompletionTokenForUpdate`, `FOR UPDATE OF
j`). The cleanup takes no lock and deletes rows first, objects after.
An approval is three steps: `ApproveRead` looks at the status, `ApproveCount` at the
photos, and `ApproveWrite` waits for the row lock. Whoever else writes the job's status
does it by id after an unlocked read too (`StatusRead`, `StatusWrite`): the text
messages (`sms/sms.service.ts:371`), the Stripe webhook
(`payments/stripe.webhook.ts:191`), approve-dispatch and cancellations. `Leads` says
where the read must find the job; the write happens wherever it is by then, so that
of two DONEs the second may land after an approval and open the job for photos again.
`ReservationExpires` is the clock.

### PhotoAlbum
What the completion photos promise, without rows, locks, URLs and cleanups: an
album that takes photos while the job is reported complete, has room for the sets in
`Fitting` (those of at most `MaxPerJob` photos), never gives back a photo, and is
approved with a photo in it or for a stated reason. Its `phase` is the job's status,
and `moves` the writes of it that have been begun and may land at any time, each
begun in a phase `Leads` allows. `CompletionPhotos` implements it (`KeepsTheAlbum`):
`reserved` are its `pending` keys, `lapsed` the `stale` ones, `accepted` the
`confirmed`, and `kept` those of them whose object is in the bucket. Three things
follow from it: a photo is never lost once it has been accepted, whatever cleanup is
at work; none is accepted unless the job is reported complete at that moment; and a
job that has been approved or ended is reported complete again only by a DONE that had
read it before. That an approval is the end of it does *not* follow, and is false of
the code. A job the webhook closes is not asked for a photo or a reason.

| code | in the album |
|---|---|
| DONE, the webhook, a cancellation reads the job | `BeginMove` |
| its UPDATE of the status | `LandMove` |
| approve-completion reads the job; its UPDATE | `BeginMove`; `Approve` |
| any of them is refused or lost | `DropMove` |
| presign's insert | `Reserve` |
| expiry after ten minutes | `Lapse` |
| cancel-reservation; presign or confirm that gives its rows up | `GiveUp` |
| confirm's commit | `AcceptBatch` |
| an upload that ends late | `Arrive` |
| deletion of objects, requests, counts, locks | no step |

### AirtableSync
*State.* One job. `version` counts its committed changes; a `sync` is asked for
per version and goes none, owed, waiting, running, done, failed or lost.
`running` are the attempts with the snapshot each has read, `linked` is
`jobs.airtable_record_id`, `created` and `shown` are the rows in Airtable with
the version each group of fields shows, and whether an error is shown. The groups are
what is written together: `status`, `details` (the amounts and the count of the intake
photos, which POST and PATCH both take from the job), `photos` (count, flag and link of
the completion photos), `contractor` (the link).

*Actions.* An attempt is the steps of `processSyncJob` at its awaits: the query of
the completion photos, POST or PATCH, store the link, second PATCH for the contractor;
in the `catch` block a second read and a PATCH with the error. Each call may fail, or
work and lose its answer. A failure of the photo query is swallowed
(`airtable-sync/airtableSync.queue.ts:438`): the attempt goes on without them, its PATCH
leaves their fields as they are, and the sync ends done; `unseen` holds such syncs.
`AttemptFailed` is the retry of the queue. `Crash` drops what is in the process: all
of it without Redis, the attempts and the syncs not yet enqueued with it.
`recalculate` changes the job and asks for no sync (`JobChangesUnsynced`).

*Abstraction.* Optional fields that have no value are not sent, so a value that
disappears from the job stays in the row; "shows version v" means that the fields
of that version were written. Two kinds of fields are left out, and nothing is claimed of
them: those only the POST fills (customer, address, the price's parts, appointment;
and the dispatch status, which the POST sets to a constant), and the attachments of
the completion photos, where a photo that could not be presigned is missing. Airtable
is taken to be configured.

### MissingDocuments
*State.* One submission: the identity checks before the reservation leave one row
and nothing shared with others. `processing`, `filesDone`, `results`, `synced`,
`notification` are its columns; `fresh` says which of the two claims is younger
than 15 minutes. `drive`, `received`, `review`, `mailed` are outside: the files in
Google Drive, the receipt fields and the review status in Airtable, the message.
`request` is where each delivery of the submission stands, at the awaits of
`processMissingDocumentsSubmission` and `processFiles`, and what it has in hand.

*Actions.* One per query or call, in the code's order: `ReserveSubmission`,
`ClaimFileProcessing` (or refused, then `RereadSubmission`), `UploadDocument` for
each document, `MarkFilesProcessed`; `ReadStatuses`, `PatchContractor`,
`MarkAirtableSynced`; `ClaimNotification`, `SendNotification`,
`CompleteNotification`. `FilesFail`, `AirtableFails` and `NotificationFails` are
the `catch` blocks, `RequestLost` an error outside of them. Every call may fail,
or work and lose its answer. Jotform may deliver at any time (`ReserveSubmission`
of an idle handler). `ClaimLapses` is the clock.

*History.* `lapsed` holds the claims that grew old while a delivery was still at
work under them, which is when the code lets two deliveries do the same thing;
`caught` the deliveries between GET and PATCH when the operator decided, which
the code accepts (`onboarding/missingDocuments.service.ts:416`). A claim whose
delivery has died lapses without being recorded, so that the properties hold of
every takeover after a crash.

*Abstraction.* A `Document` is one that has a receipt field in Airtable; insurance
and other documents are filed and mailed in the same way and leave no receipt.
The two status fields that respect an operator's decision behave alike and
`review` stands for both. `notification = "sent"` stands for `logged` too. The
mail provider sends once per idempotency key, which is the row's id.

### Onboarding
*State.* One contractor. `stored` and `checklist` are the rows of
`contractor_onboarding_documents` and their receipt columns, `shown` and
`docsComplete` the contractor's record in Airtable, `folders` and `filed` are
Google Drive, `followUpLock` is the `contractor_missing_docs` row of
`email_events`. `delivery` is where each delivery of a form stands and what it has
read.

*Actions.* `processOnboardingSubmission`, await by await: `ReceiveSubmission`,
`ResolveFolder` and `CreateFolder`, `ReadPrior` (the `BOOL_OR` over the earlier
rows), `UploadFile` for each document, `StoreRow`, `MirrorChecklist`,
`ClearMissingDocsEvent`. An upload may be stored, rejected, or stored with its
answer lost, and the processing goes on. `DeliveryEnds` is an error or a crash at
any await. `SendFollowUp` is the operator, `ReceiveElsewhere` the
missing-documents form, whose PATCH adds a receipt and puts its own status in place of
"Docs Complete" (`onboarding/missingDocuments.service.ts:343`). An operator who edits
the contractor's record by hand is outside.

*History.* `overlapping` holds the deliveries that had read the earlier rows while
another had too and was not done; `elsewhere` the receipts the other form has set,
which the merge of the rows does not know.

### EmailEvents
*State.* One row of `email_events`, of any of the five kinds, in `eventStatus`.
`sender` is where each request stands: about to reserve, holding a row whose
message is not sent, accepted by the provider, failing; `live` says that the row
it reserved is still the one there is.

*Actions.* `ReserveEmailEvent` is the insert that does nothing if there is a row,
`ReserveForResend` the update that resets it, `SendViaResend` and `SendFails` the
call with its outcomes (a message may go out although the call fails), then
`MarkEmailEventSent` or `MarkEmailEventFailed`, or `EmailAbandoned` when the
process dies. `ClearEvent` is the deletion by `Onboarding`. The guards of each kind
(active contractor, Airtable record) are in its own action. One-row kinds are
chosen in `MailInit`, so that all five share one model.

*History.* `told` and `unasked` say whether a message went out since the row was
inserted or reset, and whether one did without `forceResend`; `muddled` that the
row was reset under a sender or the news of a message got lost.

### Booking
*State.* The submissions for one city, date and window, since the count of the
capacity compares all three. `intake` is `processing_status`, `job` says whether
the submission's job is in a status that counts, `made` how many jobs it has made,
`usedUnits` what the count adds up to. `visit` is where each request stands.

*Actions.* The three ways in, `ReceiveJotform`, `BookOnline` and `RequestReview`;
`CheckSlot` (the count), `CreateIntakeSubmission` (the unique idempotency key),
`MarkDuplicate`, `MarkProcessing`, `AssessIntake` (area and price, which decide the
first status), `CreateJob`, `MarkProcessed`, and the error paths `IntakeFails`,
`MarkFailed`, `VisitLost`. `JobLeavesWindow` and `JobComesBack` are what `Dispatch`
and `Payments` do to a job, as far as it concerns the count.

*History.* `crowded` holds the instant bookings since whose count another job has
come into the window.

### IntakePhotos
*State.* One job: how many rows `uploaded_media` has, how many are unconfirmed,
where each presign request is. *Actions.* `PresignPhoto`, `CountPhotos`,
`InsertPhoto`, `PresignEnds`; `ConfirmLooksUp`, `ConfirmPhoto`; the job's status
changes at any time. No lock, no expiry and no cleanup: that is the difference
from `CompletionPhotos`.

### CustomerTexts
*State.* One job and one kind of text: the payment link, the confirmation or the
on-the-way text (they use different columns and do not meet). The link of the remainder,
which approve-completion texts (`jobs/jobs.routes.ts:605`), has no claim and no column
and is not among them. `sentAt` and
`textStatus` are the columns, `texts` counts what the provider has taken.

*Actions.* `ClaimPaymentLink` writes `sent_at` before anything is sent;
`CommandRouted`, `CheckSentAt` and `SkipText` look at it instead. `SendSms` has the
three outcomes of the adapter, and the provider may have taken a text whose call
fails. `WriteLinkStatus` and `WriteNewsStatus` record the outcome, `TexterLost` is
a crash.

*History.* `doubtful`: two commands were at it together, or the row did not learn
of a text.

### Pricing
`calculatePricing` as operators over a row of `pricing_rules` and a rush tier, in
whole cents, with `Math.round` as `Rounded`.

### MCRecords
The seven components that keep records of their own and share nothing are checked
in one run. `MCInit` chooses the `component` that moves; the others stay in an
initial state, so that the state spaces add up and do not multiply. Its type
invariant `MCTypeOK` is the conjunction of theirs. It also has the assumption
`PricesAddUp`, which TLC evaluates over `MCRule`. `RecordsProofs` shows that a
behaviour of the composition is one of each component.

## 3. Runs

| run | question | bounds and why they are enough |
|---|---|---|
| `dispatch_holder` | one holder, agreement, refinement of `JobLifecycle`, releases final | 1 job, 2 contractors, 2 dispatches, 2 unlocked requests at once, of payments too: two requests are what it takes for one to overtake another, two rows for an earlier holder to come back |
| `dispatch_booking` | double booking, linked rows agree, refinement of `AssignmentBook` | 2 jobs with different windows that overlap, 2 contractors, one row each, 1 unlocked request at a time, of payments too |
| `dispatch_cancelled` (violation) | is cancelled final? | 1 job, 1 request |
| `dispatch_backtoready` (violation) | does going back to ready release the holder? | as above |
| `payments_closing` | paid before dispatch, closed is paid | 2 sessions of any types, 1 request at a time between its reads and writes, all orders of events |
| `payments_race` | tables agree, legal moves, refinement of `JobLifecycle` | 1 session, 2 requests at once, 2 undelivered events |
| `payments_recalculate` (violation) | does a paid price stay? | 1 session |
| `payments_lost` (violation) | is every charge recorded? | 1 session, with fairness |
| `airtable` | healing, with and without the completion photos; errors, rows, order, end | 2 changes, 2 attempts each, 2 workers, 2 rows, 1 restart |
| `airtable_latest` (violation) | does the mirror show the latest change? | the same without restarts |
| `records` | the properties of the seven components of `MCRecords`, one component at a time; refinement of `PhotoAlbum`; prices add up | 2 requests at once for each component, so that one can overtake another, and any number in turn. Completion photos: 3 keys for a limit of 2. Missing documents: 2, so that one can be stored and the other rejected. Onboarding: 2 forms that together have all 3 receipts, one of which the other form can set too. E-mail: all five kinds. Booking: 3 submissions of 1, 1 and 2 units for a window of 2. Customer photos: limit 2. Texts: at most 3 (`MaxTexts`), one more than two at once. Prices: rules below, at and above one another, 432 of them, and all rush tiers |
| `onboarding_receipts` (violation) | do receipts add up over forms that overlap? | 2 forms, 2 deliveries at once |

Every passing run is exhaustive within its bounds. `Job`, `Contractor`, `Row`,
`Payment`, `Photo`, `Document`, `Handler` are sets of model values; symmetry is used only
where no liveness property is checked and only over sets the module treats
alike (not over the jobs of `Dispatch`, whose windows differ). In `records`, every
component's requests are the same two `Handler`s, and these, the photos and the
documents are the symmetric sets; forms and submissions are told apart. Deadlock is not
checked: every bound lets the system come to rest, and resting is legal.

For every property of a passing run `PROJECT.json` names a mutant, a plausible
bug of the code written as a second operator next to the first, under which TLC
finds that property violated in that very run.

### Fairness

- `payments_lost`: Stripe delivers an event until it is acknowledged, and a
  request that has started goes on (weak fairness): Stripe's documented delivery,
  and an event loop that stays up. Customers, operators and crashes are not fair.
- `airtable`: the worker takes up what waits (strong fairness: other tasks can
  fill its slots again and again, but BullMQ keeps the order) and an attempt goes
  on (weak fairness: each awaited call answers or throws). Nothing is assumed
  of changes, of enqueuing, or of crashes.
- The other runs check safety only and assume no fairness.

### Disagreements between code and documentation

Each is a run that finds the violation, and a theorem (section 4) that says how
much of the claim is left.

1. **A cancelled job comes back to life** (`CancelledIsFinal`). The SMS webhook,
   `approve-dispatch` and the Stripe webhook write `jobs.status` by id after an
   unlocked read;
   `job.stateMachine.ts:37` and README.md:1434 say nothing leaves `cancelled`.
2. **Back to ready with a holder** (`BackToReadyReleasesHolder`). The edge
   `assigned -> ready_for_dispatch` was added for cancelling an assignment
   (`job.stateMachine.ts:29`), but `approve-dispatch` takes it too and leaves the
   assignment active; dispatch, cancel-assignment and SMS then all refuse.
3. **A paid price changes** (`PaidPriceIsKept`). README.md:243 says recalculation
   of paid jobs is blocked; the guard looks at three statuses, which a paid job
   leaves when it is approved for dispatch.
4. **A charge is never recorded** (`ChargeIsRecorded`). README.md:1629 calls the
   pipeline fault-tolerant; an event acknowledged before it is processed is lost
   with its processing.
5. **The mirror keeps an older snapshot** (`MirrorReflectsLatest`).
   `airtableSync.queue.ts:559` says Airtable always reflects the latest count of the intake photos; two
   tasks of one job can run at once, and the older snapshot can be written last.

6. **Receipts are not cumulative** (`ReceiptsCumulative`).
   `onboarding/onboarding.service.ts:18` says that a receipt which was true in any
   prior submission can never revert; the earlier rows are read (line 711) before the
   files are downloaded and uploaded, and the row written long after, so that of two
   forms under way at once the later row, and then Airtable, lacks the other's
   receipts.

## 4. Proofs

All theorems hold for every value of the constants that satisfies the `ASSUME`
of the module: any number of jobs, contractors, rows, sessions, keys, requests,
changes, attempts, workers, restarts, documents, forms, receipts, deliveries,
senders, submissions, visits and texts, and any limits, capacities and prices.

| module | proved |
|---|---|
| `DispatchProofs` | `TypeOK`, `OneActiveAssignment`, `HolderMatchesJobStatus`, `NoDoubleBooking`, `LinkedRowsAgree`, `ReleasedStaysReleased`; `KeepsTheBook` and `KeepsToItsMoves`: `Dispatch` implements `AssignmentBook` and `JobLifecycle`; `OnlyTableTransitions`, which no run checks; `RevivedOnlyByOvertaking`, `StrandedOnlyByApproval` |
| `PaymentsProofs` | `TypeOK`, `LedgerBacked`, `PaidBeforeDispatch`, `ClosedIsPaid`, `OnlyPaymentTransitions`; `SettlesAsPromised`: `Payments` implements `JobLifecycle`; `ChargeLostOnlyAfterAnswer`, `PriceKeptWhilePaid` |
| `CompletionPhotosProofs` | `PhotoTypeOK`, `AcceptedWithinCap`, `ReservationsFit`, `ApprovedHasPhoto`; `KeepsTheAlbum`: `CompletionPhotos` implements `PhotoAlbum` |
| `AirtableSyncProofs` | `TypeOK`, `MirrorHeals`, `ErrorExplained`, `OneRowPerJob`, `NeverGoesBack`; `LatestUnlessOverlapped` |
| `MissingDocumentsProofs` | `DocTypeOK`, `FiledOnce`, `ToldByOne`, `ReceivedIsFiled`, `ToldWhatAirtableShows`, `StatusMatchesRow`, `DecisionKept` |
| `OnboardingProofs` | `OnbTypeOK`, `ReceiptsBacked`, `ReceiptsKept`, `UnlockedWhenShown`, `MailTypeOK`, `StatusTellsTruth`, `UnaskedOnce`; `CumulativeUnlessOverlapping` |
| `CustomerProofs` | `BookTypeOK`, `BookingFits`, `IntakeAccounted`, `AddTypeOK`, `PhotosNearLimit`, `TextTypeOK`, `TextedOnce`; of prices, for every rule and tier, `DepositAndRemainder` and `MarginIsLeft` |
| `RecordsProofs` | a behaviour of `MCRecords` is one of each of its components; `MCTypeOK` |

**What is left of the refuted claims.** A run shows that a claim of the
documentation fails; these theorems bound how.

| claim | refuted by | what holds instead |
|---|---|---|
| `CancelledIsFinal` | `dispatch_cancelled` | `RevivedOnlyByOvertaking`: only a write decided on what the job was before revives it |
| `BackToReadyReleasesHolder` | `dispatch_backtoready` | `StrandedOnlyByApproval`: only approve-dispatch on an assigned job, or an overtaken write, leaves the holder |
| `PaidPriceIsKept` | `payments_recalculate` | `PriceKeptWhilePaid`: in the three statuses of the guard no recalculation starts and no remainder appears, unless one began earlier |
| `ChargeIsRecorded` | `payments_lost` | `ChargeLostOnlyAfterAnswer`: a charge goes unrecorded only by a crash or failed processing after the 200, however events repeat |
| `MirrorReflectsLatest` | `airtable_latest` | `LatestUnlessOverlapped`: of the fields in `details`, that count among them, it holds until two attempts run at once, through failures and restarts |
| `ReceiptsCumulative` | `onboarding_receipts` | `CumulativeUnlessOverlapping`: it holds of a delivery that was alone |

**Assumptions.** `DispatchAssumption` (the dummy values are not jobs or
contractors; the times of parseable slots are integers), `PaymentsAssumption`
(the same, and the bound on events is a number), `PhotosAssumption` (finitely
many keys, limits are numbers; `MaxPerJob` may be 0), `SyncAssumption` (at least
one version and one attempt), `FormsAssumption` (each form's files and answers are
items), `BookingAssumption` (units and capacity are numbers),
`IntakePhotosAssumption` (finitely many requests at once, a limit of at least one).
`MissingDocuments`, `EmailEvents` and `CustomerTexts` need none.

**Inductive invariants.**

- *Dispatch.* `IType` adds to the types that the columns of a row are filled
  together and that requests name inserted rows. `RequestsApproved` says what a
  waiting write has been allowed on; without it a write could move a job that was
  *not* overtaken along a missing edge. On top, layer by layer: one active row;
  job and holder agree (uses the one active row: the winner's row is the
  holder); an active row's job is scheduled, so the conflict check sees it; no
  double booking.
- *The book.* `BookInv` is all of that and `StatusReached`, the statuses these
  endpoints and payments can lead to (`scheduled` is not among them: nothing writes it).
  `Lines` says what the line of a job is in terms of its status and its active
  row; `OnlyLine` that a step which touches one job writes one line. Then each
  action is one entry. The agreement of job and holder is needed for `Finish` (a
  job that ends was held) and for `Offer` (a contractor who holds a job has it
  in a status the conflict check counts); that nobody holds a job before it is
  approved, for `Close`. A payment that hits a job past that, and has not overtaken
  anyone, moves it among the statuses of a job that is done.
- *The lifecycle.* `Moving` and `Settling` forget which table a request is in, so
  two requests of one handler would be one request of `JobLifecycle`: `OneRequestEach`
  excludes them, in `Dispatch` and in `Payments`. With `IType` and
  `RequestsApproved` each action of `Dispatch` is one move, one step of a request,
  or no step. In `Payments`, a request stands for the same one until it ends because
  a session with an event keeps its job and type (`HistoryGrows`).
- *Payments.* `IType` says events stem from sessions and completed ones from
  charged sessions. `PaidBeforeDispatch` needs that approvals and dispatch's requests
  in progress are of charged jobs. `ClosedIsPaid` needs a strengthening about the remainder: when
  it is 0 although the price leaves one, a full or remainder session was
  charged, and an approval that has read 0 has read that.
- *Completion photos.* `KeysInv`: a key is in one place only. `LockInv`: at most
  one request holds the job; while it does the job is open for photos and what
  it counted is still true, or too high. The limits follow from the lock: every
  other write of the job's status waits for it, so the status the holder has seen is the
  one there is. `KeysInv` also says that a caller has one request at a time, without
  which two requests in progress would be one move of the album.
  `ApprovalsGrounded` says that an approval in progress has not counted yet or has found
  an accepted photo. The album is kept because of these and `AcceptedWithinCap`: a
  reservation that is inserted, or a batch that is accepted, meets the job open and
  the count as high as it was, and a cleanup has no accepted key in hand.
- *Airtable.* `IType` adds `AttemptsInv` (an attempt belongs to one running sync,
  attempts left) and `VersionInv` (nothing is newer than the job). `CalmInv`: as
  long as no two attempts have run at once, the attempt there is has read the
  newest version shown, its photos too if it could read them, and the fields it has
  written show it. `RowsInv`: unless
  a link was lost, the only row is the linked one, or the one about to be.
- *Missing documents.* `OrderInv`: a delivery gets past a phase only when the row
  says it is over. `FilesInv` and `MailedInv`: unless a claim has lapsed under its
  delivery, whoever works under it is alone and the claim is fresh; they carry
  `FiledOnce` and `ToldByOne`. `FiledInv` puts whatever a delivery has in hand in
  Drive. `ToldInv` says that what it has in hand is what the row holds and, past
  the PATCH, what Airtable shows: neither changes once the files are done, which
  is `FilesInv`. `StatusInv` ties the status to the time stamps. `CaughtInv`: a
  delivery about to overwrite a decision is in `caught`.
- *Onboarding.* `OType`: a delivery at work has a form. `BackInv` extends
  `ReceiptsBacked` to what a delivery has read and uploaded, which is what it will
  write. `AloneInv` says of a delivery outside `overlapping` that the rows there are
  are in what it has read, that its own row is what it will send to Airtable and,
  past the PATCH, that Airtable shows them all; two deliveries past the read are in
  `overlapping`.
- *E-mail.* `MailInv`: who holds the row without a forced resend is alone, since
  only the insert lets it in and the row stays until it is deleted, which takes
  hold of the row from everyone; and as long as nothing is muddled there is one
  sender and the row is pending.
- *Booking.* `FormInv`: no two requests have the same submission of the website.
  `CountInv` carries the count: until something else comes into the window, the
  units used and those of the booking fit; units that leave do no harm. `OnceInv`
  says who may make the job of a submission: the request that inserted its row, which
  the unique key makes the only one.
- *Customer photos.* `AddInv`: rows and requests that have counted and not inserted
  are together below limit plus requests; a request counts itself in only below the
  limit.
- *Texts.* `TextInv`: the link's claim is there before and after its sender; of the
  news, while nothing is doubtful, who is texting is alone and the row is empty.

**Only model-checked.** The liveness property `QueueDrains` and the six violations.
Liveness under fairness and `ENABLED` are beyond the
prover, and so is induction over data; no module uses recursion.

## 5. Not modelled

- Calls that only read or format; the audit log; alerts to the owner and their
  throttle; the `integration_failures` log.
- The Airtable mirror of payments and that of contractors: fired once, failures
  logged. The PATCHes of a contractor by the two forms are in `Onboarding` and
  `MissingDocuments`.
- Google Drive beyond its outcomes: the bounded download with its redirects and the
  checks of type and signature only decide between an upload and a rejection. Two
  deliveries of a first form can create two folders
  (`storage/googleDrive.service.ts:511`); `folders` counts them, and the code
  promises nothing about it.
- The Jotform normaliser, contractor pages, e-mail templates, replies to the
  contractor and the masking of stored payloads: strings. Migrations: run before
  traffic. The upserts of customer and address: part of the transaction of
  `CreateJob`, and no property is about them.
- In `admin/`: lists, settings, test jobs, and the refund request, which only asks
  Stripe (the refund arrives as an event in `Payments`).
- That an intake completes. The 202 is sent before the processing
  (`intake/intake.routes.ts:91`), nothing takes up a submission that failed or was
  cut short, and `VisitLost` leaves it there. Likewise an e-mail whose row is pending
  or failed stays unsent until someone forces a resend.
- The text with the link of the remainder (`jobs/jobs.routes.ts:605`): no column records
  it, and every approval that leaves a remainder sends one.
- That the mirror shows everything: the fields only its POST writes, and the attachments
  of the completion photos (section 2, `AirtableSync`).
- That the mirror follows a recalculation: `recalculate` asks for no sync
  (`jobs/jobs.routes.ts:225`); the change is `JobChangesUnsynced`.
- The connection pool: ten connections, and `getJobById` inside `withTransaction`
  takes a second one (`payments/stripe.webhook.ts:343`). The outcome, an event
  that fails after its 200, is `StripeEventFailed`.
- Amounts: `Payments` distinguishes only whether a remainder is left.
- That a submission of missing documents completes. A delivery within the 15
  minutes of another's claim is answered 200 as a duplicate
  (`onboarding/missingDocuments.service.ts:411`), so if that other one has died or
  fails later, Jotform does not deliver again and nobody resumes. In the model
  the submission may stop there; that a retry resumes is what it shows of the
  deliveries that do come.

## 6. What is left

- One module with the rows of dispatch and of payments together. `JobLifecycle`
  stands in for it: each component is checked and proved against everything the other
  may do to the shared column, and each is proved to do no more. What relates the
  rows of both, for example that a contractor who has accepted works on a charged
  job, follows by hand from `HolderMatchesJobStatus` of `Dispatch` and
  `PaidBeforeDispatch` of `Payments`, which meet in the status; no module states it.
  The product of the two state spaces, about a million states each, is beyond a run
  of five minutes.
- The parts `PROJECT.json` calls partly modelled or not modelled, for the reasons
  given there.
