# TLA+ models of PreztiaOS

PreztiaOS lends small amounts in instalments and collects them, in cash by
collectors on their routes or by PIX. One NestJS API serves many tenants over
PostgreSQL with row-level security. Most handlers run one `withTenantTxFor`, a
READ COMMITTED transaction; the important ones read in one transaction, talk to
a bank, an AI, a messaging channel or a settlement source, and write in another.
What can go wrong is what happens between the read and the write, and that is
what these modules are about.

All models are of one tenant: row-level security keeps tenants apart, and no
handler writes in two of them.

## The system: parts, state, operations

| part | state | operations | what is hard | what makes it right |
|---|---|---|---|---|
| portfolio arithmetic (`packages/domain/src/credit/portfolio`) | none | `allocatePayment`, `splitAllocations`, balance | rounding of the capital in each payment; payments larger than the balance or cut into many | nothing lost, oldest instalment first, independent of how the money is cut, capital recovered exactly |
| PIX receipts (`submit-payment-receipt.ts`, `credit-portfolio.repository.ts`) | `payment`, `payment_allocation` | a receipt is read, checked with the bank, saved, maybe credited | the same receipt twice; the bank answers later; policy HOLD or ALLOCATE | an end-to-end id credits once; a payment credits once |
| PIX charges (`payment-charge`, `apps/api/src/payments/charge`) | dialogue, menu, expected payment | a client asks, chooses, is charged; PicPay calls back | texts delivered twice, the provider fails between two writes | the menu, the charge and the expected payment say the same |
| cash payments (`cash-payment.repository.ts`) | same, and the ledger | register, with an `Idempotency-Key` | a retry while the first attempt is in flight; two payments closing one credit | one payment per key; a credit that is paid is closed |
| bank reconciliation (`reconcile-pending-payments.ts`) | attempts, status, allocations | list, ask the bank, verify, keep, flag | snapshots read before the bank answers | verified once, for the bank's amount |
| settlement reconciliation (`run-settlement-reconciliation.service.ts`, `settlement-match.ts`) | `incoming_credit` rows and who consumed them | ingest, match, confirm or reserve | overlapping runs, deposit orders that want the same row | a row serves one consumer for ever; end-to-end id before amount |
| manual verification (`manual-verify-payment.repository.ts`) | same | verify with a typed amount | no lock, no condition in the update | only an unverified payment |
| cash ledger (`apps/api/src/cash`) | `cash_transaction`, advisory locks of boxes | post, transfer, count and adjust, route a PIX | balance is a sum that is read before an entry is inserted; `created_at` precedes the commit | no overdraft, crossed transfers do not deadlock, an adjustment seals its count |
| remittances (`remittance.repository.ts`, `route-box-state.ts`) | `collector_remittance` and its cuts | submit, receive, close debt, view | the cut against entries in flight, two receptions, debt and open remittances | the ledger is the last cut plus what came after; receptions square |
| deposit orders, expenses | `field_order`, `expense` | issue, report, verify, dispute; ask, review | review updates with no condition on the status | a transition happens once; one withdrawal per expense; one bank credit per order |
| collector settlements (`apps/api/src/settlements`) | `settlement_period` with its photograph | close a period, photograph it, pay a commission | an entry dated in a period that commits after it is closed; a cron against an administrator | periods are contiguous and final; what the photograph says adds up |
| credit grant, plans, migration | `credit`, `installment`, `payment_plan` | edit plans, offer, answer, approve, grant, load a credit with its history | handlers that decide on a row they read earlier; schedules with ends of month and rounding | one active credit per borrower under the policy; schedule adds up |
| applications and KYC | `credit_application`, documents | collect documents, restart, review, decide | two messages of one album at once, a restart in the middle | the checklist counts each file once; an application is complete once |
| antifraud of documents (`domain/src/antifraud`, `credit/validation`) | extractions, validation reports | read, validate against five sources, read again | a source is down; a reading changes under a run; a misread digit | an outage neither rejects nor saves; the last readings are judged |
| conversations (WhatsApp, Telegram) | message log, chat links, bots | claim, route media, answer; register, rotate, remove a bot | redelivery, crash after the claim, a Telegram that fails between two writes | a message is handled once, or dropped after its attempts; each channel is heard |
| collections | routes, visits, reminders | dispatch, resolve, visit, remind | retries with keys, two crons, a visit and a stop of one credit | a stop is settled once, answers are true |
| borrowers and lists | `borrower`, `change_request` | create, update, propose, review | a review in three transactions, two reviewers | approved means applied; no update undoes another |
| IAM, tenancy, zones | users, sessions, companies, zones | log in, renew, suspend, change a user; create, move, remove a zone; replace a portfolio | tokens that outlive a change, a status cached by each instance, transactions of several statements | a change reaches every session in its time; a coordinator sees his zones and no other |
| idempotency interceptor, offline queue of the phone | stored answers, queue in local storage | find, run, save; enqueue, sweep | three steps, not one; the whole queue is rewritten at each step | a retried request takes effect once; the queue drains |

Parts interact through rows and locks of the same database: a verified payment
inserts one `cash_transaction`; a settlement row is consumed by a payment or by
a deposit order; remittances cut the ledger the other writers add to; a closed
period photographs that ledger. `PROJECT.json` lists every part with its sources
and whether it is modelled, and every hazard with its line and the property that
would catch it.

## Modules

| module | what it is | code |
|---|---|---|
| `Portfolio` | pure operators: cascade over the instalments, capital/interest split | `packages/domain/src/credit/portfolio` |
| `CreditAccount` | abstract specification: each payment is credited at most once, in one indivisible cascade | what `allocatePayment` and the payment tables promise |
| `SettlementMatch`, `SettlementPool` | pure operators of the matching; receipts and rows that arrive, complete runs that happen | `settlement-match.ts` |
| `Payments` | the payment pipeline, with handlers in flight | `apps/api/src/payments`, `packages/application/src/credit/payment` |
| `PixCharges` | the conversation that charges a client, the provider, the webhook | `payment-charge`, `apps/api/src/payments/charge` |
| `CashLedger` | boxes, their ledger and locks, remittances | `apps/api/src/cash`, `packages/domain/src/cash` |
| `FieldMoney` | deposit orders and expenses over the boxes | `deposit-order.repository.ts`, `expenses.ts` |
| `SettlementPeriods` | periods closed by a cron and by hand, commissions paid | `apps/api/src/settlements`, `settlement-period.ts` |
| `SettlementPhoto` | what a photograph says: boxes, zones, collectors, commissions, the coordinator's view | `settlement.ts`, `commission.ts`, `ledger-attribution.ts` |
| `PaymentPlans`, `Origination` | plans edited by administrators; offers, answers, approvals, rejections and grants | `credit/plan`, `credit/review`, `credit/grant` |
| `MigratedCredit` | schedules, due dates, a credit loaded with its history | `schedule.ts`, `migrated-credit.ts` |
| `Intake` | the messages of an applicant, the checklist, restarts and decisions | `conversations`, `domain/src/credit/application` |
| `DocumentValidation` | local rules, five sources and their outages, verdict, re-extraction | `validate-application-documents.ts`, `domain/src/antifraud` |
| `CheckDigits` | CPF, CNPJ and the line of a utility bill | `taxpayer-id.ts`, `febraban.ts` |
| `TelegramBots` | registration, rotation, removal and verification of bots; verified contacts | `telegram-channel`, `apps/api/src/telegram` |
| `Collections` | stops, visits, reminders, and the idempotency interceptor before them | `collection-route.repository.ts`, `idempotency.interceptor.ts` |
| `OfflineSync` | the queue of the phone, the network, the endpoint | `apps/mobile/src/core/offline` |
| `Borrowers` | records, proposals of collectors, reviews | `borrowers.ts`, `change-requests.ts` |
| `Access` | login, renewal, guards, suspension, users and the platform | `apps/api/src/iam`, `apps/api/src/platform` |
| `Organization` | zones, coordinators, portfolios of the collectors | `zones.ts`, `zone-path.ts`, `collectors.ts` |
| `ZonePath` | which zone is within which, by their paths | `zone-path.ts` |
| `Sums` | sums of amounts over a finite set (`SumOver`, `Total`), which the proofs give laws to | |
| `Channels` | `PixCharges`, `TelegramBots`, `Organization` and `Access` side by side, with the two bundles that runs check | |
| `ArithmeticProofs` | lemmas about sums over finite sets and about the portfolio rules | |
| `PaymentsProofs`, `CashLedgerProofs`, `ProgressProofs`, `FieldProofs`, `OriginationProofs`, `LendingProofs`, `ChannelsProofs` | theorems, proved by TLAPS | |
| `MCPayments`, `MCCashLedger`, `MCChannels`, `MCField`, `MCLending`, `MCProgress` | values of the constants, and the worlds that share a run | |

`Payments` composes `Portfolio` and `SettlementMatch` and refines
`CreditAccount` (`INSTANCE` with a refinement mapping, checked as the property
`ImplementsCreditAccount`). `Origination` extends `PaymentPlans`, and
`MigratedCredit` extends `Portfolio`. `CashLedger` meets `Payments` in one
point, the entry of a verified payment, which is `Route` there and `StartPix` or
`StartPay` here; the two are kept apart because no decision of the payments
reads a box. Components that share nothing are put in one run as its *worlds*
(`world`, `field`, `scenario`): an initial state chooses one, the others stay
still, and each world has its own small constants. `MCLending` extends
`Origination`, `CreditAccount` and `SettlementPool`; `MCChannels` extends
`MCPayments`, `Channels` and `SettlementPhoto`, and its constant `Worlds` says
which of its worlds a run takes, since two runs share them out. 

### Payments

A worker is a handler in flight and `job[w]` what it has read so far: which
payment, the snapshot of the instalments, the answer of the bank, the claims of
a settlement run that are still to be confirmed. The actions are the
transactions of the handlers, in the order of the code, and `Abandon` ends a
handler at any point: an exception, a crash, a violated constraint. `Receive`,
`RegisterCash`, `Reconcile`, `RunSettlement` and `VerifyByHand` group the steps
of one handler each.

- A transaction that updates under `FOR UPDATE` or under a condition is one
  action. Reads that the code makes in one transaction with no lock are one
  action; reads of separate transactions are separate actions.
- What the bank says is nondeterministic: it confirms `BankAmount[p]` if that is
  positive, or says nothing yet. The antifraud verdict is a free choice.
- One settlement account, one currency. Texts, files, events and notifications
  are left out. Credits migrated with payments already made are left out.
  `DEFAULTED` and `CANCELLED` are never written by the code.
- `AllocationsOf` of the code is kept as the sum per payment and instalment.

### CashLedger

A worker is an open transaction. `want` are the locks its code asks for and has
not been given; `holder` is who has each lock, until `Finish`, which is commit
or rollback. A statement runs when `want` is empty. The ledger is kept as the
two sums the code reads: `balance`, and for a route box `moved`, the entries
after its last cut.

- `Insert` and `CommitEntry` are two steps because `created_at` is
  `clock_timestamp()` at the insertion and the entry is seen at the commit: a
  cut that falls between the two takes the entry in (`before`). Under the locks
  of the code this never happens, which is one of the things checked.
- `lastCut` and the read of the movements are one step; a cut between them
  gives the same sum. `receive` is three steps (load the remittance, count,
  write), since its locks are taken between them.
- `balance` is what `balanceOfBox` reads at that statement, so a PIX entry,
  which takes no lock, may land after it.
- `Reject` is a domain error, `Abort` a crash or a transaction the database
  aborts. They release everything and change nothing.
- Left out: creation, deactivation and deletion of boxes, currencies, the
  TRANSIT box (whose withdrawals must be transfers), collisions of `hashtext`,
  which only make two boxes share a lock, deadlines of remittances. Which box
  `findRouteBox` returns when a collector has several is any of them.

### The field, the closing and the channels

Each of these modules has one action per transaction, or per read, of its
handlers, and ends with a bundle (`...Safe`) of the properties that hold of it.

- `FieldMoney`: `order`, its event `log`, the stored `file`s, an `upload` in
  flight, the bank `credit` an order consumes, `expense`s and the `review` in
  progress. A report stores its receipt in one step and writes the order in
  another; a review of an expense reads in one transaction and writes in
  another. `MoneySafe` says that the documents account for every peso of a box
  and that an expense is paid once; `TrailSafe` that the log tells the status and
  each report keeps its evidence.
- `SettlementPeriods`: `clock`, `committed` entries with the instant they are
  dated in, `period`s, who holds the advisory lock, what each closer has read,
  commissions being paid. `PeriodsSafe`: the periods are a chain without gaps,
  sealed only when over, an entry is counted once and what was counted stays in
  every later balance, a commission is paid once and as it was sealed.
- `SettlementPhoto`: the ledger by box, zone, collector and nature, and the
  photograph computed from it after every movement: boxes, zones, result,
  commissions and the views of the coordinators tell one story.
- `PixCharges`: `sessions` (dialogue, menu), `charges` at the provider, `claims`
  (expected payments) and the `turn` of each text in flight.
- `TelegramBots`: rows of `channel`, what Telegram keeps (`webhook`, `valid`),
  the `errand` of each call; `link`, verified contacts of the chats. A call to
  Telegram may fail before or after it took effect. `upset` remembers that two
  calls overlapped or a restart cut one, which is where the code leaves a bot to
  `verify`; `ChannelsAreHeard` is stated up to that.
- `Intake`: the deliveries of messages of one applicant (`claimed`, `outcome`),
  `apps` with their checklist, the row locks, crashes and duplicates.
- `OfflineSync`: the phone is one thread that gives way at every await, so each
  access to its storage is a step; `request` and `credited` are the network and
  the endpoint.
- `Collections`: `stops` of routes with their payments, `history` of visits,
  `sent` reminders, `stored` answers of the idempotency interceptor.

### Lending and its people

- `PaymentPlans` and `Origination`: plans, one application with its offer and
  answer, credits; the coordinators' requests read, decide and write in separate
  transactions, and `calm` records that none overtook another.
- `MigratedCredit`: schedules of each frequency over a real calendar, and a
  credit loaded with payments of the past, against the cascade of `Portfolio`.
- `Borrowers`: rows, a proposal, and the three transactions of a review.
- `DocumentValidation`: `readings` of four documents, what the five sources know
  (`world`), runs in flight, `reports`. Of an alert only its severity is kept; a
  name is the set of its words, a date a day, an identifier whether its check
  digits hold. Rules are operators, one per function of the domain.
- `CheckDigits`: a number is printed with its check digits and read with a
  slip; which slips pass is compared with the arithmetic of the weights.
- `Access`: `status` of the company and what each instance remembers of it,
  users' `row`s, signed `pairs` of tokens, `call`s in flight, a `clock`.
- `Organization`: `zone`s with path and parent, `assigned` coordinators, the
  `portfolio` of a collector; each handler is several transactions.

## Runs

Inputs are finite sets (so many receipts, so many remittances), so every model
stops when they are used up; that is why each cfg says `CHECK_DEADLOCK FALSE`.
Where waiting matters it is stated as a property: `EveryTransactionEnds` in
`CashLedger`, `MessagesSettle` in `Intake`.

| run | shows | bounds |
|---|---|---|
| `payments_concurrent` | two handlers in flight, duplicated receipts and retried cash requests against both reconciliations and a deposit order; the pipeline implements `CreditAccount`; a payment has an entry in the ledger, of its amount, exactly when it is verified, whichever of the five writers is cut and where. Beside it the worlds `charges` and `bots`, for `ConversationSafe`: a text charges once, a code that was told is expected, a bot that nothing disturbed is heard | policy HOLD, no manual verification: `allocate_policy` and `manual_race` say why; two receipts of one transaction, a charge, two cash requests with one key, one row of the bank, two attempts of the reconciliation; three texts of which two at once and one failure; two bots or two chats, one failed call |
| `payments_robust` | what holds even when a payment is credited twice: instalments within what is due, rows that add up, an entry for each payment that was verified by whomever (`VerifiedIsBacked`), and `KnowledgeInv`. Beside it the worlds `photograph`, for `PhotographAddsUp`, and `access`, `zones` and `portfolio`, for `VisibilitySafe`: a suspension, a dismissal or a change of zones reaches every session in its time; a coordinator sees his subtrees, a collector has the clients last asked for | two workers, HOLD and ALLOCATE, manual verification; two receipts, one cash request, one row, one attempt; three boxes in three zones and three movements; two requests at once, three ticks of the clock, users that a request deactivates or moves, not both; three zones of two labels |
| `cash_ledger` | three worlds. Crossed transfers, PIX entries, counts and adjustments: an adjusted cash box holds what was counted. A collector's view of his box, which locks nothing, while it is paid into and given to another. A route box that is paid into and spent from, declared, received twice and closed on: each transaction holds the locks of what it read and what it read is still so, the ledger adds up without overdraft (`LedgerInv`), the summary is the ledger, no closure while a remittance waits, a reception is final. In all of them every transaction ends | two transactions at a time, one box of each kind, amounts of 1, what enters a box between two cuts at most 1; one count; two remittances, hence a second cut with a carried debt, and no payments or withdrawals after it; money other than deliveries moves at the route box |
| `progress` | messages delivered twice and raced by restarts; a phone that loses answers and restarts; periods closed by a cron and an administrator while entries commit late: nothing is counted twice, and each comes to its end | three messages, two documents, one fault; two operations, three lost answers, two restarts; one entry, five instants, one crash, settings that change until the third instant |
| `field` | deposit orders, bank credits and expenses that race for the same money; stops, visits and reminders retried with their keys | two orders that take six steps between them, or one order and one expense with two reviewers; one credit, two keys, two threads, two calls of each, two days, one restart |
| `lending` | plans and grants (`LendingSafe`, `AgreedWhenCalm`, `GrantedWithinPolicy`): plans edited while they are offered, answered and granted; in scenarios of their own the cascade, the matcher, schedules and histories (`MigrationSafe`), records of borrowers (`BorrowersSafe`), documents (`ValidationSafe`), check digits (`DigitsSafe`) | two plans of which the first is edited once, two offers, two messages of which the last is a clear one, two coordinators; three uneven instalments and four payments; three receipts and two rows, identifiers taken in order; four frequencies from the ends of a month; one proposal and two reviewers; about sixty folders and a dozen worlds of sources; some tens of numbers with every slip |

Six runs look for a violation of what a comment of the code says, and find it:

| run | what the code does |
|---|---|
| `allocate_policy` | under ALLOCATE an unverified receipt is credited on arrival and again when it is verified |
| `manual_race` | two manual verifications of one payment both pass and credit it twice |
| `one_credit` | an application that is approved twice is granted two credits |
| `queued_lost` | a sweep reads the queue, a collection is queued, the request of the sweep fails, and what the sweep writes back (`queue.ts:110`), the queue that it read, no longer has it: it was neither sent nor refused |
| `paid_unsettled` | two cash payments that together pay a credit off are cascaded on instalments read before either commits; neither sees it paid, and the credit stays ACTIVE |
| `two_reservations` | two settlement runs list a payment before either reserves a row for it, and each reserves a row of its own |

Two workers are enough for the races of these models: each is between one
transaction that has read and one that writes, and a third only adds another of
the same. Two instalments of different size are the fewest for which an old
snapshot and a new one fall on different rows. Handlers, requests and threads
that nothing tells apart are a symmetry set, and receipts and identifiers arrive
in the order of their numbers, which removes permutations and no behaviour. The
worlds say in a comment which combinations they leave aside: the documents of a
folder that was not clean are not read again, for example, because the report is
a function of the readings and that case is the same.

### Seen while modelling, with no run of their own

Each of these was met as a counterexample of a property, or read in the code.
The properties named are defined in the modules, and putting them in a cfg shows
the behaviour.

Payments and cash:

- Both `PaidIsSettled` and `OneReservationPerPayment`, which the violation runs
  refute with two workers, hold with one: it is the overlap that breaks them, and
  nothing in the code prevents it. `reserveCreditForReview` checks that the payment
  is unverified and the row free, not that the payment has no row.
- `receive` holds the route box before `postTransferTx` takes its two locks in
  the order of ids (`remittance.repository.ts:133`), so against a transfer from
  an office box of smaller id it waits in a circle until the database aborts
  one. Manual verification locks the credit and then the payment,
  `confirmWithCredit` the other way round.
- A PIX entry of a bank box takes no lock, so `adjustToCount` may compare a
  balance that has changed when it posts; `AdjustmentSealsCount` is stated of
  cash boxes for that reason. The carried debt ignores withdrawals other than
  closures. A collector who opens his remittance while a payment commits gets the
  inconsistency error of `route-box-state.ts:91` although the ledger is sound
  (`SummaryMatchesLedger` leaves that view, the operation `mine`, out); a box given
  to another collector while its remittance waits lets a debt be closed on it, so
  only the world of the views has reassignments.
- `OnlyApprovedLeaveBox` (`FieldMoney`): a review that rejects after another has
  approved leaves a rejected expense that was paid; `MoneySafe` has only that it is
  paid once. Deposit orders reserve no
  cash, so two of them may promise the same money.
- `OpeningIsPreviousClosing` (`SettlementPeriods`): an entry dated in a closed
  period that commits after its photograph is in the opening balance of the next
  and in the flows of none. A route box given to another collector during a
  period drops its first collector's line and commission from the photograph.
- PicPay: the controller answers 200 when it fails inside and says "el ciclo de
  conciliación lo recupera después" (`picpay-webhook.controller.ts:53-54`), but
  the settlement cycle never asks PicPay (`run-settlement-reconciliation.service.ts:97-98`).
  `openSession` deletes a dialogue under a handler, so a code that was told may
  have no expected payment; `CodeIsExpected` is stated up to that.
- `mp-report.client.ts:106-120` takes the newest processed report, and one
  timeout spans all its attempts.

Lending:

- `CreditAsAgreed` (`Origination`): a plan edited, or a second offer, between the
  offer and the approval makes the credit differ from what was accepted
  (`approve-application-review.ts:74-75`); it holds when nothing overlaps
  (`AgreedWhenCalm`). `ApprovedIffCredit` fails after a rejection that races an
  approval (`application-decision.repository.ts:17-19`). `DefaultCanBeOffered`
  (`PaymentPlans`) fails when two requests overlap (`manage-payment-plans.ts:12-14`).
- Monthly due dates from day 29 to 31 overflow into the next month
  (`setUTCMonth`), which `SchedulesHold` allows for; a total smaller than the
  number of instalments gives instalments of zero that stay PENDING.
- A change request that is approved and applied may end REJECTED, and a review
  cut midway leaves its changes applied and PENDING. An approval stores the
  identifier as it was typed, so "La cédula identifica a un cliente de forma
  única dentro del tenant" (`packages/db/src/schema/borrower.ts:54`) may fail by
  inner spaces; `OneBorrowerPerId` says that this is the only way.
- `ResolvedForGood` (`Intake`): a restart that read an application before it was
  resolved opens it again.
- Validation of documents: the newest report may be of older readings than an
  earlier one, when a slow run files last ("la más reciente es el veredicto
  vigente", `packages/db/src/schema/document-validation.ts:29`). With the CNPJ
  registry down, coherence uses the partners that the document names, so a clean
  applicant who is only in the official list becomes suspicious;
  `CleanStaysApproved` asks that the document name him. One MEDIA and three
  outages reach the threshold of suspicion. Only the last reading of each type is
  validated, so of a document of two files only one counts. A missing reading,
  "requiere revisión manual", is still approved when it is the only alert. The
  photo of the business is studied again without validating again, so its MEDIA
  alert stays.
- `identity-rules.ts` takes any situation that contains REGULAR as regular,
  "Pendente de Regularização" among them; a CPF that Serpro does not know is
  "terminal" in its comment, but its text is not in the terminal list. The
  client of Minha Receita says null "cuando AMBAS fuentes afirman" and returns it
  at the first 404. A misread digit of a CPF can pass at the first and the sixth
  digit: that is in the arithmetic of the weights (`OneDigitIsCaught`). The search
  for a reused file and its storage are two transactions, so two applications
  sent at once with one file both pass.

Channels, field and access:

- `KeyRunsOnce` and `OneVisitPerCycle` (`Collections`): two requests with one key
  at once both run; two visits marked at once both count.
- Two `enqueue` at once lose a collection too, with no sweep: both read the queue
  before either writes it (`queue.ts:67-69`).
- An expired token is a 401, which the offline queue takes for a refusal like any
  other 4xx, and drops the collection. On a phone a sweep starts when the
  application is opened, and not "tras cada operación" (`use-offline-sync.ts:8-9`).
- A stale removal of a bot can delete the webhook of its new registration; a
  registration cut between `setWebhook` and its mark is never marked; an update
  in flight while its bot is removed leaves a link of no channel; a late 403
  blocks a chat that has come back.
- `forgetTenantStatus` runs inside the transaction, so a request can remember the
  old status again before the commit, against "aplica de inmediato en esta
  instancia" (`tenants.repository.ts:47`); `SuspensionCuts` gives it the time of
  the cache. A password reset revokes no refresh token. A company can be deleted
  while it has users, and an administrator inserted after it.
- `zone-path.ts:23-25` leaves the uniqueness of labels to the repository, which
  does not check it: twins share a path and so whoever sees one sees the other.
  A zone created while its parent is removed is an orphan, and two
  replacements of one portfolio at once leave the union of both, although it "se
  reemplaza atómicamente"; `NothingIsOrphaned` and `PortfolioAsAsked` are stated
  up to those.

## Fairness

`Payments`, `Origination` and the others without a liveness property are checked
for safety only: nothing in the code promises that a receipt is ever reconciled,
the crons may be off. `Fairness` of `CashLedger` assumes weak fairness of the next
statement of an open transaction, because the server keeps running a request it
has begun, and strong fairness of the acquisition of a lock, because PostgreSQL
serves the queue of a lock in order. Nothing is assumed of requests, aborts and
crashes: `EveryTransactionEnds` is not obtained by aborting. Receptions
and transfers from an office box are in different worlds, for the reason given
above (`receive` locks against the order of ids): each keeps it, side by side they may
wait in a circle.

`MCProgress` assumes weak fairness of each kind of turn (`Turn`): a channel
delivers again what was not acknowledged (with a bound of attempts), a handler
that is running goes on, the network answers or times out, the application is
opened again or the network returns, which starts a sweep, and the sweep takes
its next step, the cron is called and its next statement runs. It assumes strong
fairness of one step, the cron taking the advisory lock, which an administrator
may hold again and again (`LockTurn`); faults are bounded and not fair.

## What is proved

TLC checks small instances; TLAPS proves the following for every value of the
constants that satisfies the assumptions the modules state. The invariant proved
by induction is one TLC evaluates in a run, whole or within a bundle;
`OwnersRule` and `OpenRule` of the cash ledger are the exceptions. What is assumed of the
constants is a named `ASSUME` or a named predicate (`...Terms`) of the module
that declares them, and TLC evaluates both. Each proof has one lemma per action or
kind of step, and one theorem at the end per result. Where a run checks a property
through an `INSTANCE` (`MigrationSafe`, `BorrowersSafe` and `ValidationSafe` in
`MCLending`), the theorem is about the
formula of the module that is instantiated.

| module | proves | under |
|---|---|---|
| `PaymentsProofs` | types and snapshots (`PipelineSafe`, `NeverOverpaid`, `ClosedMeansPaid`); one payment per transaction and key (`TransactionsCountOnce`); rows that never change hands (`RowsStayTaken`); books that balance (`BooksBalance`) | nothing |
| | a payment has an entry exactly when it is verified (`EveryVerifiedIsBacked`) | nothing |
| | the entry is of its amount, and verified payments are final (`LedgerBacked`, `VerifiedStays`) | `Calm` |
| | the pipeline implements `CreditAccount` (`PipelineImplementsAccount`) | `Calm`, and the policy HOLD |
| `CashLedgerProofs` | locks, reads and sums (`LedgerSafe` and its parts); receptions final; an adjustment seals its count (`AdjustmentsSeal`) | nothing |
| | the summary is the ledger (`SummaryAlwaysMatches`) | nothing; the view of the collector, which locks nothing, is outside the property |
| | no closure while a remittance waits (`NoClosureWhenSubmitted`) | boxes keep their collector |
| `ProgressProofs` | the photograph of a period (`PhotographAlwaysAddsUp`) | `PhotoAssumption`: the root of a zone is a zone, a box is of a zone or of none, the cap takes no more than everything |
| | closed periods (`PeriodsAlwaysSafe`), the queue of the phone (`QueueAlwaysSafe`), the messages of an applicant (`IntakeAlwaysSafe`, `AnsweredForGood`) | nothing |
| `FieldProofs` | orders, bank credits and expenses (`MoneyAlwaysSafe`, `TrailAlwaysSafe`); stops, reminders and stored answers (`StopsAlwaysSafe`, `AnswersAreTrue`, `ClosedStopsStay`) | nothing |
| `OriginationProofs` | one default plan, that can be offered (`PlansAlwaysSafe`); the limit of the borrower (`GrantsKeepPolicy`); the credit is the one accepted (`CreditsAsAgreed`) | nothing; `overlapped` and `calm` are in the properties |
| `LendingProofs` | `CreditIsExact`: no centavo is lost, the oldest instalments are paid first, the cut of the payments does not matter, the capital recovered adds up to the principal | a plan of one instalment at least, a principal that is positive and at most the total due |
| | the matcher (`MatchesAlwaysJustified`, `MatchesAlwaysComplete`) | `PoolTerms`: rows and receipts are numbered from 1, receipts are finitely many |
| | records of borrowers and their reviews (`BorrowersAlwaysSafe`) | `RecordTerms`: the value for an empty row is no row |
| | the validation of the documents (`ValidationAlwaysSafe`) | `ValidationTerms`: the programs that a file says edited it can be counted |
| | credits that began elsewhere (`MigrationAlwaysSafe`) | `MigrationTerms`: what the contract of the request lets through; months of 28 to 31 days, in a calendar that goes one month beyond the last instalment |
| `ChannelsProofs` | the conversation that charges (`PixAlwaysSafe`), the bots and the chats (`BotsAlwaysSafe`), both (`ConversationAlwaysSafe`) | `PixTerms`; `BotsTerms`: there are bots, zones and chats |
| | zones and portfolios (`OrgAlwaysSafe`), sessions (`AccessAlwaysSafe`), both (`VisibilityAlwaysSafe`) | `OrgTerms`: `Root` is no zone; `AccessTerms`: a status is remembered some time, who is signed in has been hired, an administrator is nothing else |

`Calm` says that nobody verifies by hand or that there is one worker; `manual_race`
shows what happens without it, and `allocate_policy` without the policy HOLD.
Nothing is claimed of `PaidIsSettled` and `OneReservationPerPayment`, which the
code does not keep.

### Payments

A handler closes a credit on a snapshot that may be old, so `SettledIsPaid` is
not inductive alone. What makes it work is that instalments only grow, so a
snapshot is never ahead of them (`SnapshotsNeverAhead`), and that the increment
is conditional on not passing what is due (`PaidWithinDue`). If snapshot plus
allocation is what is due, and the increment is admitted, then the present value
plus the allocation is what is due too. `SafetyInv` is the conjunction of these
with the types; `payments_robust` checks it.

The results about money rest on `KnowledgeInv`, which adds to it what each
handler in flight knows: the payment it holds is still as it read it
(`JobsTrue`), no two handlers bring in one payment (`OneHandler`), a row is
bound to one consumer (`RowsBound`). `payments_robust` checks it, with two
workers and manual verification; `Calm` is false there, so that what it says
under `Calm` is only proved. With it every step of `Next` is one of five effects
on payments and portfolio (`EveryStep`), and the rest of the proof looks at the
effects only.

`BooksBalance` is about stale cascades. A cascade that was computed on an old
snapshot, and whose increments were all admitted, is the cascade on the present
instalments (`CascadeStale` in `ArithmeticProofs`): since the snapshot is never
ahead, each present instalment leaves room for no more than the old one did, and
had the two differed some increment would have been refused. The same fact is
the step of the refinement: what a commit does to the instalments is what the
indivisible account would have done then.

Sums are `MapThenSumSet`, which is recursive. The library's induction over
finite sets takes an operator as a parameter and cannot be used, so `ArithmeticProofs`
takes the smallest subset for which a claim fails, which a well-founded order on
the subsets gives (`SmallestSubset`), and shows that there is none. What a
cascade leaves after each instalment is proved by counting up to it in the same
way (`CountTo`).

`AccountInv` is `CascadeExact` with types, terms and finitely many payments per
credit; `lending` checks both (`TypesAndTerms`).

### Cash ledger

The assumption is `LedgerAssumption`: the kinds of box are disjoint, lock numbers
of boxes and of remittances too, amounts are positive. `MaxMoved`, the bound of
the runs, is not assumed finite nor used. None of the invariants is inductive
alone: an overdraft is avoided because of a balance read earlier. `LedgerInv`
adds, for each open transaction, which locks it has (`HoldsItsLocks`) and that
what it read is still so (`ReadsAreCurrent`): exactly for a cash box, its
movements and its debt; as a lower bound for a bank box, since a PIX entry may
have been added without a lock. Each action is proved to keep this for its own
transaction; the lemma `OthersKeep` carries it for all the others, from what a
step leaves alone (`Frame`): cash boxes it has not locked do not change, bank
boxes can only receive. `ReceiveKeeps` shows besides that no entry in flight is
ever before the cut of another. TLC checks `LedgerInv` in `cash_ledger`.

`AdjustmentsSeal` is that exactness: the adjustment is computed on a balance two
statements old, and nobody moves a locked cash box. `NoClosureWhenSubmitted`
adds two things. `OwnersRule`: who submits or closes is the collector of the
box, and so is who submitted the remittance that waits. `OpenRule`: who has
loaded the state of a box, and has its lock, still knows whether its collector
has a remittance in progress, which `loadRouteBoxState` read two statements
before the closure is posted; without the lock of the box a submission falls
between the two, which is the mutant of `NoClosureWhileOpen`.
`SummaryAlwaysMatches` is of declarations and closures, which load the state of
the box under its lock; the view of the collector may disagree, as said above.

### The photograph

`PhotoInv` says that the line of each box, computed from the entries of the open
period, closes on what the box holds. It is inductive because a posting adds its
amount to the sum of just the entries of its box and direction (`PostedSum`), and
because the opening of a period is the closing of the one before. Everything else
follows of any state in it: an entry is of one box, one zone, one concept and one
direction, so that grouping them by any of these and adding up the groups gives
the same sum (`SumGroup`); a zone with an entry, a portfolio or a commission that
is owed has a line (`LinedFacts`), which is what `zoneLines` of `settlement.ts`
takes the union of three sets for; a zone lies under exactly one root, that of
its first label (`RootOfZone`), so the views of the coordinators of the roots
share the photograph out (`RootsShare`); and a commission, rounded down, is
within the rate of the setting that decides and the cap (`CommissionFacts`).

### Periods, phone and messages

`PeriodsInv` adds to the chain of periods who holds the advisory lock, what a
closer that holds it has read (`ClosuresFit`), and that a commission about to be
paid is the sealed one (`RowsFit`). For the phone, `QueuesFit`: the queue, what a
sweep holds of it and what an enqueue remembers are each without repetition and
of operations that are queued. For the messages, `ClaimedFirst` (a message is
claimed before it is handled, by one delivery, and leaves no file before it is
settled) and `ReadIsFresh` (what is read under the lock of the application is
what is written). These are conjuncts of `PeriodsSafe`, `SyncSafe` and
`IntakeSafe`, which the run `progress` checks.

### The field

`MoneySafe` and `TrailSafe` are inductive together: every report in the log has
a stored receipt because the receipt is stored before the transaction that may
refuse the report, and nothing takes a receipt away. `StopsSafe` and
`AnswerIsTrue` are too, because what a key asked for and has happened has
happened for ever (`EffectStays`): stops are only added, closed ones do not
change (`StopsGo`), and a reminder is claimed before it is sent.

### Lending

`OriginationInv` has three parts, all of them in `LendingSafe` of the run
`lending`; the parts of the other scenarios are properties of their own.
`QuietInv`: until two edits of the plans overlap there is one at a time, and
what it decided on is still legal, hence the default that can be offered.
`LockInv`: who is about to commit a grant holds the row of the borrower and the
limit still allows it; payments only lower what is owed (`PaymentLowers`, a
lemma on sums), and whoever blocks the borrower waits for the row. `CalmInv`:
while nothing overtakes anything one request runs at a time, what it read of the
offer is still so, the client was last sent the offer that stands, and an offer
that is accepted never changes again (`MayOffer`); so an approval under that
acceptance grants just what was accepted. Without `calm` it is false, as said
above.

`PoolInv` says that a pair of the matcher joins a receipt and a row that both
arrived, and for a reason; a run of the matcher keeps that because each of its two
passes, by identifier and by amount, only ever takes a free row that fits
(`PassSafe`, by counting up to the last receipt of a pass), and what arrived never
changes. The same lemma says that who is left unpaired has every row that fits him
taken, which is `NothingLeftBehind`; that the pass by identifier comes first gives
`E2EHasPriority`.

`RecordInv` adds to what is promised of the records what a reviewer in flight
knows (`ReviewsKnow`: a proposal it is about to mark approved has been applied)
and that an identifier with inner spaces only comes from a proposal
(`PlainUnlessApplied`), which is how two borrowers may share one. `BorrowersStay`,
that whoever a proposal is about is still there, is proved beside it: a change is
then applied to a row that exists.

`ValidationInv` says that a report in the making has judged documents that were
read (`RunsKnow`), that a report made has the verdict and the score of its alerts
(`ReportsTrue`), and that the last readings were judged or somebody is about to
(`JudgedOrGoing`), which `LastReadingJudged` is once nobody is. What a source that
is down does to a verdict is arithmetic on the alerts. Whether one of them is
critical depends on the local rules and on the sources that answered, so those that
did not neither save nor condemn (`OutageNeverRejects`, `RejectionsStand`); all five
down add 25 points at most, below the 30 that make a report suspicious
(`CleanStaysApproved`).

`MigrationInv` says of a plan about to be saved what is promised of the saved ones,
which the clock, that only advances, does not undo. That a plan is so (`PlanKeeps`)
is the work: the rank of a payment numbers the payments by their days, each once
(`RanksNumber`), so sorting loses none (`ByDateFacts`); payments taken one by one
leave what one of their sum would (`InStages`, by induction on the payments over
`CascadeTwice`); the capital of each is a difference, and the differences telescope
to the capital of the sum (`CapitalOfStages`); equal instalments and a last one with
the rest add up (`ScheduleAddsUp`); and a day that the month lacks is one of the
first three of the next, before the day of the instalment that follows
(`DatesAdvance`, over `Months`: each month begins where the one before ends).

### Conversations

`PixInv` is the bundle with what each handler knows (`TurnKnows`): a text that it
claimed is seen, the menu it answers is the one of its session, the charge it
attaches is of that session, no charge exists for its text before it creates one,
and a code it is about to tell is expected. `ChargesKnow` and `SessionsKnow` tie a
charge at the provider to its session and its expected payment, `TextsApart` keeps
two handlers from one text; without it a retry between the two writes would be a
second charge.

`BotsInv` has the same of each call to Telegram (`ErrandKnows`): while it is alone
its row is the one it read or made and the webhook it registered is the one
Telegram calls. `AloneIsAlone` and `CalmIsAlone` relate that to what `upset`
remembers, so that a bot which nothing disturbed since it was verified is heard
(`CalmIsHeard`).

### Zones and sessions

`OrgInv` has the tree (`PathsFollow`: the path of a zone is that of its parent and
its label, in the table and in the hands of who is about to insert it), what the
one who removes a zone counted below it (`EraserKnows`), and what the one who
replaces the clients of a collector read (`ReplacerKnows`). From the tree follows
that the subtree of a zone is what `<@` finds (`ScopeIsSubtree`).

`AccessInv` is about time: nothing is of a time to come (`OfThePast`), an instance
that remembers a company as active forgets it within `StatusTTL` of its suspension
(`RemembersInTime`), a session has what its user had when he asked for it, and
each request knows that much at each of its steps (`Knows`). The bounds of
`SuspensionCuts` and `ClaimsAreRecent` are sums of these.

### What stays with TLC

- Liveness and fairness, which TLAPS cannot reach here: `EveryTransactionEnds`,
  `MessagesSettle`, `QueueServed`, `PhoneDrains`, `JobCatchesUp`.
- `DigitsSafe`, the check digits: for numbers of a fixed length, a slip passes or
  not by the arithmetic of the weights, where TLC enumerates the numbers and a
  proof would repeat the definition. The other properties of the run `lending` are
  proved, each of its own module.
- What the code does wrong: a counterexample is what shows it, and the six runs
  that expect a violation are of that kind. The theorems about properties that
  fail without it name the condition (`Calm`, `overlapped`, `upset`).

## Not modelled

- Scripts that seed data (`apps/api/scripts`), the screens of the mobile
  application, their texts, the contracts (`packages/contracts`) and the
  migrations: they are most of the lines of the repository and keep no state
  that the rest depends on. The queue of the phone is the exception, `OfflineSync`.
- Queries, reports, dashboards, tracking, news and settings: reads, or single
  statements on rows that nothing else decides on.
- Adapters of external services: their answers are nondeterministic inputs, an
  outage included. The AI that reads documents and photos is one of them.
- Row-level security, which is the frame: a model is of one tenant.
- The indicators of performance of a collector, the order of the stops of a
  route, notes and lists of borrowers, the purge of a company (one transaction,
  and files removed after it), the bank reconciliation of boxes (a typed figure
  beside the balance), the session of the mobile application.

## Plan

What a next step would take, in this order: the screens and the session of the
mobile application beyond its queue, which needs its own module beside
`OfflineSync`; the bank reconciliation of boxes, if it ever decides anything on
the figure it stores; a proof that the statements of a request of `CashLedger`
implement one indivisible operation.
