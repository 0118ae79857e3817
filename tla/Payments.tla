------------------------------ MODULE Payments ------------------------------
(***************************************************************************)
(* The payment pipeline of the API (apps/api/src/payments): PIX receipts,  *)
(* cash payments, expected payments of PIX charges, the per-PIX bank       *)
(* reconciliation, the settlement reconciliation and the manual            *)
(* verification, all crediting the same portfolio.                         *)
(*                                                                         *)
(* Every handler reads in one or more transactions (or, READ COMMITTED, in *)
(* several statements of one), computes the cascade on what it read, and   *)
(* writes in a last transaction whose row locks and conditional updates    *)
(* make it indivisible.  A worker is one handler in flight; `job' is what  *)
(* it has read and not yet used.  An error, a constraint violation or a    *)
(* crash before the last commit loses the job and nothing else: Abandon.   *)
(***************************************************************************)
EXTENDS Portfolio

CONSTANTS
  Workers,        \* handlers that can be in flight at the same time
  Credits,        \* granted credits
  N,              \* instalments of each credit
  Due,            \* Due[c][i]: amount_due_minor
  Principal,      \* Principal[c]: principal_minor
  Receipts,       \* PIX receipts sent by borrowers
  Charges,        \* expected payments of PIX charges
  CashRequests,   \* requests to register a cash payment
  CreditsOf,      \* CreditsOf[p]: the credits of the payer, or of the request
  ReadAmount,     \* ReadAmount[p]: amount read from, or asked by, p; 0 = unreadable
  BankAmount,     \* BankAmount[p]: what the bank confirms for p; 0 = it never does
  E2E,            \* E2E[p]: end-to-end id of the receipt, or NoE2E
  Key,            \* Key[p]: Idempotency-Key of the request, or NoKey
  Incoming,       \* rows of the settlement source
  IncomingAmount, \* IncomingAmount[k], in minor units
  IncomingE2E,    \* IncomingE2E[k], or NoE2E
  Refunded,       \* rows that are not a PIX income
  FieldOrders,    \* BOOLEAN: may a deposit order consume a row?
  Reviewed,       \* payments an operator may verify by hand
  Overrides,      \* amounts an operator may type instead of the known one
  Policies,       \* unverifiedPolicy of the bank accounts: {"HOLD", "ALLOCATE"}
  Reconciles,     \* BOOLEAN: is the per-PIX reconciliation used?
  AutoConfirm,    \* values the tenant's autoConfirmSettlement toggle may have
  MaxAttempts,    \* reconciliation attempts before a payment is flagged
  NoE2E, NoKey, NoCredit

Payments == Receipts \cup Charges \cup CashRequests
Plan == 1..N
Nothing == [i \in Plan |-> 0]
TotalDue(c) == Total(Due[c])

\* consumed_by_payment_id / consumed_by_field_order_id of a row: a payment
\* (a positive number) or one of these.
Absent == -2
FieldOrder == -1
Free == 0

Statuses == {"NONE", "RECEIVED", "VERIFIED", "UNVERIFIED", "REJECTED_FRAUD",
             "REJECTED_INVALID"}

\* assertTerms, and the positive amounts the schema and the parsers guarantee.
ASSUME TermsAssumption ==
  /\ N \in Nat \ {0}
  /\ Due \in [Credits -> [Plan -> Nat]]
  /\ Principal \in [Credits -> Nat \ {0}]
  /\ \A c \in Credits : TotalDue(c) \in Nat /\ TotalDue(c) >= Principal[c]
  /\ NoCredit \notin Credits

ASSUME InputAssumption ==
  /\ Payments \subseteq Nat \ {0}
  /\ Incoming \subseteq Nat \ {0}
  /\ CreditsOf \in [Payments -> SUBSET Credits]
  /\ ReadAmount \in [Payments -> Nat]
  /\ BankAmount \in [Payments -> Nat]
  /\ IncomingAmount \in [Incoming -> Nat \ {0}]
  /\ Overrides \subseteq Nat \ {0}
  /\ Reviewed \subseteq Payments
  /\ MaxAttempts \in Nat \ {0}
  /\ AutoConfirm \subseteq BOOLEAN
  /\ \A p \in Charges \cup CashRequests : ReadAmount[p] > 0
  /\ Receipts \cap Charges = {}
  /\ Receipts \cap CashRequests = {}
  /\ Charges \cap CashRequests = {}

VARIABLES
  paid,          \* paid[c][i]: paid_minor
  creditStatus,  \* creditStatus[c]: "ACTIVE" or "SETTLED"
  payment,       \* payment[p]: its row; status "NONE" while there is none
  alloc,         \* alloc[p][i]: amount of its payment_allocation row, 0 if none
  principal,     \* principal[p][i]: capital part of that row
  posted,        \* posted[p]: amount of its entry in the cash ledger, 0 if none
  consumer,      \* consumer[k]: who consumed settlement row k
  job            \* job[w]: the handler in flight in worker w

vars == <<paid, creditStatus, payment, alloc, principal, posted, consumer, job>>
ledger == <<paid, creditStatus, alloc, principal, posted>>

Matcher == INSTANCE SettlementMatch WITH Claims <- Payments, ClaimE2E <- E2E

NoRow == [status |-> "NONE", credit |-> NoCredit, amount |-> 0, attempts |-> 0]

Idle == [at |-> "idle", pay |-> 0, credit |-> NoCredit, seen |-> Nothing,
         amount |-> 0, attempts |-> 0, row |-> 0, todo |-> {}, claims |-> {},
         auto |-> FALSE]

Init ==
  /\ paid = [c \in Credits |-> Nothing]
  /\ creditStatus = [c \in Credits |-> "ACTIVE"]
  /\ payment = [p \in Payments |-> NoRow]
  /\ alloc = [p \in Payments |-> Nothing]
  /\ principal = [p \in Payments |-> Nothing]
  /\ posted = [p \in Payments |-> 0]
  /\ consumer = [k \in Incoming |-> Absent]
  /\ job = [w \in Workers |-> Idle]
-----------------------------------------------------------------------------
(* The writers shared by every handler, inside its last transaction.        *)

Owed(c) == Remaining(Due[c], paid[c])

\* The increments have lost their bound and the split its checks.
AdmitsAnything(p, c, a) == TRUE

\* splitAllocations and the bounded increments of applyAllocationsTx: a row of
\* this payment for the instalment must not exist, the instalment must admit
\* the amount, and what was paid must stay within the terms.  When one fails
\* the transaction is rolled back, which is Abandon.
Admits(p, c, a) ==
  /\ \A i \in Plan : a[i] \in Nat
  /\ \A i \in Plan : a[i] > 0 => alloc[p][i] = 0
  /\ \A i \in Plan : paid[c][i] + a[i] <= Due[c][i]
  /\ \A i \in Plan \cup {0} : PaidUpTo(Total(paid[c]), a, i) \in 0..TotalDue(c)

\* applyAllocationsTx, with the credit row locked: "paid before" is read here,
\* not taken from the snapshot the cascade was computed on.
ApplyAllocations(p, c, a) ==
  /\ Admits(p, c, a)
  /\ paid' = [paid EXCEPT ![c] = [i \in Plan |-> @[i] + a[i]]]
  /\ alloc' = [alloc EXCEPT ![p] = [i \in Plan |-> @[i] + a[i]]]
  /\ principal' = [principal EXCEPT ![p] =
       [i \in Plan |-> @[i] + SplitPrincipal(Principal[c], TotalDue(c),
                                             Total(paid[c]), a)[i]]]

\* creditSettled was computed on the snapshot; the writers trust it.
Settle(c, settles) ==
  creditStatus' = IF settles THEN [creditStatus EXCEPT ![c] = "SETTLED"]
                  ELSE creditStatus

\* routeVerifiedPaymentToBox: at most one ledger entry per payment, and the
\* first one stays (cash_tx_payment_idx, ON CONFLICT DO NOTHING).
Route(p, amount) ==
  posted' = IF posted[p] = 0 THEN [posted EXCEPT ![p] = amount] ELSE posted

\* The whole credit of one payment by amount m, on the snapshot `seen'.
CreditPayment(p, c, seen, m) ==
  LET a == Cascade(Due[c], seen, m) IN
  /\ m > 0
  /\ ApplyAllocations(p, c, a)
  /\ Settle(c, Settles(Due[c], seen, a))

SetStatus(p, status, amount) ==
  payment' = [payment EXCEPT ![p].status = status, ![p].amount = amount]

Insert(p, status, c, amount) ==
  payment' = [payment EXCEPT ![p] =
    [status |-> status, credit |-> c, amount |-> amount, attempts |-> 0]]

Done(w) == job' = [job EXCEPT ![w] = Idle]

\* One handler at a time per incoming message or request: redeliveries are
\* dropped by the conversation dedup, retries are other members of CashRequests.
Unstarted(p) ==
  /\ payment[p].status = "NONE"
  /\ \A v \in Workers : job[v].pay = p => job[v].at \notin {"receipt", "orphan", "cash"}
-----------------------------------------------------------------------------
(* PIX receipts (SubmitPaymentReceiptHandler).                              *)

ActiveCredits(p) == {c \in CreditsOf[p] : creditStatus[c] = "ACTIVE"}

\* findActiveByPhone: the instalments are read in a transaction of their own.
StartReceipt(w, p) ==
  /\ job[w].at = "idle"
  /\ p \in Receipts
  /\ Unstarted(p)
  /\ \/ \E c \in ActiveCredits(p) :
          job' = [job EXCEPT ![w] = [Idle EXCEPT
                    !.at = "receipt", !.pay = p, !.credit = c, !.seen = paid[c]]]
     \/ /\ ActiveCredits(p) = {}
        /\ job' = [job EXCEPT ![w] = [Idle EXCEPT !.at = "orphan", !.pay = p]]
  /\ UNCHANGED <<ledger, payment, consumer>>

\* The unique index on the end-to-end id is missing.
NeverRegistered(p) == FALSE

\* payment_tenant_end_to_end_idx: the PIX transaction is registered already.
E2ERegistered(p) ==
  E2E[p] # NoE2E /\ \E q \in Receipts :
    q # p /\ E2E[q] = E2E[p] /\ payment[q].status # "NONE"

SaveOrphan(w) ==
  LET p == job[w].pay IN
  /\ job[w].at = "orphan"
  /\ IF E2ERegistered(p) THEN UNCHANGED payment
     ELSE Insert(p, "RECEIVED", NoCredit, ReadAmount[p])
  /\ Done(w)
  /\ UNCHANGED <<ledger, consumer>>

\* decidePaymentReview.
ReviewStatus(fraud, read, bank) ==
  CASE fraud -> "REJECTED_FRAUD"
    [] ~ fraud /\ read = 0 -> "REJECTED_INVALID"
    [] ~ fraud /\ read # 0 /\ bank = "confirmed" -> "VERIFIED"
    [] OTHER -> "UNVERIFIED"

\* Antifraud and bank have answered; savePaymentOutcome writes the outcome in
\* one transaction, or only an audit event if the transaction is a duplicate.
SaveReceipt(w, fraud, bank, policy) ==
  LET p == job[w].pay
      c == job[w].credit
      status == ReviewStatus(fraud, ReadAmount[p], bank)
      amount == IF status = "VERIFIED" THEN BankAmount[p] ELSE ReadAmount[p]
      allocate == status = "VERIFIED" \/ (status = "UNVERIFIED" /\ policy = "ALLOCATE")
  IN
  /\ job[w].at = "receipt"
  /\ bank = "confirmed" => BankAmount[p] > 0
  /\ IF E2ERegistered(p)
     THEN UNCHANGED <<payment, ledger>>
     ELSE /\ Insert(p, status, c, amount)
          /\ IF allocate THEN CreditPayment(p, c, job[w].seen, amount)
             ELSE UNCHANGED <<paid, alloc, principal, creditStatus>>
          /\ IF status = "VERIFIED" THEN Route(p, amount) ELSE UNCHANGED posted
  /\ Done(w)
  /\ UNCHANGED consumer
-----------------------------------------------------------------------------
(* Expected payments of PIX charges (attachCharge).                         *)

CreateCharge(p) ==
  /\ p \in Charges
  /\ payment[p].status = "NONE"
  /\ \E c \in CreditsOf[p] : Insert(p, "UNVERIFIED", c, ReadAmount[p])
  /\ UNCHANGED <<ledger, consumer, job>>
-----------------------------------------------------------------------------
(* Cash payments (registerCashPaymentTx): one transaction, but the reads    *)
(* that open it take no lock.                                               *)

\* The Idempotency-Key already materialised a payment.
KeyUsed(p) ==
  Key[p] # NoKey /\ \E q \in CashRequests :
    q # p /\ Key[q] = Key[p] /\ payment[q].status # "NONE"

StartCash(w, p) ==
  /\ job[w].at = "idle"
  /\ p \in CashRequests
  /\ Unstarted(p)
  /\ ~ KeyUsed(p)
  /\ \E c \in CreditsOf[p] :
       job' = [job EXCEPT ![w] = [Idle EXCEPT
                 !.at = "cash", !.pay = p, !.credit = c, !.seen = paid[c]]]
  /\ UNCHANGED <<ledger, payment, consumer>>

CommitCash(w) ==
  LET p == job[w].pay
      c == job[w].credit
  IN
  /\ job[w].at = "cash"
  /\ ~ KeyUsed(p)   \* payment_tenant_idempotency_idx
  /\ Insert(p, "VERIFIED", c, ReadAmount[p])
  /\ Route(p, ReadAmount[p])
  /\ CreditPayment(p, c, job[w].seen, ReadAmount[p])
  /\ Done(w)
  /\ UNCHANGED consumer
-----------------------------------------------------------------------------
(* Per-PIX reconciliation (ReconcilePendingPaymentsHandler): the batch      *)
(* lists the pending payments first and decides on each one later.          *)

ListUnverified(w, p) ==
  /\ Reconciles
  /\ job[w].at = "idle"
  /\ payment[p].status = "UNVERIFIED"
  /\ job' = [job EXCEPT ![w] = [Idle EXCEPT
               !.at = "listed", !.pay = p, !.attempts = payment[p].attempts]]
  /\ UNCHANGED <<ledger, payment, consumer>>

\* keepPending, which looks at no status; it counts the attempt only if the
\* bank answered not_found.
KeepPending(w, counted) ==
  LET p == job[w].pay IN
  /\ job[w].at = "listed"
  /\ counted => job[w].attempts + 1 < MaxAttempts
  /\ payment' = [payment EXCEPT ![p].attempts = @ + IF counted THEN 1 ELSE 0]
  /\ Done(w)
  /\ UNCHANGED <<ledger, consumer>>

\* flagSuspectedFraud: attempts exhausted, if the payment is still pending.
FlagSuspectedFraud(w) ==
  LET p == job[w].pay IN
  /\ job[w].at = "listed"
  /\ job[w].attempts + 1 >= MaxAttempts
  /\ IF payment[p].status = "UNVERIFIED"
     THEN SetStatus(p, "REJECTED_FRAUD", payment[p].amount)
     ELSE UNCHANGED payment
  /\ Done(w)
  /\ UNCHANGED <<ledger, consumer>>

\* The bank confirmed and loadPortfolio found the credit active; otherwise the
\* payment is kept pending.
LoadForVerification(w) ==
  LET p == job[w].pay
      c == payment[p].credit
  IN
  /\ job[w].at = "listed"
  /\ BankAmount[p] > 0
  /\ c # NoCredit
  /\ creditStatus[c] = "ACTIVE"
  /\ job' = [job EXCEPT ![w] = [Idle EXCEPT
               !.at = "verify", !.pay = p, !.credit = c, !.seen = paid[c],
               !.amount = BankAmount[p]]]
  /\ UNCHANGED <<ledger, payment, consumer>>

\* The update of the payment has lost its WHERE status = 'UNVERIFIED'.
ApplyVerificationUnguarded(w) ==
  LET p == job[w].pay IN
  /\ job[w].at = "verify"
  /\ SetStatus(p, "VERIFIED", job[w].amount)
  /\ CreditPayment(p, job[w].credit, job[w].seen, job[w].amount)
  /\ Route(p, job[w].amount)
  /\ Done(w)
  /\ UNCHANGED consumer

\* The payment becomes VERIFIED but its money never reaches the ledger.
ApplyVerificationUnrouted(w) ==
  LET p == job[w].pay IN
  /\ job[w].at = "verify"
  /\ IF payment[p].status = "UNVERIFIED"
     THEN /\ SetStatus(p, "VERIFIED", job[w].amount)
          /\ CreditPayment(p, job[w].credit, job[w].seen, job[w].amount)
          /\ UNCHANGED posted
     ELSE UNCHANGED <<ledger, payment>>
  /\ Done(w)
  /\ UNCHANGED consumer

\* applyVerification: only a payment that is still UNVERIFIED is credited.
ApplyVerification(w) ==
  LET p == job[w].pay IN
  /\ job[w].at = "verify"
  /\ IF payment[p].status = "UNVERIFIED"
     THEN /\ SetStatus(p, "VERIFIED", job[w].amount)
          /\ CreditPayment(p, job[w].credit, job[w].seen, job[w].amount)
          /\ Route(p, job[w].amount)
     ELSE UNCHANGED <<ledger, payment>>
  /\ Done(w)
  /\ UNCHANGED consumer
-----------------------------------------------------------------------------
(* Settlement reconciliation (RunSettlementReconciliationService).          *)

Pending == {p \in Payments : payment[p].status = "UNVERIFIED"}
FreeRows == {k \in Incoming : consumer[k] = Free}

\* autoConfirm and loadPendingClaims.  A run that finds no claim does nothing.
LoadPendingClaims(w, auto) ==
  /\ job[w].at = "idle"
  /\ Pending # {}
  /\ job' = [job EXCEPT ![w] = [Idle EXCEPT
               !.at = "claims", !.auto = auto, !.claims = Pending]]
  /\ UNCHANGED <<ledger, payment, consumer>>

\* paymentsWithReservedCredit: a claim that has a row already is left out.
Reserved(p) == \E k \in Incoming : consumer[k] = p

DropReserved(w) ==
  /\ job[w].at = "claims"
  /\ job' = [job EXCEPT ![w].at = "matching",
                        ![w].claims = {p \in @ : ~ Reserved(p)}]
  /\ UNCHANGED <<ledger, payment, consumer>>

\* listUnconsumed and the pure match, on claims loaded some time ago.
MatchCredits(w) ==
  LET found == Matcher!MatchCreditsToClaims(job[w].claims, FreeRows)
      pairs == {m \in job[w].claims \X FreeRows : found[m[1]] = m[2]}
  IN
  /\ job[w].at = "matching"
  /\ job' = [job EXCEPT ![w] = IF pairs = {} THEN Idle
                               ELSE [Idle EXCEPT !.at = "matches", !.todo = pairs,
                                                 !.auto = job[w].auto]]
  /\ UNCHANGED <<ledger, payment, consumer>>

\* The matches are handled one by one, in the order of the claims.
IsNext(w, m) == m \in job[w].todo /\ \A o \in job[w].todo : m[1] <= o[1]

AfterMatch(w, m) ==
  LET rest == job[w].todo \ {m} IN
  job' = [job EXCEPT ![w] = IF rest = {} THEN Idle
                            ELSE [Idle EXCEPT !.at = "matches", !.todo = rest,
                                              !.auto = job[w].auto]]

\* confirmMatch, up to loadPortfolio; a claim without an active credit is
\* left for manual review.
LoadForConfirm(w, m) ==
  LET c == payment[m[1]].credit IN
  /\ job[w].at = "matches" /\ job[w].auto
  /\ IsNext(w, m)
  /\ IF c # NoCredit /\ creditStatus[c] = "ACTIVE"
     THEN job' = [job EXCEPT ![w].at = "confirm", ![w].pay = m[1], ![w].row = m[2],
                             ![w].credit = c, ![w].seen = paid[c],
                             ![w].amount = IncomingAmount[m[2]]]
     ELSE AfterMatch(w, m)
  /\ UNCHANGED <<ledger, payment, consumer>>

\* The row is not locked again, or a deposit order's row is taken for free.
StillPending(p, k) == payment[p].status = "UNVERIFIED"

\* A claim still pending and a row still free: the locked re-checks of
\* confirmWithCredit and reserveCreditForReview.
StillOpen(p, k) == payment[p].status = "UNVERIFIED" /\ consumer[k] = Free

\* confirmWithCredit: consume the row and credit its amount, both or nothing.
ConfirmWithCredit(w) ==
  LET p == job[w].pay
      k == job[w].row
  IN
  /\ job[w].at = "confirm"
  /\ IF StillOpen(p, k)
     THEN /\ consumer' = [consumer EXCEPT ![k] = p]
          /\ SetStatus(p, "VERIFIED", job[w].amount)
          /\ CreditPayment(p, job[w].credit, job[w].seen, job[w].amount)
          /\ Route(p, job[w].amount)
     ELSE UNCHANGED <<ledger, payment, consumer>>
  /\ AfterMatch(w, <<p, k>>)

\* reserveCreditForReview: consume the row, credit nothing.
ReserveCreditForReview(w, m) ==
  /\ job[w].at = "matches" /\ ~ job[w].auto
  /\ IsNext(w, m)
  /\ consumer' = IF StillOpen(m[1], m[2]) THEN [consumer EXCEPT ![m[2]] = m[1]]
                 ELSE consumer
  /\ AfterMatch(w, m)
  /\ UNCHANGED <<ledger, payment>>
-----------------------------------------------------------------------------
(* Manual verification (ManualVerifyPaymentRepository.verify): one          *)
(* transaction whose first reads, status included, take no lock.            *)

\* A payment that is VERIFIED already may be verified by hand again.
VerifiableAgain(p) == payment[p].status # "NONE" /\ payment[p].credit # NoCredit

\* assertManuallyVerifiable, and a credit to allocate to.
Verifiable(p) ==
  payment[p].status \notin {"NONE", "VERIFIED"} /\ payment[p].credit # NoCredit

\* The amount typed by the operator, else the reserved row's, else the payment's.
ManualAmounts(p) ==
  Overrides \cup
  IF Reserved(p) THEN {IncomingAmount[k] : k \in {k \in Incoming : consumer[k] = p}}
  ELSE {payment[p].amount}

ReadForManual(w, p) ==
  /\ job[w].at = "idle"
  /\ p \in Reviewed
  /\ Verifiable(p)
  /\ \E m \in ManualAmounts(p) \ {0} :
       job' = [job EXCEPT ![w] = [Idle EXCEPT !.at = "read", !.pay = p, !.amount = m,
                                              !.credit = payment[p].credit]]
  /\ UNCHANGED <<ledger, payment, consumer>>

LoadForManual(w) ==
  /\ job[w].at = "read"
  /\ job' = [job EXCEPT ![w].at = "manual", ![w].seen = paid[job[w].credit]]
  /\ UNCHANGED <<ledger, payment, consumer>>

\* The payment verified by hand never reaches the ledger.
CommitManualUnrouted(w) ==
  LET p == job[w].pay IN
  /\ job[w].at = "manual"
  /\ CreditPayment(p, job[w].credit, job[w].seen, job[w].amount)
  /\ SetStatus(p, "VERIFIED", job[w].amount)
  /\ UNCHANGED <<posted, consumer>>
  /\ Done(w)

CommitManual(w) ==
  LET p == job[w].pay IN
  /\ job[w].at = "manual"
  /\ CreditPayment(p, job[w].credit, job[w].seen, job[w].amount)
  /\ SetStatus(p, "VERIFIED", job[w].amount)
  /\ Route(p, job[w].amount)
  /\ Done(w)
  /\ UNCHANGED consumer
-----------------------------------------------------------------------------
(* The settlement source and the deposit orders, seen from here.            *)

\* ingestMany: a row is ingested once, redeliveries change nothing.
Ingest(k) ==
  /\ consumer[k] = Absent
  /\ consumer' = [consumer EXCEPT ![k] = Free]
  /\ UNCHANGED <<ledger, payment, job>>

\* consumeBankCredit: a deposit order takes a row that is locked and free.
ConsumeBankCredit(k) ==
  /\ FieldOrders
  /\ consumer[k] = Free
  /\ consumer' = [consumer EXCEPT ![k] = FieldOrder]
  /\ UNCHANGED <<ledger, payment, job>>

\* A crash, a rolled back transaction, or a handler that gives up.
Abandon(w) ==
  /\ job[w].at # "idle"
  /\ Done(w)
  /\ UNCHANGED <<ledger, payment, consumer>>
-----------------------------------------------------------------------------
Receive(w) ==
  \/ \E p \in Receipts : StartReceipt(w, p)
  \/ SaveOrphan(w)
  \/ \E fraud \in BOOLEAN, bank \in {"confirmed", "not_found", "unavailable"},
        policy \in Policies : SaveReceipt(w, fraud, bank, policy)

RegisterCash(w) ==
  \/ \E p \in CashRequests : StartCash(w, p)
  \/ CommitCash(w)

Reconcile(w) ==
  \/ \E p \in Payments : ListUnverified(w, p)
  \/ \E counted \in BOOLEAN : KeepPending(w, counted)
  \/ FlagSuspectedFraud(w)
  \/ LoadForVerification(w)
  \/ ApplyVerification(w)

RunSettlement(w) ==
  \/ \E auto \in AutoConfirm : LoadPendingClaims(w, auto)
  \/ DropReserved(w)
  \/ MatchCredits(w)
  \/ \E m \in job[w].todo : LoadForConfirm(w, m)
  \/ ConfirmWithCredit(w)
  \/ \E m \in job[w].todo : ReserveCreditForReview(w, m)

VerifyByHand(w) ==
  \/ \E p \in Reviewed : ReadForManual(w, p)
  \/ LoadForManual(w)
  \/ CommitManual(w)

Source ==
  \/ \E p \in Charges : CreateCharge(p)
  \/ \E k \in Incoming : Ingest(k)
  \/ \E k \in Incoming : ConsumeBankCredit(k)

Next ==
  \/ \E w \in Workers :
       \/ Receive(w)
       \/ RegisterCash(w)
       \/ Reconcile(w)
       \/ RunSettlement(w)
       \/ VerifyByHand(w)
       \/ Abandon(w)
  \/ Source

Spec == Init /\ [][Next]_vars
-----------------------------------------------------------------------------
Stages == {"idle", "receipt", "orphan", "cash", "listed", "verify", "claims",
           "matching", "matches", "confirm", "read", "manual"}

PaymentRows == [status : Statuses, credit : Credits \cup {NoCredit},
                amount : Nat, attempts : Nat]

Jobs == [at : Stages, pay : Payments \cup {0}, credit : Credits \cup {NoCredit},
         seen : [Plan -> Nat], amount : Nat, attempts : Nat,
         row : Incoming \cup {0}, todo : SUBSET (Payments \X Incoming),
         claims : SUBSET Payments, auto : BOOLEAN]

TypeOK ==
  /\ paid \in [Credits -> [Plan -> Nat]]
  /\ creditStatus \in [Credits -> {"ACTIVE", "SETTLED"}]
  /\ payment \in [Payments -> PaymentRows]
  /\ alloc \in [Payments -> [Plan -> Nat]]
  /\ principal \in [Payments -> [Plan -> Int]]
  /\ posted \in [Payments -> Nat]
  /\ consumer \in [Incoming -> Payments \cup {Absent, Free, FieldOrder}]
  /\ job \in [Workers -> Jobs]

Verified(p) == payment[p].status = "VERIFIED"

\* The bounded increment holds: no instalment is ever paid beyond what it owes
\* (allocation-writer.ts lines 14-15), whatever stale snapshot a cascade used.
PaidWithinDue == \A c \in Credits, i \in Plan : paid[c][i] <= Due[c][i]

\* A credit is closed only when nothing is owed.  Two of the three writers of
\* SETTLED trust a creditSettled computed on an earlier snapshot and update the
\* credit with no condition (credit-portfolio.repository.ts lines 142-147,
\* payment-reconciliation.repository.ts lines 337-342).
SettledIsPaid ==
  \A c \in Credits : creditStatus[c] = "SETTLED" =>
    \A i \in Plan : paid[c][i] = Due[c][i]

\* "Una cartera saldada deja el credito SETTLED, dentro de la transaccion del
\* abono" (settleCreditTx, allocation-writer.ts lines 109-113).
PaidIsSettled ==
  \A c \in Credits :
    (\A i \in Plan : paid[c][i] = Due[c][i]) => creditStatus[c] = "SETTLED"

\* The portfolio and the cash ledger are two views of the same money: a payment
\* has a ledger entry exactly when it is VERIFIED, of exactly its amount.
LedgerBacksVerified ==
  \A p \in Payments : posted[p] = IF Verified(p) THEN payment[p].amount ELSE 0

\* Two operators may verify one payment by hand for two amounts, and its entry
\* keeps the first (payment-box-router.ts, ON CONFLICT DO NOTHING); but there is
\* an entry for it, one, exactly when it is VERIFIED, whoever verified it.
VerifiedIsBacked == \A p \in Payments : Verified(p) <=> posted[p] > 0

\* One PIX transaction, and one Idempotency-Key, materialise one payment.
OncePerTransaction ==
  \A p, q \in Payments :
    /\ p # q
    /\ payment[p].status # "NONE" /\ payment[q].status # "NONE"
    => /\ {p, q} \subseteq Receipts /\ E2E[p] = E2E[q] => E2E[p] = NoE2E
       /\ {p, q} \subseteq CashRequests /\ Key[p] = Key[q] => Key[p] = NoKey

\* The portfolio never receives more from a payment than the payment is worth:
\* "Un end_to_end_id PIX solo puede abonarse una vez por tenant".
CreditedOnce ==
  \A p \in Payments : Total(alloc[p]) <= payment[p].amount

\* The rows of payment_allocation account for the instalments, to the centavo,
\* and their capital parts for the capital recovered; and however stale the
\* snapshots, the money sits on the oldest instalments.
PortfolioConsistent ==
  \A c \in Credits :
    LET ps == {p \in Payments : payment[p].credit = c} IN
    /\ \A i \in Plan : paid[c][i] = SumOver([p \in Payments |-> alloc[p][i]], ps)
    /\ SumOver([p \in Payments |-> Total(principal[p])], ps) =
         PrincipalRecovered(Principal[c], TotalDue(c), Total(paid[c]))
    /\ \A i, j \in Plan : i < j /\ paid[c][j] > 0 => paid[c][i] = Due[c][i]

\* "Una reserva por pago": a cycle of the settlement does not reserve another row
\* for a payment that has one (incoming-credit.repository.ts lines 136-138).
OneReservationPerPayment ==
  \A j, k \in Incoming : consumer[j] = consumer[k] /\ consumer[j] > 0 => j = k

\* I1: a row that was consumed stays with its consumer, payment or deposit
\* order, whatever the two do at the same time.
RowsNeverChangeHands ==
  [][\A k \in Incoming : consumer[k] \notin {Absent, Free} =>
       consumer'[k] = consumer[k]]_vars

\* A payment becomes effective once: its amount, its allocations and its
\* ledger entry are final (payment-review.ts lines 21-22).
VerifiedIsFinal ==
  [][\A p \in Payments : Verified(p) =>
       /\ payment'[p].status = "VERIFIED"
       /\ payment'[p].amount = payment[p].amount
       /\ alloc'[p] = alloc[p]
       /\ posted'[p] = posted[p]]_vars

\* The pipeline implements the account: the cascades its handlers compute on
\* stale snapshots have, when they commit, the effect of one indivisible
\* cascade on the current instalments, once per payment.
AllAmounts ==
  {BankAmount[p] : p \in Payments} \cup {ReadAmount[p] : p \in Payments}
    \cup {IncomingAmount[k] : k \in Incoming} \cup Overrides

Account == INSTANCE CreditAccount WITH
  Amounts  <- AllAmounts,
  credited <- [p \in Payments |-> IF Verified(p) THEN payment[p].amount ELSE 0],
  creditOf <- [p \in Payments |-> IF Verified(p) THEN payment[p].credit ELSE "none"]

ImplementsCreditAccount == Account!AccountSpec
-----------------------------------------------------------------------------
(* The inductive invariant of PaymentsProofs.                               *)

\* The stages of a job that name a payment, a credit, a snapshot of it.
WithPay == {"receipt", "orphan", "cash", "listed", "verify", "confirm", "read", "manual"}
WithCredit == {"receipt", "cash", "verify", "confirm", "read", "manual"}
WithSnapshot == {"receipt", "cash", "verify", "confirm", "manual"}

\* What a job knows is true or was: instalments only grow, so a snapshot never
\* shows more than was paid.
JobFits(j, pd) ==
  /\ j.at \in WithPay => j.pay \in Payments
  /\ j.at = "confirm" => j.row \in Incoming
  /\ j.at \in WithCredit => j.credit \in Credits
  /\ j.at \in WithSnapshot => \A i \in Plan : j.seen[i] <= pd[j.credit][i]

SnapshotsNeverAhead == \A w \in Workers : JobFits(job[w], paid)

\* The strengthening of SettledIsPaid that every step preserves.
SafetyInv == TypeOK /\ PaidWithinDue /\ SettledIsPaid /\ SnapshotsNeverAhead

\* The stages of a job that brings a payment in, and of one that holds a payment
\* it read, by hand or not.
Arriving == {"receipt", "orphan", "cash"}
Holding == {"verify", "confirm", "read", "manual"}
ByHand == {"read", "manual"}

\* No handler can commit a manual verification behind another handler's back.
Alone == \A v, w \in Workers : v = w
Calm == Reviewed = {} \/ Alone

\* What job j knows of the payments pm.
JobTrue(j, pm) ==
  /\ j.at \in {"receipt", "orphan"} => j.pay \in Receipts
  /\ j.at = "cash" => j.pay \in CashRequests
  /\ j.at \in Arriving => pm[j.pay].status = "NONE"
  /\ j.at \in Holding => pm[j.pay].credit = j.credit /\ j.amount \in AllAmounts
  /\ j.at \in ByHand => j.pay \in Reviewed /\ (Calm => pm[j.pay].status # "VERIFIED")

JobsTrue == \A w \in Workers : JobTrue(job[w], payment)

\* Two handlers never bring in the same payment.
OneHandler ==
  \A v, w \in Workers :
    job[v].at \in Arriving /\ job[w].at \in Arriving /\ job[v].pay = job[w].pay => v = w

\* A payment with no credit has moved no money.
RowsBound ==
  \A p \in Payments :
    /\ payment[p].status = "NONE" => payment[p].credit = NoCredit
    /\ payment[p].credit = NoCredit =>
         alloc[p] = Nothing /\ principal[p] = Nothing /\ posted[p] = 0
    /\ payment[p].amount \in AllAmounts \cup {0}

\* The strengthening of the results about money that every step preserves: what
\* each handler of register-cash-payment, reconcile-pending-payments and
\* payment-review holds is still as it read it.
KnowledgeInv == SafetyInv /\ JobsTrue /\ OneHandler /\ RowsBound
=============================================================================
