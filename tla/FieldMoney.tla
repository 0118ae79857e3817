----------------------------- MODULE FieldMoney -----------------------------
(***************************************************************************)
(* Money a collector hands over or spends without a remittance: deposit    *)
(* orders (apps/api/src/cash/deposit-order.repository.ts) and expenses     *)
(* (packages/application/src/cash/expenses.ts, expense.repository.ts).     *)
(*                                                                         *)
(* One step is one transaction: each of these takes the row of the order   *)
(* and the locks of its boxes before it decides (module CashLedger has the *)
(* statements of a posting).  What spans two transactions is two steps: a  *)
(* report stores its receipt before it writes the order, and the review of *)
(* an expense reads it in one transaction and writes it in another.        *)
(***************************************************************************)
EXTENDS Sums, Sequences

CONSTANTS
  Collectors,
  RouteBoxes,    \* CASH boxes assigned to a collector
  OfficeBoxes,   \* CASH boxes of the office
  BankBoxes,     \* BANK boxes
  Orders,        \* rows of field_order that may be used
  Expenses,      \* rows of expense that may be used
  BankCredits,   \* rows of incoming_credit that may be used
  Phones,        \* requests of the collectors' phones in flight
  Reviewers,     \* requests of the reviewers of expenses in flight
  Closable,      \* boxes that may be deactivated
  Amounts,
  MaxIncome,     \* bound on the cash a box collects
  MaxFiles,      \* bound on the receipts stored
  MaxEvents,     \* bound on the events of an order
  None           \* absence of a collector, a box, an order or a payment

Boxes == RouteBoxes \cup OfficeBoxes \cup BankBoxes

ASSUME FieldAssumption ==
  /\ Amounts \subseteq Nat \ {0}
  /\ RouteBoxes \cap (OfficeBoxes \cup BankBoxes) = {}
  /\ OfficeBoxes \cap BankBoxes = {}
  /\ Closable \subseteq Boxes
  /\ None \notin Collectors \cup Boxes \cup Orders \cup Expenses \cup BankCredits
  /\ "payment" \notin Orders \cup {None}
  /\ MaxIncome \in Nat /\ MaxFiles \in Nat /\ MaxEvents \in Nat

VARIABLES
  income,   \* income[b]: cash collected into b, PIX payments for a bank box
  balance,  \* balance[b]: sum of the entries of the box
  box,      \* box[b]: assigned_to and active
  order,    \* order[o]: row of field_order
  log,      \* log[o]: its rows of field_order_event
  file,     \* file: the receipts in the bucket, the key of one is its position
  upload,   \* upload[p]: a report whose receipt is stored, not yet written
  credit,   \* credit[k]: row of incoming_credit
  expense,  \* expense[e]: row of expense
  paid,     \* paid[e]: entries of the ledger with that expense_id
  review    \* review[v]: a decision taken, not yet written

ledger == <<income, balance>>
orders == <<order, log, file, upload>>
expenses == <<expense, paid, review>>
vars == <<ledger, box, orders, credit, expenses>>

NoOrder == [status |-> "NONE", collector |-> None, from |-> None, to |-> None,
            amount |-> 0, reported |-> 0, verified |-> 0, receipt |-> 0]
NoUpload == [order |-> None, amount |-> 0, key |-> 0]
NoCredit == [account |-> None, amount |-> 0, usedBy |-> None]
NoExpense == [status |-> "NONE", by |-> None, amount |-> 0, from |-> None]
NoReview == [expense |-> None, status |-> "NONE", from |-> None]

Init ==
  /\ income = [b \in Boxes |-> 0]
  /\ balance = [b \in Boxes |-> 0]
  /\ box \in [Boxes -> [owner : Collectors \cup {None}, active : {TRUE}]]
  /\ \A b \in Boxes : box[b].owner = None <=> b \notin RouteBoxes
  /\ order = [o \in Orders |-> NoOrder]
  /\ log = [o \in Orders |-> <<>>]
  /\ file = <<>>
  /\ upload = [p \in Phones |-> NoUpload]
  /\ credit = [k \in BankCredits |-> NoCredit]
  /\ expense = [e \in Expenses |-> NoExpense]
  /\ paid = [e \in Expenses |-> <<>>]
  /\ review = [v \in Reviewers |-> NoReview]
-----------------------------------------------------------------------------
(* The boxes, as the other modules move them.                               *)

\* post with direction IN: a cash payment into a box.
Collect(b, m) ==
  /\ b \notin BankBoxes
  /\ box[b].active
  /\ income[b] + m <= MaxIncome
  /\ income' = [income EXCEPT ![b] = @ + m]
  /\ balance' = [balance EXCEPT ![b] = @ + m]
  /\ UNCHANGED <<box, orders, credit, expenses>>

\* update: a box is deactivated, or active again.
SetActive(b, on) ==
  /\ b \in Closable
  /\ box[b].active # on
  /\ box' = [box EXCEPT ![b].active = on]
  /\ UNCHANGED <<ledger, orders, credit, expenses>>

\* ingestMany: a credit the bank reports for the account of a BANK box.
BankReports(k, b, m) ==
  /\ credit[k] = NoCredit
  /\ credit' = [credit EXCEPT ![k] = [account |-> b, amount |-> m, usedBy |-> None]]
  /\ UNCHANGED <<ledger, box, orders, expenses>>

\* Free: taken neither by a payment nor by an order.
FreeForPayment(k) == credit[k].usedBy = None

\* confirmWithCredit: a PIX payment takes the credit and enters the box.
ConfirmPayment(k) ==
  LET b == credit[k].account IN
  /\ credit[k] # NoCredit
  /\ FreeForPayment(k)
  /\ credit' = [credit EXCEPT ![k].usedBy = "payment"]
  /\ income' = [income EXCEPT ![b] = @ + credit[k].amount]
  /\ balance' = [balance EXCEPT ![b] = @ + credit[k].amount]
  /\ UNCHANGED <<box, orders, expenses>>
-----------------------------------------------------------------------------
(* Deposit orders.                                                          *)

\* appendEvent.
Append1(o, type, key, amount) ==
  /\ Len(log[o]) < MaxEvents
  /\ log' = [log EXCEPT ![o] = Append(@, [type |-> type, key |-> key, amount |-> amount])]

\* assertCanIssueDeposit.
CanIssueDeposit(amount, cashInHand) == amount <= cashInHand

\* assertValidDestination.
ValidDestination(b) == b \in BankBoxes /\ box[b].active

\* issue, for the route box that findRouteBox gives.
Issue(o, c, b, d, m) ==
  /\ order[o] = NoOrder
  /\ box[b] = [owner |-> c, active |-> TRUE]
  /\ CanIssueDeposit(m, balance[b])
  /\ ValidDestination(d)
  /\ order' = [order EXCEPT ![o] = [NoOrder EXCEPT !.status = "ISSUED", !.collector = c,
                                      !.from = b, !.to = d, !.amount = m]]
  /\ Append1(o, "ISSUED", 0, m)
  /\ UNCHANGED <<ledger, box, file, upload, credit, expenses>>

\* markSeen: only the first time.
MarkSeen(o) ==
  /\ order[o].status = "ISSUED"
  /\ order' = [order EXCEPT ![o].status = "SEEN"]
  /\ Append1(o, "SEEN", 0, 0)
  /\ UNCHANGED <<ledger, box, file, upload, credit, expenses>>

\* Every report of an order has the same object.
KeyOfOrder(o) == CHOOSE i \in 1..(Len(file) + 1) :
  \/ i = Len(file) + 1 /\ \A j \in 1..Len(file) : file[j].order # o
  \/ i <= Len(file) /\ file[i].order = o

\* Every report has an object of its own (a random key).
KeyOf(o) == Len(file) + 1

\* report, up to files.put: nothing of the order has been looked at.
StoreReport(p, o, m) ==
  LET key == KeyOf(o)
      content == [order |-> o, amount |-> m]
  IN
  /\ upload[p] = NoUpload
  /\ order[o] # NoOrder
  /\ key <= MaxFiles
  /\ file' = IF key <= Len(file) THEN [file EXCEPT ![key] = content]
             ELSE Append(file, content)
  /\ upload' = [upload EXCEPT ![p] = [order |-> o, amount |-> m, key |-> key]]
  /\ UNCHANGED <<ledger, box, order, log, credit, expenses>>

\* reportDeposit.
ReportableFrom == {"ISSUED", "SEEN", "DISPUTED"}

\* The transaction of report.
WriteReport(p) ==
  LET o == upload[p].order IN
  /\ upload[p] # NoUpload
  /\ order[o].status \in ReportableFrom
  /\ order' = [order EXCEPT ![o].status = "REPORTED", ![o].reported = upload[p].amount,
                            ![o].receipt = upload[p].key]
  /\ Append1(o, "REPORTED", upload[p].key, upload[p].amount)
  /\ upload' = [upload EXCEPT ![p] = NoUpload]
  /\ UNCHANGED <<ledger, box, file, credit, expenses>>

\* INVALID_ORDER_TRANSITION, or the process dies: the object stays.
DropReport(p) ==
  /\ upload[p] # NoUpload
  /\ upload' = [upload EXCEPT ![p] = NoUpload]
  /\ UNCHANGED <<ledger, box, order, log, file, credit, expenses>>

\* BANK_CREDIT_MISMATCH is not checked.
CanConsumeOther(k, o, m) == credit[k] # NoCredit /\ credit[k].usedBy = None

\* consumeBankCredit: free, of the destination account, for what is verified.
CanConsume(k, o, m) ==
  /\ credit[k] # NoCredit
  /\ credit[k].usedBy = None
  /\ credit[k].account = order[o].to
  /\ credit[k].amount = m

\* The order is read without FOR UPDATE, and has been verified meanwhile.
VerifiableFromAny == {"REPORTED", "VERIFIED"}

\* verifyDeposit.
VerifiableFrom == {"REPORTED"}

\* The boxes are not locked in their turn: the balance read is another one.
CanTransferUnlocked(b, d, m) == box[b].active /\ box[d].active

\* postTransferTx: both boxes active, no overdraft of the origin.
CanTransfer(b, d, m) == box[b].active /\ box[d].active /\ balance[b] - m >= 0

\* verify; k is None when no bank credit is linked.
Verify(o, k, m) ==
  LET b == order[o].from
      d == order[o].to
  IN
  /\ order[o].status \in VerifiableFrom
  /\ k # None => CanConsume(k, o, m)
  /\ CanTransfer(b, d, m)
  /\ balance' = [balance EXCEPT ![b] = @ - m, ![d] = @ + m]
  /\ order' = [order EXCEPT ![o].status = "VERIFIED", ![o].verified = m]
  /\ credit' = IF k = None THEN credit ELSE [credit EXCEPT ![k].usedBy = o]
  /\ Append1(o, "VERIFIED", 0, m)
  /\ UNCHANGED <<income, box, file, upload, expenses>>

DisputableFrom == {"REPORTED"}

\* A report that waits to be verified may be cancelled too.
CancellableFromAny == {"ISSUED", "SEEN", "REPORTED", "DISPUTED", "VERIFIED"}

\* cancelOrder.
CancellableFrom == {"ISSUED", "SEEN", "DISPUTED"}

\* close, with DISPUTED or CANCELLED.
Close(o, action) ==
  /\ order[o].status \in IF action = "DISPUTED" THEN DisputableFrom ELSE CancellableFrom
  /\ order' = [order EXCEPT ![o].status = action]
  /\ Append1(o, action, 0, 0)
  /\ UNCHANGED <<ledger, box, file, upload, credit, expenses>>

Comment(o) ==
  /\ order[o] # NoOrder
  /\ Append1(o, "COMMENT", 0, 0)
  /\ UNCHANGED <<ledger, box, order, file, upload, credit, expenses>>
-----------------------------------------------------------------------------
(* Expenses.                                                                *)

\* RequestExpenseHandler; its receipt is stored first.
RequestExpense(e, c, m) ==
  /\ expense[e] = NoExpense
  /\ expense' = [expense EXCEPT ![e] = [NoExpense EXCEPT !.status = "PENDING", !.by = c,
                                          !.amount = m]]
  /\ UNCHANGED <<ledger, box, orders, credit, paid, review>>

\* reviewExpense: only a PENDING expense is reviewed.
Reviewable(e) == expense[e].status = "PENDING"

\* ReviewExpenseHandler, up to updateReview: findById and the decision.
Decide(v, e, status, b) ==
  /\ review[v] = NoReview
  /\ Reviewable(e)
  /\ status = "APPROVED" <=> b # None
  /\ review' = [review EXCEPT ![v] = [expense |-> e, status |-> status, from |-> b]]
  /\ UNCHANGED <<ledger, box, orders, credit, expense, paid>>

\* assertCanPayExpenseFrom: not from the route box of another collector.
CanPayExpenseFrom(c, b) == box[b].owner \in {c, None}

\* cash_tx_expense_idx is not there.
PayableAgain(e) == TRUE

\* cash_tx_expense_idx: one entry for each expense.
Payable(e) == paid[e] = <<>>

\* postCashOut.
CanPostOut(b, m) == box[b].active /\ balance[b] - m >= 0

\* The rejected half of updateReview: the row is written whatever its status.
WriteRejection(v) ==
  LET e == review[v].expense IN
  /\ review[v].status = "REJECTED"
  /\ expense' = [expense EXCEPT ![e].status = "REJECTED", ![e].from = None]
  /\ review' = [review EXCEPT ![v] = NoReview]
  /\ UNCHANGED <<ledger, box, orders, credit, paid>>

\* The approved half: the row and the entry in one transaction.
WriteApproval(v) ==
  LET e == review[v].expense
      b == review[v].from
      m == expense[e].amount
  IN
  /\ review[v].status = "APPROVED"
  /\ CanPayExpenseFrom(expense[e].by, b)
  /\ CanPostOut(b, m)
  /\ Payable(e)
  /\ expense' = [expense EXCEPT ![e].status = "APPROVED", ![e].from = b]
  /\ balance' = [balance EXCEPT ![b] = @ - m]
  /\ paid' = [paid EXCEPT ![e] = Append(@, [from |-> b, amount |-> m, owner |-> box[b].owner])]
  /\ review' = [review EXCEPT ![v] = NoReview]
  /\ UNCHANGED <<income, box, orders, credit>>

\* An error or a crash: the transaction of updateReview is rolled back.
DropReview(v) ==
  /\ review[v] # NoReview
  /\ review' = [review EXCEPT ![v] = NoReview]
  /\ UNCHANGED <<ledger, box, orders, credit, expense, paid>>
-----------------------------------------------------------------------------
BoxStep ==
  \/ \E b \in Boxes : (\E m \in Amounts : Collect(b, m)) \/ \E on \in BOOLEAN : SetActive(b, on)
  \/ \E k \in BankCredits : ConfirmPayment(k) \/
       \E b \in BankBoxes, m \in Amounts : BankReports(k, b, m)

OrderStep ==
  \/ \E o \in Orders :
       \/ \E c \in Collectors, b \in RouteBoxes, d \in Boxes, m \in Amounts :
            Issue(o, c, b, d, m)
       \/ MarkSeen(o)
       \/ \E k \in BankCredits \cup {None}, m \in Amounts : Verify(o, k, m)
       \/ \E action \in {"DISPUTED", "CANCELLED"} : Close(o, action)
       \/ Comment(o)
  \/ \E p \in Phones :
       (\E o \in Orders, m \in Amounts : StoreReport(p, o, m)) \/ WriteReport(p) \/ DropReport(p)

ExpenseStep ==
  \/ \E e \in Expenses, c \in Collectors, m \in Amounts : RequestExpense(e, c, m)
  \/ \E v \in Reviewers :
       \/ \E e \in Expenses, status \in {"APPROVED", "REJECTED"}, b \in Boxes \cup {None} :
            Decide(v, e, status, b)
       \/ WriteRejection(v)
       \/ WriteApproval(v)
       \/ DropReview(v)

Next == BoxStep \/ OrderStep \/ ExpenseStep

Spec == Init /\ [][Next]_vars
-----------------------------------------------------------------------------
OrderStatus == {"ISSUED", "SEEN", "REPORTED", "DISPUTED", "VERIFIED", "CANCELLED"}

TypeOK ==
  /\ income \in [Boxes -> Nat]
  /\ balance \in [Boxes -> Nat]
  /\ box \in [Boxes -> [owner : Collectors \cup {None}, active : BOOLEAN]]
  /\ order \in [Orders -> [status : OrderStatus \cup {"NONE"},
                           collector : Collectors \cup {None},
                           from : RouteBoxes \cup {None}, to : BankBoxes \cup {None},
                           amount : Nat, reported : Nat, verified : Nat, receipt : Nat]]
  /\ log \in [Orders -> Seq([type : OrderStatus \cup {"COMMENT"}, key : Nat, amount : Nat])]
  /\ file \in Seq([order : Orders, amount : Nat])
  /\ upload \in [Phones -> [order : Orders \cup {None}, amount : Nat, key : Nat]]
  /\ credit \in [BankCredits -> [account : BankBoxes \cup {None}, amount : Nat,
                                 usedBy : Orders \cup {"payment", None}]]
  /\ expense \in [Expenses -> [status : {"NONE", "PENDING", "APPROVED", "REJECTED"},
                               by : Collectors \cup {None}, amount : Nat,
                               from : Boxes \cup {None}]]
  /\ paid \in [Expenses -> Seq([from : Boxes, amount : Nat, owner : Collectors \cup {None}])]
  /\ review \in [Reviewers -> [expense : Expenses \cup {None},
                               status : {"NONE", "APPROVED", "REJECTED"},
                               from : Boxes \cup {None}]]

\* What was verified of each order, and what each expense costs.
Verified == [o \in Orders |-> order[o].verified]
Spent == [e \in Expenses |-> expense[e].amount]

VerifiedFrom(b) == {o \in Orders : order[o].status = "VERIFIED" /\ order[o].from = b}
VerifiedTo(b) == {o \in Orders : order[o].status = "VERIFIED" /\ order[o].to = b}
PaidFrom(b) == {e \in Expenses : \E i \in 1..Len(paid[e]) : paid[e][i].from = b}

\* The documents account for every peso of a box: what it collected, less the
\* orders verified against it and the expenses paid from it, plus the deposits
\* verified into it.  No verified order without its transfer, no transfer
\* without its verified order (verify: "Todo o nada",
\* deposit-order.repository.ts line 194).
BooksMatchDocuments ==
  \A b \in Boxes :
    balance[b] = income[b]
      - SumOver(Verified, VerifiedFrom(b))
      + SumOver(Verified, VerifiedTo(b))
      - SumOver(Spent, PaidFrom(b))

\* A credit of the bank enters the books once: whoever takes it first, a
\* payment or an order, keeps it ("sin doble ingreso", incoming-credit.ts
\* lines 45-46), and the order that has it is a verified one, for that amount
\* and that account.
BankCreditEntersOnce ==
  /\ \A k \in BankCredits : credit[k].usedBy \in Orders =>
       LET o == order[credit[k].usedBy] IN
       o.status = "VERIFIED" /\ o.verified = credit[k].amount /\ o.to = credit[k].account
  /\ \A j, k \in BankCredits :
       j # k /\ credit[j].usedBy \in Orders => credit[j].usedBy # credit[k].usedBy

\* The last event that is not a comment is the status, and what follows a final one is
\* only comments.
Tells(events, status) ==
  /\ \E i \in 1..Len(events) :
       /\ events[i].type = status /\ status # "COMMENT"
       /\ \A j \in (i + 1)..Len(events) : events[j].type = "COMMENT"
  /\ \A i, j \in 1..Len(events) :
       i < j /\ events[i].type \in {"VERIFIED", "CANCELLED"} => events[j].type = "COMMENT"

\* The event log tells the whole story of an order: it is written with every
\* change of status ("una orden verificada o cancelada es final",
\* deposit-order.ts line 10).
LogTellsStatus == \A o \in Orders : order[o] # NoOrder => Tells(log[o], order[o].status)

\* Every report ever made can still be compared with its receipt, also after
\* an objection and another report ("tras una objecion, el anterior se conserva
\* como evidencia", deposit-order.repository.ts line 140).
EvidenceKept ==
  \A o \in Orders : \A i \in 1..Len(log[o]) :
    LET event == log[o][i] IN
    event.type = "REPORTED" =>
      event.key \in 1..Len(file) /\ file[event.key] = [order |-> o, amount |-> event.amount]

\* However many reviewers race, an approved expense left one box, once, and
\* that is the box its row names (updateReview: "sin gasto aprobado sin egreso",
\* expense.repository.ts lines 71-72).
ApprovedIsPaidOnce ==
  \A e \in Expenses :
    /\ Len(paid[e]) <= 1
    /\ expense[e].status = "APPROVED" =>
         Len(paid[e]) = 1 /\ paid[e][1].from = expense[e].from

-----------------------------------------------------------------------------
(* What the steps rely on, which makes the properties inductive             *)
(* (FieldProofs).                                                           *)

\* A row in use names its boxes, and one that is not in use has no events.
RowsNamed ==
  /\ \A o \in Orders :
       IF order[o] = NoOrder THEN log[o] = <<>>
       ELSE /\ order[o].status # "NONE"
            /\ order[o].from \in RouteBoxes /\ order[o].to \in BankBoxes
  /\ \A k \in BankCredits : credit[k] # NoCredit => credit[k].account \in BankBoxes

\* Only so many rows are in use.
FinitelyUsed ==
  /\ IsFiniteSet({o \in Orders : order[o] # NoOrder})
  /\ IsFiniteSet({e \in Expenses : expense[e] # NoExpense})

\* An expense that is decided on, or paid, was requested.
ReviewsFit ==
  /\ \A v \in Reviewers : review[v] # NoReview =>
       /\ review[v].expense \in Expenses /\ expense[review[v].expense].status # "NONE"
       /\ review[v].status = "APPROVED" => review[v].from \in Boxes
  /\ \A e \in Expenses : expense[e].status = "NONE" => paid[e] = <<>>

\* A report in flight has stored its receipt, which nobody else writes.
UploadsFit ==
  \A p \in Phones : upload[p] # NoUpload =>
    /\ upload[p].order \in Orders /\ order[upload[p].order] # NoOrder
    /\ upload[p].key \in 1..Len(file)
    /\ file[upload[p].key] = [order |-> upload[p].order, amount |-> upload[p].amount]

\* The books, the orders, the bank credits and the expenses agree in every state.
MoneySafe ==
  /\ TypeOK /\ RowsNamed /\ FinitelyUsed /\ ReviewsFit
  /\ BooksMatchDocuments
  /\ BankCreditEntersOnce
  /\ ApprovedIsPaidOnce

\* The log of an order is its history, and each report in it has its receipt.
TrailSafe == LogTellsStatus /\ EvidenceKept /\ UploadsFit

\* An expense that left a box is an approved one ("Solo los gastos APROBADOS
\* afectan la caja", expense.ts line 2).
OnlyApprovedLeaveBox ==
  \A e \in Expenses : paid[e] # <<>> => expense[e].status = "APPROVED"
=============================================================================
