--------------------------- MODULE PaymentsProofs ---------------------------
(***************************************************************************)
(* Proofs, for every number of workers, credits, instalments and payments, *)
(* of the safety of the payment pipeline.  The argument: instalments only  *)
(* grow, so the snapshot a handler computed its cascade on never shows     *)
(* more than is paid when it commits; the bounded increments keep paid     *)
(* within due; hence when a snapshot plus the allocation reaches what is   *)
(* owed, the current instalments have reached it too.                      *)
(*                                                                         *)
(* The second part is about what a handler knows: which payment it holds,  *)
(* that nobody else is bringing it in, that its row has the credit the     *)
(* handler read.  With it every step is one of five effects on payments    *)
(* and portfolio (EveryStep).                                              *)
(*                                                                         *)
(* The third part looks at nothing but these effects: a PIX transaction    *)
(* and a settlement row count once, the ledger backs the verified          *)
(* payments, a paid credit is closed, the books of a credit add up to the  *)
(* centavo and the pipeline implements CreditAccount.  What the portfolio  *)
(* rules do with the money is in ArithmeticProofs.                          *)
(***************************************************************************)
EXTENDS Payments, ArithmeticProofs

\* The portfolio part of the invariant, and that no instalment shrinks.
PortfolioOK ==
  /\ paid \in [Credits -> [Plan -> Nat]]
  /\ creditStatus \in [Credits -> {"ACTIVE", "SETTLED"}]
  /\ alloc \in [Payments -> [Plan -> Nat]]
  /\ principal \in [Payments -> [Plan -> Int]]
  /\ PaidWithinDue
  /\ SettledIsPaid

Grows == \A c \in Credits, i \in Plan : paid[c][i] <= paid'[c][i]

RowsOK ==
  /\ payment \in [Payments -> PaymentRows]
  /\ posted \in [Payments -> Nat]
  /\ consumer \in [Incoming -> Payments \cup {Absent, Free, FieldOrder}]

JobsOK == job \in [Workers -> Jobs] /\ SnapshotsNeverAhead

LEMMA SafetyParts == SafetyInv <=> PortfolioOK /\ RowsOK /\ JobsOK
  BY DEF SafetyInv, TypeOK, PortfolioOK, RowsOK, JobsOK

\* The capital of an accumulated payment is an integer whenever the terms and
\* the accumulated payment are those splitAllocations admits.
LEMMA RecoveredInt ==
  ASSUME NEW c \in Credits, NEW x \in Nat
  PROVE  PrincipalRecovered(Principal[c], TotalDue(c), x) \in Int
<1>1. Principal[c] \in Nat /\ TotalDue(c) \in Nat /\ TotalDue(c) > 0
  BY TermsAssumption
<1>2. x * Principal[c] \in Int
  BY <1>1
<1>3. QED
  BY <1>1, <1>2 DEF PrincipalRecovered

LEMMA SplitInt ==
  ASSUME NEW p \in Payments, NEW c \in Credits, NEW a, DOMAIN a = Plan,
         Admits(p, c, a), NEW i \in Plan
  PROVE  SplitPrincipal(Principal[c], TotalDue(c), Total(paid[c]), a)[i] \in Int
<1>. DEFINE upTo(k) == PaidUpTo(Total(paid[c]), a, k)
<1>1. i \in Plan \cup {0} /\ i - 1 \in Plan \cup {0}
  BY TermsAssumption DEF Plan
<1>2. upTo(i) \in Nat /\ upTo(i - 1) \in Nat
  BY <1>1, TermsAssumption DEF Admits
<1>3. /\ PrincipalRecovered(Principal[c], TotalDue(c), upTo(i)) \in Int
      /\ PrincipalRecovered(Principal[c], TotalDue(c), upTo(i - 1)) \in Int
  BY <1>2, RecoveredInt
<1>4. QED
  BY <1>3 DEF SplitPrincipal

\* A cascade is a function on the instalments of the plan.
LEMMA CascadeDomain ==
  ASSUME NEW c \in Credits, NEW seen, NEW m
  PROVE  DOMAIN Cascade(Due[c], seen, m) = Plan
  BY TermsAssumption DEF Cascade

\* A step that writes no portfolio keeps its part of the invariant.
LEMMA PortfolioUntouched ==
  ASSUME PortfolioOK, UNCHANGED <<paid, creditStatus, alloc, principal>>
  PROVE  PortfolioOK' /\ Grows
  BY DEF PortfolioOK, Grows, PaidWithinDue, SettledIsPaid

\* The heart of the matter: crediting a payment on a snapshot that is not ahead
\* of the instalments keeps them within what is owed, and closes the credit
\* only if nothing is owed any more.
LEMMA CreditPreserves ==
  ASSUME PortfolioOK, NEW p \in Payments, NEW c \in Credits,
         NEW seen \in [Plan -> Nat], NEW m,
         \A i \in Plan : seen[i] <= paid[c][i],
         CreditPayment(p, c, seen, m)
  PROVE  PortfolioOK' /\ Grows
<1>. DEFINE a == Cascade(Due[c], seen, m)
            closes == Settles(Due[c], seen, a)
<1>1. /\ ApplyAllocations(p, c, a)
      /\ Settle(c, closes)
  BY DEF CreditPayment
<1>2. DOMAIN a = Plan
  BY CascadeDomain
<1>. HIDE DEF a
<1>3. /\ Admits(p, c, a)
      /\ paid' = [paid EXCEPT ![c] = [i \in Plan |-> paid[c][i] + a[i]]]
      /\ alloc' = [alloc EXCEPT ![p] = [i \in Plan |-> alloc[p][i] + a[i]]]
      /\ principal' = [principal EXCEPT ![p] =
           [i \in Plan |-> principal[p][i]
              + SplitPrincipal(Principal[c], TotalDue(c), Total(paid[c]), a)[i]]]
  BY <1>1 DEF ApplyAllocations
<1>4. \A i \in Plan : a[i] \in Nat /\ paid[c][i] + a[i] <= Due[c][i]
  BY <1>3 DEF Admits
<1>5. paid' \in [Credits -> [Plan -> Nat]]
  BY <1>3, <1>4 DEF PortfolioOK
<1>6. alloc' \in [Payments -> [Plan -> Nat]]
  BY <1>3, <1>4 DEF PortfolioOK
<1>7. principal' \in [Payments -> [Plan -> Int]]
  <2>. DEFINE part == SplitPrincipal(Principal[c], TotalDue(c), Total(paid[c]), a)
  <2>1. \A i \in Plan : part[i] \in Int
    BY <1>2, <1>3, SplitInt
  <2>. HIDE DEF part
  <2>2. principal' = [principal EXCEPT ![p] = [i \in Plan |-> principal[p][i] + part[i]]]
    BY <1>3 DEF part
  <2>3. QED
    BY <2>1, <2>2 DEF PortfolioOK
<1>8. creditStatus' \in [Credits -> {"ACTIVE", "SETTLED"}]
  BY <1>1 DEF Settle, PortfolioOK
<1>9. Grows
  BY <1>3, <1>4 DEF Grows, PortfolioOK
<1>10. PaidWithinDue'
  BY <1>3, <1>4 DEF PaidWithinDue, PortfolioOK
<1>11. SettledIsPaid'
  <2>1. SUFFICES ASSUME NEW d \in Credits, creditStatus'[d] = "SETTLED",
                        NEW i \in Plan
                 PROVE  paid'[d][i] = Due[d][i]
    BY DEF SettledIsPaid
  <2>2. /\ paid[d][i] \in Nat /\ paid'[d][i] \in Nat /\ Due[d][i] \in Nat
        /\ paid[d][i] <= paid'[d][i]
        /\ paid'[d][i] <= Due[d][i]
    BY <1>5, <1>9, <1>10, TermsAssumption DEF PortfolioOK, Grows, PaidWithinDue
  <2>3. CASE creditStatus[d] = "SETTLED"
    <3>1. paid[d][i] = Due[d][i]
      BY <2>3 DEF PortfolioOK, SettledIsPaid
    <3>2. QED
      BY <2>2, <3>1
  <2>4. CASE creditStatus[d] # "SETTLED"
    <3>1. d = c /\ closes
      BY <1>1, <2>1, <2>4 DEF Settle, PortfolioOK
    <3>2. seen[i] + a[i] = Due[c][i]
      BY <3>1, TermsAssumption DEF Settles
    <3>3. paid'[c][i] = paid[c][i] + a[i] /\ seen[i] <= paid[c][i] /\ a[i] \in Nat
      BY <1>3, <1>4 DEF PortfolioOK
    <3>4. QED
      BY <2>2, <3>1, <3>2, <3>3
  <2>5. QED
    BY <2>3, <2>4
<1>12. QED
  BY <1>5, <1>6, <1>7, <1>8, <1>9, <1>10, <1>11 DEF PortfolioOK
-----------------------------------------------------------------------------
(* Jobs.  Every step changes at most one job, and the other jobs only have  *)
(* to survive the growth of the instalments.                                *)

LEMMA IdleFits ==
  Idle \in Jobs /\ \A pd : JobFits(Idle, pd)
<1>1. Nothing \in [Plan -> Nat]
  BY DEF Nothing
<1>2. QED
  BY <1>1 DEF Idle, Jobs, JobFits, Stages, WithPay, WithCredit, WithSnapshot

LEMMA FitsGrows ==
  ASSUME NEW j \in Jobs, JobFits(j, paid), PortfolioOK, PortfolioOK', Grows
  PROVE  JobFits(j, paid')
<1>1. SUFFICES ASSUME j.at \in WithSnapshot, NEW i \in Plan
               PROVE  j.seen[i] <= paid'[j.credit][i]
  BY DEF JobFits
<1>2. j.credit \in Credits
  BY <1>1 DEF JobFits, WithSnapshot, WithCredit
<1>3. /\ j.seen[i] <= paid[j.credit][i]
      /\ paid[j.credit][i] <= paid'[j.credit][i]
  BY <1>1, <1>2 DEF JobFits, Grows
<1>4. /\ j.seen[i] \in Nat
      /\ paid[j.credit][i] \in Nat
      /\ paid'[j.credit][i] \in Nat
  BY <1>2 DEF Jobs, PortfolioOK
<1>5. QED
  BY <1>3, <1>4

LEMMA JobsPreserved ==
  ASSUME JobsOK, PortfolioOK, PortfolioOK', Grows,
         NEW w \in Workers, NEW j \in Jobs, JobFits(j, paid'),
         job' = [job EXCEPT ![w] = j]
  PROVE  JobsOK'
<1>1. job' \in [Workers -> Jobs]
  BY DEF JobsOK
<1>2. ASSUME NEW v \in Workers PROVE JobFits(job'[v], paid')
  <2>1. CASE v = w
    BY <2>1 DEF JobsOK
  <2>2. CASE v # w
    <3>1. job'[v] = job[v] /\ job[v] \in Jobs /\ JobFits(job[v], paid)
      BY <2>2 DEF JobsOK, SnapshotsNeverAhead
    <3>2. QED
      BY <3>1, FitsGrows
  <2>3. QED
    BY <2>1, <2>2
<1>3. QED
  BY <1>1, <1>2 DEF JobsOK, SnapshotsNeverAhead

LEMMA JobsUnchanged ==
  ASSUME JobsOK, PortfolioOK, PortfolioOK', Grows, UNCHANGED job
  PROVE  JobsOK'
<1>1. ASSUME NEW v \in Workers PROVE JobFits(job[v], paid')
  <2>1. job[v] \in Jobs /\ JobFits(job[v], paid)
    BY DEF JobsOK, SnapshotsNeverAhead
  <2>2. QED
    BY <2>1, FitsGrows
<1>2. QED
  BY <1>1 DEF JobsOK, SnapshotsNeverAhead

\* A step that ends its job and leaves the other two parts well.
LEMMA DonePreserves ==
  ASSUME SafetyInv, NEW w \in Workers, Done(w), PortfolioOK', Grows, RowsOK'
  PROVE  SafetyInv'
<1>1. JobsOK'
  BY IdleFits, JobsPreserved, SafetyParts DEF Done
<1>2. QED
  BY <1>1, SafetyParts DEF SafetyInv, TypeOK, PortfolioOK, RowsOK, JobsOK

\* A step that only reads: rows and portfolio stay, the job moves on to j.
LEMMA ReadPreserves ==
  ASSUME SafetyInv, NEW w \in Workers, NEW j \in Jobs, JobFits(j, paid),
         job' = [job EXCEPT ![w] = j], UNCHANGED <<ledger, payment, consumer>>
  PROVE  SafetyInv'
<1>1. PortfolioOK /\ RowsOK /\ JobsOK
  BY SafetyParts
<1>2. PortfolioOK' /\ Grows
  BY <1>1, PortfolioUntouched DEF ledger
<1>3. RowsOK'
  BY <1>1 DEF RowsOK, ledger
<1>4. JobFits(j, paid')
  BY <1>1, <1>2, FitsGrows
<1>5. JobsOK'
  BY <1>1, <1>2, <1>4, JobsPreserved
<1>6. QED
  BY <1>2, <1>3, <1>5 DEF SafetyInv, TypeOK, PortfolioOK, RowsOK, JobsOK
-----------------------------------------------------------------------------
(* Rows.                                                                    *)

LEMMA RoutePreserves ==
  ASSUME NEW p \in Payments, NEW m \in Nat, Route(p, m),
         posted \in [Payments -> Nat]
  PROVE  posted' \in [Payments -> Nat]
  BY DEF Route

LEMMA InsertPreserves ==
  ASSUME payment \in [Payments -> PaymentRows], NEW p \in Payments,
         NEW status \in Statuses, NEW c \in Credits \cup {NoCredit},
         NEW m \in Nat, Insert(p, status, c, m)
  PROVE  payment' \in [Payments -> PaymentRows]
  BY DEF Insert, PaymentRows

LEMMA SetStatusPreserves ==
  ASSUME payment \in [Payments -> PaymentRows], NEW p \in Payments,
         NEW status \in Statuses, NEW m \in Nat, SetStatus(p, status, m)
  PROVE  payment' \in [Payments -> PaymentRows]
  BY DEF SetStatus, PaymentRows

LEMMA PaymentFacts ==
  ASSUME NEW p \in Payments
  PROVE  /\ ReadAmount[p] \in Nat /\ BankAmount[p] \in Nat
         /\ CreditsOf[p] \subseteq Credits
         /\ p \in Nat /\ p > 0
  BY InputAssumption
-----------------------------------------------------------------------------
(* One lemma per action.                                                    *)

LEMMA StartReceiptStep ==
  ASSUME SafetyInv, NEW w \in Workers, NEW p \in Receipts, StartReceipt(w, p)
  PROVE  SafetyInv'
<1>1. p \in Payments /\ p \in Nat
  BY PaymentFacts DEF Payments
<1>2. PortfolioOK /\ JobsOK
  BY SafetyParts
<1>3. ASSUME NEW c \in ActiveCredits(p),
             job' = [job EXCEPT ![w] = [Idle EXCEPT
                       !.at = "receipt", !.pay = p, !.credit = c, !.seen = paid[c]]]
      PROVE  SafetyInv'
  <2>. DEFINE j == [Idle EXCEPT !.at = "receipt", !.pay = p, !.credit = c,
                                !.seen = paid[c]]
  <2>1. c \in Credits
    BY <1>1, PaymentFacts DEF ActiveCredits
  <2>2. paid[c] \in [Plan -> Nat]
    BY <1>2, <2>1 DEF PortfolioOK
  <2>3. j \in Jobs
    BY <1>1, <2>1, <2>2, IdleFits DEF Jobs, Idle, Stages
  <2>4. JobFits(j, paid)
    BY <1>1, <2>1, <2>2 DEF JobFits, Idle
  <2>. HIDE DEF j
  <2>5. job' = [job EXCEPT ![w] = j]
    BY <1>3 DEF j
  <2>6. QED
    BY <2>3, <2>4, <2>5, ReadPreserves DEF StartReceipt
<1>4. ASSUME job' = [job EXCEPT ![w] = [Idle EXCEPT !.at = "orphan", !.pay = p]]
      PROVE  SafetyInv'
  <2>. DEFINE j == [Idle EXCEPT !.at = "orphan", !.pay = p]
  <2>1. j \in Jobs /\ JobFits(j, paid)
    BY <1>1, IdleFits DEF Jobs, Idle, Stages, JobFits, WithPay, WithCredit, WithSnapshot
  <2>. HIDE DEF j
  <2>2. job' = [job EXCEPT ![w] = j]
    BY <1>4 DEF j
  <2>3. QED
    BY <2>1, <2>2, ReadPreserves DEF StartReceipt
<1>5. QED
  BY <1>3, <1>4 DEF StartReceipt

LEMMA SaveOrphanStep ==
  ASSUME SafetyInv, NEW w \in Workers, SaveOrphan(w)
  PROVE  SafetyInv'
<1>. DEFINE p == job[w].pay
<1>1. PortfolioOK /\ RowsOK /\ JobsOK
  BY SafetyParts
<1>2. p \in Payments
  BY <1>1 DEF SaveOrphan, JobsOK, SnapshotsNeverAhead, JobFits, WithPay
<1>3. PortfolioOK' /\ Grows
  BY <1>1, PortfolioUntouched DEF SaveOrphan, ledger
<1>. HIDE DEF p
<1>4. payment' \in [Payments -> PaymentRows]
  <2>1. CASE UNCHANGED payment
    BY <1>1, <2>1 DEF RowsOK
  <2>2. CASE Insert(p, "RECEIVED", NoCredit, ReadAmount[p])
    BY <1>1, <1>2, <2>2, InsertPreserves, PaymentFacts DEF RowsOK, Statuses
  <2>3. QED
    BY <2>1, <2>2 DEF SaveOrphan, p
<1>5. RowsOK'
  BY <1>1, <1>4 DEF RowsOK, SaveOrphan, ledger
<1>6. QED
  BY <1>3, <1>5, DonePreserves DEF SaveOrphan

LEMMA SaveReceiptStep ==
  ASSUME SafetyInv, NEW w \in Workers, NEW fraud \in BOOLEAN, NEW bank, NEW policy,
         SaveReceipt(w, fraud, bank, policy)
  PROVE  SafetyInv'
<1>. DEFINE p == job[w].pay
            c == job[w].credit
            status == ReviewStatus(fraud, ReadAmount[p], bank)
            amount == IF status = "VERIFIED" THEN BankAmount[p] ELSE ReadAmount[p]
            inserts == Insert(p, status, c, amount)
            credits == CreditPayment(p, c, job[w].seen, amount)
            keeps == UNCHANGED <<paid, alloc, principal, creditStatus>>
<1>1. PortfolioOK /\ RowsOK /\ JobsOK
  BY SafetyParts
<1>2. /\ p \in Payments /\ c \in Credits /\ job[w].seen \in [Plan -> Nat]
      /\ \A i \in Plan : job[w].seen[i] <= paid[c][i]
  BY <1>1 DEF SaveReceipt, JobsOK, Jobs, SnapshotsNeverAhead, JobFits, WithPay,
              WithCredit, WithSnapshot
<1>3. amount \in Nat
  BY <1>2, PaymentFacts
<1>4. status \in Statuses
  BY DEF ReviewStatus, Statuses
<1>5. /\ UNCHANGED <<payment, ledger>> \/ (inserts /\ (credits \/ keeps))
      /\ Route(p, amount) \/ UNCHANGED posted
      /\ Done(w) /\ UNCHANGED consumer
  BY DEF SaveReceipt, ledger
<1>. HIDE DEF p, c, amount, status
<1>6. PortfolioOK' /\ Grows
  <2>1. CASE UNCHANGED <<payment, ledger>> \/ keeps
    BY <1>1, <2>1, PortfolioUntouched DEF ledger
  <2>2. CASE credits
    BY <1>1, <1>2, <2>2, CreditPreserves
  <2>3. QED
    BY <1>5, <2>1, <2>2
<1>7. payment' \in [Payments -> PaymentRows]
  <2>1. CASE UNCHANGED <<payment, ledger>>
    BY <1>1, <2>1 DEF RowsOK
  <2>2. CASE inserts
    BY <1>1, <1>2, <1>3, <1>4, <2>2, InsertPreserves DEF RowsOK
  <2>3. QED
    BY <1>5, <2>1, <2>2
<1>8. posted' \in [Payments -> Nat]
  BY <1>1, <1>2, <1>3, <1>5, RoutePreserves DEF RowsOK
<1>9. RowsOK'
  BY <1>1, <1>5, <1>7, <1>8 DEF RowsOK
<1>10. QED
  BY <1>5, <1>6, <1>9, DonePreserves

LEMMA CreateChargeStep ==
  ASSUME SafetyInv, NEW p \in Charges, CreateCharge(p)
  PROVE  SafetyInv'
<1>1. PortfolioOK /\ RowsOK /\ JobsOK /\ p \in Payments
  BY SafetyParts DEF Payments
<1>2. PortfolioOK' /\ Grows
  BY <1>1, PortfolioUntouched DEF CreateCharge, ledger
<1>3. PICK c \in CreditsOf[p] : Insert(p, "UNVERIFIED", c, ReadAmount[p])
  BY DEF CreateCharge
<1>4. payment' \in [Payments -> PaymentRows]
  BY <1>1, <1>3, InsertPreserves, PaymentFacts DEF RowsOK, Statuses
<1>5. RowsOK'
  BY <1>1, <1>4 DEF RowsOK, CreateCharge, ledger
<1>6. JobsOK'
  BY <1>1, <1>2, JobsUnchanged DEF CreateCharge
<1>7. QED
  BY <1>2, <1>5, <1>6 DEF SafetyInv, TypeOK, PortfolioOK, RowsOK, JobsOK

LEMMA StartCashStep ==
  ASSUME SafetyInv, NEW w \in Workers, NEW p \in CashRequests, StartCash(w, p)
  PROVE  SafetyInv'
<1>1. p \in Payments /\ PortfolioOK /\ JobsOK
  BY SafetyParts DEF Payments
<1>2. PICK c \in CreditsOf[p] :
        job' = [job EXCEPT ![w] = [Idle EXCEPT
                  !.at = "cash", !.pay = p, !.credit = c, !.seen = paid[c]]]
  BY DEF StartCash
<1>. DEFINE j == [Idle EXCEPT !.at = "cash", !.pay = p, !.credit = c, !.seen = paid[c]]
<1>3. c \in Credits
  BY <1>1, PaymentFacts
<1>4. paid[c] \in [Plan -> Nat]
  BY <1>1, <1>3 DEF PortfolioOK
<1>5. j \in Jobs
  BY <1>1, <1>3, <1>4, IdleFits DEF Jobs, Idle, Stages
<1>6. JobFits(j, paid)
  BY <1>1, <1>3, <1>4 DEF JobFits, Idle
<1>. HIDE DEF j
<1>7. job' = [job EXCEPT ![w] = j]
  BY <1>2 DEF j
<1>8. QED
  BY <1>5, <1>6, <1>7, ReadPreserves DEF StartCash

LEMMA CommitCashStep ==
  ASSUME SafetyInv, NEW w \in Workers, CommitCash(w)
  PROVE  SafetyInv'
<1>. DEFINE p == job[w].pay
            c == job[w].credit
<1>1. PortfolioOK /\ RowsOK /\ JobsOK
  BY SafetyParts
<1>2. /\ p \in Payments /\ c \in Credits /\ job[w].seen \in [Plan -> Nat]
      /\ \A i \in Plan : job[w].seen[i] <= paid[c][i]
  BY <1>1 DEF CommitCash, JobsOK, Jobs, SnapshotsNeverAhead, JobFits, WithPay,
              WithCredit, WithSnapshot
<1>3. /\ Insert(p, "VERIFIED", c, ReadAmount[p])
      /\ Route(p, ReadAmount[p])
      /\ CreditPayment(p, c, job[w].seen, ReadAmount[p])
      /\ Done(w) /\ UNCHANGED consumer
  BY DEF CommitCash
<1>. HIDE DEF p, c
<1>4. PortfolioOK' /\ Grows
  BY <1>1, <1>2, <1>3, CreditPreserves
<1>5. payment' \in [Payments -> PaymentRows]
  BY <1>1, <1>2, <1>3, InsertPreserves, PaymentFacts DEF RowsOK, Statuses
<1>6. posted' \in [Payments -> Nat]
  BY <1>1, <1>2, <1>3, RoutePreserves, PaymentFacts DEF RowsOK
<1>7. RowsOK'
  BY <1>1, <1>3, <1>5, <1>6 DEF RowsOK
<1>8. QED
  BY <1>3, <1>4, <1>7, DonePreserves
LEMMA ListUnverifiedStep ==
  ASSUME SafetyInv, NEW w \in Workers, NEW p \in Payments, ListUnverified(w, p)
  PROVE  SafetyInv'
<1>. DEFINE j == [Idle EXCEPT !.at = "listed", !.pay = p,
                              !.attempts = payment[p].attempts]
<1>1. payment[p].attempts \in Nat
  BY SafetyParts DEF RowsOK, PaymentRows
<1>2. j \in Jobs
  BY <1>1, IdleFits DEF Jobs, Idle, Stages
<1>3. JobFits(j, paid)
  BY DEF JobFits, Idle, WithPay, WithCredit, WithSnapshot
<1>. HIDE DEF j
<1>4. job' = [job EXCEPT ![w] = j]
  BY DEF ListUnverified, j
<1>5. QED
  BY <1>2, <1>3, <1>4, ReadPreserves DEF ListUnverified

LEMMA KeepPendingStep ==
  ASSUME SafetyInv, NEW w \in Workers, NEW counted \in BOOLEAN, KeepPending(w, counted)
  PROVE  SafetyInv'
<1>. DEFINE p == job[w].pay
            n == payment[p].attempts + (IF counted THEN 1 ELSE 0)
<1>1. PortfolioOK /\ RowsOK /\ JobsOK
  BY SafetyParts
<1>2. PortfolioOK' /\ Grows
  BY <1>1, PortfolioUntouched DEF KeepPending, ledger
<1>3. payment' \in [Payments -> PaymentRows]
  <2>1. p \in Payments
    BY <1>1 DEF KeepPending, JobsOK, SnapshotsNeverAhead, JobFits, WithPay
  <2>2. payment' = [payment EXCEPT ![p].attempts = n]
    BY DEF KeepPending
  <2>3. n \in Nat
    BY <1>1, <2>1 DEF RowsOK, PaymentRows
  <2>. HIDE DEF n, p
  <2>4. QED
    BY <1>1, <2>1, <2>2, <2>3 DEF RowsOK, PaymentRows
<1>4. RowsOK'
  BY <1>1, <1>3 DEF RowsOK, KeepPending, ledger
<1>5. QED
  BY <1>2, <1>4, DonePreserves DEF KeepPending

LEMMA FlagSuspectedFraudStep ==
  ASSUME SafetyInv, NEW w \in Workers, FlagSuspectedFraud(w)
  PROVE  SafetyInv'
<1>. DEFINE p == job[w].pay
<1>1. PortfolioOK /\ RowsOK /\ JobsOK
  BY SafetyParts
<1>2. PortfolioOK' /\ Grows
  BY <1>1, PortfolioUntouched DEF FlagSuspectedFraud, ledger
<1>3. p \in Payments
  BY <1>1 DEF FlagSuspectedFraud, JobsOK, SnapshotsNeverAhead, JobFits, WithPay
<1>4. SetStatus(p, "REJECTED_FRAUD", payment[p].amount) \/ UNCHANGED payment
  BY DEF FlagSuspectedFraud
<1>. HIDE DEF p
<1>5. payment[p].amount \in Nat
  BY <1>1, <1>3 DEF RowsOK, PaymentRows
<1>6. payment' \in [Payments -> PaymentRows]
  BY <1>1, <1>3, <1>4, <1>5, SetStatusPreserves DEF RowsOK, Statuses
<1>7. RowsOK'
  BY <1>1, <1>6 DEF RowsOK, FlagSuspectedFraud, ledger
<1>8. QED
  BY <1>2, <1>7, DonePreserves DEF FlagSuspectedFraud

LEMMA LoadForVerificationStep ==
  ASSUME SafetyInv, NEW w \in Workers, LoadForVerification(w)
  PROVE  SafetyInv'
<1>. DEFINE p == job[w].pay
            c == payment[p].credit
            j == [Idle EXCEPT !.at = "verify", !.pay = p, !.credit = c,
                              !.seen = paid[c], !.amount = BankAmount[p]]
<1>1. PortfolioOK /\ RowsOK /\ JobsOK
  BY SafetyParts
<1>2. p \in Payments
  BY <1>1 DEF LoadForVerification, JobsOK, SnapshotsNeverAhead, JobFits, WithPay
<1>3. c \in Credits
  BY <1>1, <1>2 DEF LoadForVerification, RowsOK, PaymentRows
<1>4. job' = [job EXCEPT ![w] = j]
  BY DEF LoadForVerification
<1>. HIDE DEF p, c
<1>5. paid[c] \in [Plan -> Nat] /\ BankAmount[p] \in Nat
  BY <1>1, <1>2, <1>3, PaymentFacts DEF PortfolioOK
<1>6. j \in Jobs
  BY <1>2, <1>3, <1>5, IdleFits DEF Jobs, Idle, Stages
<1>7. JobFits(j, paid)
  BY <1>2, <1>3, <1>5 DEF JobFits, Idle
<1>. HIDE DEF j
<1>8. QED
  BY <1>4, <1>6, <1>7, ReadPreserves DEF LoadForVerification

LEMMA ApplyVerificationStep ==
  ASSUME SafetyInv, NEW w \in Workers, ApplyVerification(w)
  PROVE  SafetyInv'
<1>. DEFINE p == job[w].pay
            c == job[w].credit
            m == job[w].amount
            credits == /\ SetStatus(p, "VERIFIED", m)
                       /\ CreditPayment(p, c, job[w].seen, m)
                       /\ Route(p, m)
<1>1. PortfolioOK /\ RowsOK /\ JobsOK
  BY SafetyParts
<1>2. /\ p \in Payments /\ c \in Credits /\ job[w].seen \in [Plan -> Nat]
      /\ \A i \in Plan : job[w].seen[i] <= paid[c][i]
      /\ m \in Nat
  BY <1>1 DEF ApplyVerification, JobsOK, Jobs, SnapshotsNeverAhead, JobFits,
              WithPay, WithCredit, WithSnapshot
<1>3. /\ credits \/ UNCHANGED <<ledger, payment>>
      /\ Done(w) /\ UNCHANGED consumer
  BY DEF ApplyVerification
<1>. HIDE DEF p, c, m
<1>4. CASE credits
  <2>1. PortfolioOK' /\ Grows
    BY <1>1, <1>2, <1>4, CreditPreserves
  <2>2. payment' \in [Payments -> PaymentRows]
    BY <1>1, <1>2, <1>4, SetStatusPreserves DEF RowsOK, Statuses
  <2>3. posted' \in [Payments -> Nat]
    BY <1>1, <1>2, <1>4, RoutePreserves DEF RowsOK
  <2>4. RowsOK'
    BY <1>1, <1>3, <2>2, <2>3 DEF RowsOK
  <2>5. QED
    BY <1>3, <2>1, <2>4, DonePreserves
<1>5. CASE UNCHANGED <<ledger, payment>>
  <2>1. PortfolioOK' /\ Grows
    BY <1>1, <1>5, PortfolioUntouched DEF ledger
  <2>2. RowsOK'
    BY <1>1, <1>3, <1>5 DEF RowsOK, ledger
  <2>3. QED
    BY <1>3, <2>1, <2>2, DonePreserves
<1>6. QED
  BY <1>3, <1>4, <1>5

LEMMA LoadPendingClaimsStep ==
  ASSUME SafetyInv, NEW w \in Workers, NEW auto \in AutoConfirm,
         LoadPendingClaims(w, auto)
  PROVE  SafetyInv'
<1>. DEFINE j == [Idle EXCEPT !.at = "claims", !.auto = auto, !.claims = Pending]
<1>1. auto \in BOOLEAN /\ Pending \in SUBSET Payments
  BY InputAssumption DEF Pending
<1>2. j \in Jobs
  BY <1>1, IdleFits DEF Jobs, Idle, Stages
<1>3. JobFits(j, paid)
  BY DEF JobFits, Idle, WithPay, WithCredit, WithSnapshot
<1>4. job' = [job EXCEPT ![w] = j]
  BY DEF LoadPendingClaims
<1>. HIDE DEF j
<1>5. QED
  BY <1>2, <1>3, <1>4, ReadPreserves DEF LoadPendingClaims

LEMMA DropReservedStep ==
  ASSUME SafetyInv, NEW w \in Workers, DropReserved(w)
  PROVE  SafetyInv'
<1>. DEFINE left == {p \in job[w].claims : ~ Reserved(p)}
            j == [job[w] EXCEPT !.at = "matching", !.claims = left]
<1>1. job[w] \in Jobs /\ job \in [Workers -> Jobs]
  BY SafetyParts DEF JobsOK
<1>2. left \in SUBSET Payments
  BY <1>1 DEF Jobs
<1>3. job' = [job EXCEPT ![w] = j]
  BY <1>1 DEF DropReserved
<1>. HIDE DEF left
<1>4. j \in Jobs
  BY <1>1, <1>2 DEF Jobs, Stages
<1>5. JobFits(j, paid)
  BY <1>1 DEF JobFits, WithPay, WithCredit, WithSnapshot, Jobs
<1>. HIDE DEF j
<1>6. QED
  BY <1>3, <1>4, <1>5, ReadPreserves DEF DropReserved

\* A run between two matches holds nothing but what is left to do.
LEMMA MatchesFit ==
  ASSUME NEW todo \in SUBSET (Payments \X Incoming), NEW auto \in BOOLEAN
  PROVE  LET j == [Idle EXCEPT !.at = "matches", !.todo = todo, !.auto = auto]
         IN  j \in Jobs /\ \A pd : JobFits(j, pd)
  BY IdleFits DEF Jobs, Idle, Stages, JobFits, WithPay, WithCredit, WithSnapshot

LEMMA MatchCreditsStep ==
  ASSUME SafetyInv, NEW w \in Workers, MatchCredits(w)
  PROVE  SafetyInv'
<1>. DEFINE found == Matcher!MatchCreditsToClaims(job[w].claims, FreeRows)
            pairs == {m \in job[w].claims \X FreeRows : found[m[1]] = m[2]}
            busy == [Idle EXCEPT !.at = "matches", !.todo = pairs, !.auto = job[w].auto]
            j == IF pairs = {} THEN Idle ELSE busy
<1>1. job[w] \in Jobs
  BY SafetyParts DEF JobsOK
<1>2. job' = [job EXCEPT ![w] = j]
  BY DEF MatchCredits
<1>. HIDE DEF found
<1>3. pairs \in SUBSET (Payments \X Incoming) /\ job[w].auto \in BOOLEAN
  BY <1>1 DEF Jobs, FreeRows
<1>. HIDE DEF pairs
<1>4. busy \in Jobs /\ JobFits(busy, paid)
  BY <1>3, MatchesFit
<1>. HIDE DEF busy
<1>5. j \in Jobs /\ JobFits(j, paid)
  BY <1>4, IdleFits
<1>. HIDE DEF j
<1>6. QED
  BY <1>2, <1>5, ReadPreserves DEF MatchCredits

\* The job a run is left with after a match.
Rest(w, m) ==
  LET rest == job[w].todo \ {m}
  IN  IF rest = {} THEN Idle
      ELSE [Idle EXCEPT !.at = "matches", !.todo = rest, !.auto = job[w].auto]

LEMMA RestFits ==
  ASSUME NEW w \in Workers, NEW m, job[w] \in Jobs, AfterMatch(w, m)
  PROVE  /\ Rest(w, m) \in Jobs /\ \A pd : JobFits(Rest(w, m), pd)
         /\ job' = [job EXCEPT ![w] = Rest(w, m)]
<1>. DEFINE rest == job[w].todo \ {m}
<1>1. rest \in SUBSET (Payments \X Incoming) /\ job[w].auto \in BOOLEAN
  BY DEF Jobs
<1>2. job' = [job EXCEPT ![w] = Rest(w, m)]
  BY DEF AfterMatch, Rest
<1>3. QED
  BY <1>1, <1>2, MatchesFit, IdleFits DEF Rest

LEMMA LoadForConfirmStep ==
  ASSUME SafetyInv, NEW w \in Workers, NEW m \in job[w].todo, LoadForConfirm(w, m)
  PROVE  SafetyInv'
<1>. DEFINE c == payment[m[1]].credit
            j == [job[w] EXCEPT !.at = "confirm", !.pay = m[1], !.row = m[2],
                                !.credit = c, !.seen = paid[c],
                                !.amount = IncomingAmount[m[2]]]
<1>1. PortfolioOK /\ RowsOK /\ job[w] \in Jobs /\ job \in [Workers -> Jobs]
  BY SafetyParts DEF JobsOK
<1>2. m[1] \in Payments /\ m[2] \in Incoming
  BY <1>1 DEF Jobs
<1>3. CASE c # NoCredit /\ creditStatus[c] = "ACTIVE"
  <2>1. c \in Credits
    BY <1>1, <1>2, <1>3 DEF RowsOK, PaymentRows
  <2>2. job' = [job EXCEPT ![w] = j]
    BY <1>1, <1>3 DEF LoadForConfirm
  <2>. HIDE DEF c
  <2>3. paid[c] \in [Plan -> Nat] /\ IncomingAmount[m[2]] \in Nat
    BY <1>1, <1>2, <2>1, InputAssumption DEF PortfolioOK
  <2>4. j \in Jobs
    BY <1>1, <1>2, <2>1, <2>3 DEF Jobs, Stages
  <2>5. JobFits(j, paid)
    BY <1>1, <1>2, <2>1, <2>3 DEF JobFits, Jobs
  <2>. HIDE DEF j
  <2>6. QED
    BY <2>2, <2>4, <2>5, ReadPreserves DEF LoadForConfirm
<1>4. CASE ~ (c # NoCredit /\ creditStatus[c] = "ACTIVE")
  <2>1. AfterMatch(w, m)
    BY <1>4 DEF LoadForConfirm
  <2>2. QED
    BY <1>1, <2>1, RestFits, ReadPreserves DEF LoadForConfirm
<1>5. QED
  BY <1>3, <1>4

LEMMA ConfirmWithCreditStep ==
  ASSUME SafetyInv, NEW w \in Workers, ConfirmWithCredit(w)
  PROVE  SafetyInv'
<1>. DEFINE p == job[w].pay
            k == job[w].row
            c == job[w].credit
            m == job[w].amount
            credits == /\ consumer' = [consumer EXCEPT ![k] = p]
                       /\ SetStatus(p, "VERIFIED", m)
                       /\ CreditPayment(p, c, job[w].seen, m)
                       /\ Route(p, m)
<1>1. PortfolioOK /\ RowsOK /\ JobsOK /\ job[w] \in Jobs
  BY SafetyParts DEF JobsOK
<1>2. /\ p \in Payments /\ k \in Incoming /\ c \in Credits
      /\ job[w].seen \in [Plan -> Nat]
      /\ \A i \in Plan : job[w].seen[i] <= paid[c][i]
      /\ m \in Nat
  BY <1>1 DEF ConfirmWithCredit, JobsOK, Jobs, SnapshotsNeverAhead, JobFits,
              WithPay, WithCredit, WithSnapshot
<1>3. /\ credits \/ UNCHANGED <<ledger, payment, consumer>>
      /\ AfterMatch(w, <<p, k>>)
  BY DEF ConfirmWithCredit
<1>4. PICK j \in Jobs : JobFits(j, paid') /\ job' = [job EXCEPT ![w] = j]
  BY <1>1, <1>3, RestFits
<1>. HIDE DEF p, k, c, m
<1>5. PortfolioOK' /\ Grows
  <2>1. CASE credits
    BY <1>1, <1>2, <2>1, CreditPreserves
  <2>2. CASE UNCHANGED <<ledger, payment, consumer>>
    BY <1>1, <2>2, PortfolioUntouched DEF ledger
  <2>3. QED
    BY <1>3, <2>1, <2>2
<1>6. RowsOK'
  <2>1. CASE credits
    <3>1. payment' \in [Payments -> PaymentRows]
      BY <1>1, <1>2, <2>1, SetStatusPreserves DEF RowsOK, Statuses
    <3>2. posted' \in [Payments -> Nat]
      BY <1>1, <1>2, <2>1, RoutePreserves DEF RowsOK
    <3>3. QED
      BY <1>1, <1>2, <2>1, <3>1, <3>2 DEF RowsOK
  <2>2. CASE UNCHANGED <<ledger, payment, consumer>>
    BY <1>1, <2>2 DEF RowsOK, ledger
  <2>3. QED
    BY <1>3, <2>1, <2>2
<1>7. JobsOK'
  BY <1>1, <1>4, <1>5, JobsPreserved
<1>8. QED
  BY <1>5, <1>6, <1>7 DEF SafetyInv, TypeOK, PortfolioOK, RowsOK, JobsOK

LEMMA ReserveCreditForReviewStep ==
  ASSUME SafetyInv, NEW w \in Workers, NEW m \in job[w].todo,
         ReserveCreditForReview(w, m)
  PROVE  SafetyInv'
<1>1. PortfolioOK /\ RowsOK /\ JobsOK /\ job[w] \in Jobs
  BY SafetyParts DEF JobsOK
<1>2. m[1] \in Payments /\ m[2] \in Incoming
  BY <1>1 DEF Jobs
<1>3. PortfolioOK' /\ Grows
  BY <1>1, PortfolioUntouched DEF ReserveCreditForReview, ledger
<1>4. RowsOK'
  BY <1>1, <1>2 DEF RowsOK, ReserveCreditForReview, ledger
<1>5. AfterMatch(w, m)
  BY DEF ReserveCreditForReview
<1>6. JobsOK'
  BY <1>1, <1>3, <1>5, RestFits, JobsPreserved
<1>7. QED
  BY <1>3, <1>4, <1>6 DEF SafetyInv, TypeOK, PortfolioOK, RowsOK, JobsOK

LEMMA ReadForManualStep ==
  ASSUME SafetyInv, NEW w \in Workers, NEW p \in Reviewed, ReadForManual(w, p)
  PROVE  SafetyInv'
<1>1. PortfolioOK /\ RowsOK /\ JobsOK /\ p \in Payments
  BY SafetyParts, InputAssumption
<1>2. payment[p] \in PaymentRows /\ payment[p].credit \in Credits
  BY <1>1 DEF RowsOK, PaymentRows, ReadForManual, Verifiable
<1>3. PICK m \in ManualAmounts(p) \ {0} :
        job' = [job EXCEPT ![w] = [Idle EXCEPT !.at = "read", !.pay = p, !.amount = m,
                                               !.credit = payment[p].credit]]
  BY DEF ReadForManual
<1>4. m \in Nat
  BY <1>2, InputAssumption DEF ManualAmounts, PaymentRows
<1>. DEFINE j == [Idle EXCEPT !.at = "read", !.pay = p, !.amount = m,
                              !.credit = payment[p].credit]
<1>5. j \in Jobs
  BY <1>1, <1>2, <1>4, IdleFits DEF Jobs, Idle, Stages
<1>6. JobFits(j, paid)
  BY <1>1, <1>2 DEF JobFits, Idle, WithSnapshot
<1>. HIDE DEF j
<1>7. job' = [job EXCEPT ![w] = j]
  BY <1>3 DEF j
<1>8. QED
  BY <1>5, <1>6, <1>7, ReadPreserves DEF ReadForManual

LEMMA LoadForManualStep ==
  ASSUME SafetyInv, NEW w \in Workers, LoadForManual(w)
  PROVE  SafetyInv'
<1>. DEFINE j == [job[w] EXCEPT !.at = "manual", !.seen = paid[job[w].credit]]
<1>1. PortfolioOK /\ JobsOK /\ job[w] \in Jobs /\ JobFits(job[w], paid)
  BY SafetyParts DEF JobsOK, SnapshotsNeverAhead
<1>2. job[w].pay \in Payments /\ job[w].credit \in Credits
  BY <1>1 DEF LoadForManual, JobFits, WithPay, WithCredit
<1>3. paid[job[w].credit] \in [Plan -> Nat]
  BY <1>1, <1>2 DEF PortfolioOK
<1>4. job' = [job EXCEPT ![w] = j]
  BY <1>1 DEF LoadForManual, JobsOK
<1>5. j \in Jobs
  BY <1>1, <1>3 DEF Jobs, Stages
<1>6. JobFits(j, paid)
  BY <1>1, <1>2, <1>3 DEF JobFits, Jobs
<1>. HIDE DEF j
<1>7. QED
  BY <1>4, <1>5, <1>6, ReadPreserves DEF LoadForManual

LEMMA CommitManualStep ==
  ASSUME SafetyInv, NEW w \in Workers, CommitManual(w)
  PROVE  SafetyInv'
<1>. DEFINE p == job[w].pay
            c == job[w].credit
            m == job[w].amount
<1>1. PortfolioOK /\ RowsOK /\ JobsOK
  BY SafetyParts
<1>2. /\ p \in Payments /\ c \in Credits /\ job[w].seen \in [Plan -> Nat]
      /\ \A i \in Plan : job[w].seen[i] <= paid[c][i]
      /\ m \in Nat
  BY <1>1 DEF CommitManual, JobsOK, Jobs, SnapshotsNeverAhead, JobFits, WithPay,
              WithCredit, WithSnapshot
<1>3. /\ CreditPayment(p, c, job[w].seen, m)
      /\ SetStatus(p, "VERIFIED", m)
      /\ Route(p, m)
      /\ Done(w) /\ UNCHANGED consumer
  BY DEF CommitManual
<1>. HIDE DEF p, c, m
<1>4. PortfolioOK' /\ Grows
  BY <1>1, <1>2, <1>3, CreditPreserves
<1>5. payment' \in [Payments -> PaymentRows]
  BY <1>1, <1>2, <1>3, SetStatusPreserves DEF RowsOK, Statuses
<1>6. posted' \in [Payments -> Nat]
  BY <1>1, <1>2, <1>3, RoutePreserves DEF RowsOK
<1>7. RowsOK'
  BY <1>1, <1>3, <1>5, <1>6 DEF RowsOK
<1>8. QED
  BY <1>3, <1>4, <1>7, DonePreserves

LEMMA SourceStep ==
  ASSUME SafetyInv, NEW k \in Incoming, Ingest(k) \/ ConsumeBankCredit(k)
  PROVE  SafetyInv'
<1>1. PortfolioOK /\ RowsOK /\ JobsOK
  BY SafetyParts
<1>2. /\ UNCHANGED <<ledger, payment, job>>
      /\ consumer' \in [Incoming -> Payments \cup {Absent, Free, FieldOrder}]
  BY <1>1 DEF Ingest, ConsumeBankCredit, RowsOK
<1>3. PortfolioOK' /\ Grows
  BY <1>1, <1>2, PortfolioUntouched DEF ledger
<1>4. RowsOK'
  BY <1>1, <1>2 DEF RowsOK, ledger
<1>5. JobsOK'
  BY <1>1, <1>2, <1>3, JobsUnchanged
<1>6. QED
  BY <1>3, <1>4, <1>5 DEF SafetyInv, TypeOK, PortfolioOK, RowsOK, JobsOK

LEMMA AbandonStep ==
  ASSUME SafetyInv, NEW w \in Workers, Abandon(w)
  PROVE  SafetyInv'
  BY IdleFits, ReadPreserves DEF Abandon, Done
-----------------------------------------------------------------------------
LEMMA InitSafe == Init => SafetyInv
<1>. SUFFICES ASSUME Init PROVE SafetyInv
  OBVIOUS
<1>1. Nothing \in [Plan -> Nat] /\ Nothing \in [Plan -> Int]
  BY DEF Nothing
<1>2. \A c \in Credits, i \in Plan : Nothing[i] <= Due[c][i]
  BY TermsAssumption DEF Nothing
<1>3. PortfolioOK
  BY <1>1, <1>2 DEF Init, PortfolioOK, PaidWithinDue, SettledIsPaid
<1>4. RowsOK
  BY DEF Init, RowsOK, PaymentRows, NoRow, Statuses, Absent
<1>5. JobsOK
  BY IdleFits DEF Init, JobsOK, SnapshotsNeverAhead
<1>6. QED
  BY <1>3, <1>4, <1>5, SafetyParts

LEMMA StepSafe == SafetyInv /\ [Next]_vars => SafetyInv'
<1>. SUFFICES ASSUME SafetyInv, [Next]_vars PROVE SafetyInv'
  OBVIOUS
<1>1. ASSUME NEW w \in Workers, Receive(w) PROVE SafetyInv'
  BY <1>1, StartReceiptStep, SaveOrphanStep, SaveReceiptStep DEF Receive
<1>2. ASSUME NEW w \in Workers, RegisterCash(w) PROVE SafetyInv'
  BY <1>2, StartCashStep, CommitCashStep DEF RegisterCash
<1>3. ASSUME NEW w \in Workers, Reconcile(w) PROVE SafetyInv'
  BY <1>3, ListUnverifiedStep, KeepPendingStep, FlagSuspectedFraudStep,
     LoadForVerificationStep, ApplyVerificationStep DEF Reconcile
<1>4. ASSUME NEW w \in Workers, RunSettlement(w) PROVE SafetyInv'
  BY <1>4, LoadPendingClaimsStep, DropReservedStep, MatchCreditsStep,
     LoadForConfirmStep, ConfirmWithCreditStep, ReserveCreditForReviewStep
     DEF RunSettlement
<1>5. ASSUME NEW w \in Workers, VerifyByHand(w) PROVE SafetyInv'
  BY <1>5, ReadForManualStep, LoadForManualStep, CommitManualStep DEF VerifyByHand
<1>6. ASSUME Source PROVE SafetyInv'
  BY <1>6, CreateChargeStep, SourceStep DEF Source
<1>7. CASE UNCHANGED vars
  <2>1. PortfolioOK /\ RowsOK /\ JobsOK
    BY SafetyParts
  <2>2. PortfolioOK' /\ Grows
    BY <1>7, <2>1, PortfolioUntouched DEF vars
  <2>3. RowsOK'
    BY <1>7, <2>1 DEF RowsOK, vars
  <2>4. JobsOK'
    BY <1>7, <2>1, <2>2, JobsUnchanged DEF vars
  <2>5. QED
    BY <2>2, <2>3, <2>4 DEF SafetyInv, TypeOK, PortfolioOK, RowsOK, JobsOK
<1>8. QED
  BY <1>1, <1>2, <1>3, <1>4, <1>5, <1>6, <1>7, AbandonStep DEF Next

\* The pipeline keeps the whole inductive invariant: types, instalments within
\* what they owe, snapshots never ahead, closed credits paid.
THEOREM PipelineSafe == Spec => []SafetyInv
<1>1. Init => SafetyInv
  BY InitSafe
<1>2. SafetyInv /\ [Next]_vars => SafetyInv'
  BY StepSafe
<1>3. QED
  BY <1>1, <1>2, PTL DEF Spec

\* Whatever the interleaving of receipts, cash, reconciliation, settlement and
\* manual verification, no instalment is paid beyond what it owes
\* (applyAllocationsTx).
THEOREM NeverOverpaid == Spec => []PaidWithinDue
<1>1. SafetyInv => PaidWithinDue
  BY DEF SafetyInv
<1>2. QED
  BY <1>1, PipelineSafe, PTL

\* No credit is ever closed while something is owed, although its closing was
\* decided on a stale snapshot and written with no condition.
THEOREM ClosedMeansPaid == Spec => []SettledIsPaid
<1>1. SafetyInv => SettledIsPaid
  BY DEF SafetyInv
<1>2. QED
  BY <1>1, PipelineSafe, PTL
-----------------------------------------------------------------------------
(* The effects.                                                             *)

\* No other payment of the same PIX transaction or key has a row.
Fresh(p) ==
  /\ p \in Receipts => ~ E2ERegistered(p)
  /\ p \in CashRequests => ~ KeyUsed(p)

Becomes(p, r) == payment' = [payment EXCEPT ![p] = r]

\* The payment had no row and gets row r.
Born(p, r) ==
  /\ payment[p].status = "NONE" /\ r.status # "NONE"
  /\ r.amount \in AllAmounts
  /\ Fresh(p)
  /\ Becomes(p, r)

\* The cascade of m lands on credit c, computed on some snapshot.
Lands(p, c, m) ==
  \E seen \in [Plan -> Nat] :
    /\ \A i \in Plan : seen[i] <= paid[c][i]
    /\ CreditPayment(p, c, seen, m)

Quiet == UNCHANGED <<ledger, payment>>

\* Attempts and rejections: the row keeps what the money depends on.
Noted ==
  /\ UNCHANGED ledger
  /\ \E p \in Payments, r \in PaymentRows :
       /\ Becomes(p, r)
       /\ r.credit = payment[p].credit /\ r.amount = payment[p].amount
       /\ r.status = "NONE" <=> payment[p].status = "NONE"
       /\ r.status = "VERIFIED" <=> Verified(p)

Opened ==
  /\ UNCHANGED ledger
  /\ \E p \in Payments, r \in PaymentRows : Born(p, r) /\ r.status # "VERIFIED"

OpenedPaid ==
  \E p \in Payments, r \in PaymentRows :
    /\ Born(p, r)
    /\ r.credit \in Credits
    /\ Lands(p, r.credit, r.amount)
    /\ \/ r.status = "VERIFIED" /\ Route(p, r.amount)
       \/ r.status # "VERIFIED" /\ "ALLOCATE" \in Policies /\ UNCHANGED posted

PaidInto ==
  \E p \in Payments, r \in PaymentRows :
    /\ Becomes(p, r)
    /\ r.status = "VERIFIED" /\ r.amount \in AllAmounts
    /\ r.credit = payment[p].credit /\ r.credit \in Credits
    /\ Calm => ~ Verified(p)
    /\ Lands(p, r.credit, r.amount)
    /\ Route(p, r.amount)

Effect == Quiet \/ Noted \/ Opened \/ OpenedPaid \/ PaidInto
-----------------------------------------------------------------------------
(* How a step leaves what the handlers know true.                           *)

\* What a step needs to leave a job's knowledge true.
Harmless(v) ==
  /\ \A q \in Payments : payment[q].credit \in Credits =>
       payment'[q].credit = payment[q].credit
  /\ job[v].at \in Arriving => payment'[job[v].pay].status = payment[job[v].pay].status

LEMMA JobFacts ==
  ASSUME KnowledgeInv, NEW v \in Workers
  PROVE  /\ job[v] \in Jobs /\ JobFits(job[v], paid) /\ JobTrue(job[v], payment)
         /\ PortfolioOK /\ RowsOK /\ JobsOK
         /\ job \in [Workers -> Jobs]
  BY SafetyParts DEF KnowledgeInv, JobsOK, SnapshotsNeverAhead, JobsTrue

LEMMA HoldingFits ==
  ASSUME NEW j, JobFits(j, paid), j.at \in Holding
  PROVE  j.pay \in Payments /\ j.credit \in Credits
  BY DEF JobFits, Holding, WithPay, WithCredit

\* The jobs of the other handlers.
LEMMA OthersStayTrue ==
  ASSUME KnowledgeInv, NEW w \in Workers, NEW v \in Workers, v # w, Harmless(v)
  PROVE  JobTrue(job[v], payment')
<1> DEFINE j == job[v]
<1>1. JobFits(j, paid) /\ JobTrue(j, payment)
  BY JobFacts
<1>2. ~ Alone
  BY DEF Alone
<1>3. j.at \in ByHand => ~ Calm
  BY <1>1, <1>2 DEF JobTrue, Calm
<1>4. j.at \in Holding => payment'[j.pay].credit = j.credit
  BY <1>1, HoldingFits DEF JobTrue, Harmless
<1>5. j.at \in Arriving => payment'[j.pay].status = "NONE"
  BY <1>1 DEF JobTrue, Harmless
<1> QED
  BY <1>1, <1>2, <1>3, <1>4, <1>5 DEF JobTrue

\* A job that only Source steps pass by.
LEMMA BystanderStaysTrue ==
  ASSUME KnowledgeInv, NEW v \in Workers, Harmless(v), UNCHANGED paid,
         \A q \in Reviewed : payment'[q].status = "VERIFIED" => Verified(q)
  PROVE  JobTrue(job[v], payment')
<1> DEFINE j == job[v]
<1>1. JobFits(j, paid) /\ JobTrue(j, payment)
  BY JobFacts
<1>2. j.at \in ByHand => j.pay \in Reviewed /\ (Calm => payment'[j.pay].status # "VERIFIED")
  BY <1>1 DEF JobTrue, Verified
<1>3. j.at \in Holding => payment'[j.pay].credit = j.credit
  BY <1>1, HoldingFits DEF JobTrue, Harmless
<1>4. j.at \in Arriving => payment'[j.pay].status = "NONE"
  BY <1>1 DEF JobTrue, Harmless
<1> QED
  BY <1>1, <1>2, <1>3, <1>4 DEF JobTrue

\* Handler w moves on to job j, which it knows to be true, and brings in no
\* payment but the one it was bringing in, or one nobody brings in.
LEMMA JobsStayTrue ==
  ASSUME KnowledgeInv, NEW w \in Workers, NEW j, job' = [job EXCEPT ![w] = j],
         JobTrue(j, payment'),
         j.at \in Arriving =>
           \/ job[w].at \in Arriving /\ j.pay = job[w].pay
           \/ \A v \in Workers : job[v].pay = j.pay => job[v].at \notin Arriving,
         \A v \in Workers : v # w => Harmless(v)
  PROVE  JobsTrue' /\ OneHandler'
<1>1. job'[w] = j /\ \A v \in Workers : v # w => job'[v] = job[v]
  BY JobFacts
<1>2. ASSUME NEW v \in Workers
      PROVE  JobTrue(job'[v], payment')
  <2>1. CASE v = w
    BY <1>1, <2>1
  <2>2. CASE v # w
    BY <1>1, <2>2, OthersStayTrue
  <2> QED
    BY <2>1, <2>2
<1>3. ASSUME NEW u \in Workers, NEW v \in Workers,
             job'[u].at \in Arriving, job'[v].at \in Arriving, job'[u].pay = job'[v].pay
      PROVE  u = v
  <2>0. \A x, y \in Workers : job[x].at \in Arriving /\ job[y].at \in Arriving
                                /\ job[x].pay = job[y].pay => x = y
    BY DEF KnowledgeInv, OneHandler
  <2>1. CASE u # w /\ v # w
    BY <1>1, <1>3, <2>0, <2>1
  <2>2. CASE u = w /\ v # w
    BY <1>1, <1>3, <2>0, <2>2
  <2>3. CASE u # w /\ v = w
    BY <1>1, <1>3, <2>0, <2>3
  <2>4. CASE u = w /\ v = w
    BY <2>4
  <2> QED
    BY <2>1, <2>2, <2>3, <2>4
<1> QED
  BY <1>2, <1>3 DEF JobsTrue, OneHandler

LEMMA IdleTrue ==
  \A pm : JobTrue(Idle, pm)
  BY DEF JobTrue, Idle, Arriving, Holding, ByHand, WithSnapshot

\* Steps that change no payment disturb nobody.
LEMMA QuietHarmless ==
  ASSUME KnowledgeInv, UNCHANGED payment
  PROVE  \A v \in Workers : Harmless(v)
  BY DEF Harmless

\* Steps that read, and steps that end their handler.
LEMMA ReadStaysTrue ==
  ASSUME KnowledgeInv, NEW w \in Workers, NEW j, job' = [job EXCEPT ![w] = j],
         JobTrue(j, payment), UNCHANGED <<payment, paid>>,
         j.at \in Arriving =>
           \A v \in Workers : job[v].pay = j.pay => job[v].at \notin Arriving
  PROVE  JobsTrue' /\ OneHandler'
<1>1. JobTrue(j, payment')
  OBVIOUS
<1> QED
  BY <1>1, QuietHarmless, JobsStayTrue

LEMMA EndStaysTrue ==
  ASSUME KnowledgeInv, NEW w \in Workers, NEW j, job' = [job EXCEPT ![w] = j],
         \A pm : JobTrue(j, pm), j.at \notin Arriving,
         \A v \in Workers : v # w => Harmless(v)
  PROVE  JobsTrue' /\ OneHandler'
<1>1. JobTrue(j, payment')
  OBVIOUS
<1> QED
  BY <1>1, JobsStayTrue

LEMMA DoneStaysTrue ==
  ASSUME KnowledgeInv, NEW w \in Workers, Done(w),
         \A v \in Workers : v # w => Harmless(v)
  PROVE  JobsTrue' /\ OneHandler'
<1>1. Idle.at \notin Arriving
  BY DEF Idle, Arriving
<1> QED
  BY <1>1, IdleTrue, EndStaysTrue DEF Done

\* A row that keeps its credit, or that only handler w was bringing in.
LEMMA RowHarmless ==
  ASSUME KnowledgeInv, NEW w \in Workers, NEW p \in Payments, NEW r, Becomes(p, r),
         \/ /\ payment[p].status = "NONE"
            /\ \A v \in Workers : v # w => ~ (job[v].at \in Arriving /\ job[v].pay = p)
         \/ /\ payment[p].status \in {"NONE"} => r.status = "NONE"
            /\ r.credit = payment[p].credit
  PROVE  \A v \in Workers : v # w => Harmless(v)
<1> SUFFICES ASSUME NEW v \in Workers, v # w
             PROVE  Harmless(v)
  OBVIOUS
<1>1. payment \in [Payments -> PaymentRows] /\ JobFits(job[v], paid)
      /\ JobTrue(job[v], payment)
  BY JobFacts DEF RowsOK
<1>2. payment'[p] = r /\ \A q \in Payments : q # p => payment'[q] = payment[q]
  BY <1>1 DEF Becomes
<1>3. \A q \in Payments : payment[q].status = "NONE" => payment[q].credit \notin Credits
  BY TermsAssumption DEF KnowledgeInv, RowsBound
<1>4. job[v].at \in Arriving => job[v].pay \in Payments /\ payment[job[v].pay].status = "NONE"
  BY <1>1 DEF JobFits, JobTrue, Arriving, WithPay
<1> QED
  BY <1>2, <1>3, <1>4 DEF Harmless

-----------------------------------------------------------------------------
(* What each action knows and does.                                         *)

Row(status, c, m) == [status |-> status, credit |-> c, amount |-> m, attempts |-> 0]

LEMMA RowFacts ==
  ASSUME NEW status \in Statuses, NEW c \in Credits \cup {NoCredit}, NEW m \in Nat
  PROVE  /\ Row(status, c, m) \in PaymentRows
         /\ Row(status, c, m).status = status /\ Row(status, c, m).credit = c
         /\ Row(status, c, m).amount = m
  BY DEF Row, PaymentRows

LEMMA InsertBecomes ==
  ASSUME NEW p, NEW status, NEW c, NEW m, Insert(p, status, c, m)
  PROVE  Becomes(p, Row(status, c, m))
  BY DEF Insert, Becomes, Row

LEMMA KnownAmounts ==
  ASSUME NEW p \in Payments
  PROVE  ReadAmount[p] \in AllAmounts /\ BankAmount[p] \in AllAmounts
  BY DEF AllAmounts

\* The row that handler w brings in is nobody else's.
LEMMA ArrivalHarmless ==
  ASSUME KnowledgeInv, NEW w \in Workers, job[w].at \in Arriving,
         NEW r, Becomes(job[w].pay, r)
  PROVE  /\ job[w].pay \in Payments /\ payment[job[w].pay].status = "NONE"
         /\ \A v \in Workers : v # w => Harmless(v)
<1> DEFINE p == job[w].pay
<1>1. p \in Payments /\ payment[p].status = "NONE"
  BY JobFacts DEF JobFits, JobTrue, Arriving, WithPay
<1>2. \A v \in Workers : v # w => ~ (job[v].at \in Arriving /\ job[v].pay = p)
  BY DEF KnowledgeInv, OneHandler
<1> QED
  BY <1>1, <1>2, RowHarmless

LEMMA StartReceiptDoes ==
  ASSUME KnowledgeInv, NEW w \in Workers, NEW p \in Receipts, StartReceipt(w, p)
  PROVE  JobsTrue' /\ OneHandler' /\ Effect
<1>1. Quiet /\ UNCHANGED <<payment, paid>> /\ payment[p].status = "NONE"
  BY DEF StartReceipt, Quiet, ledger, Unstarted
<1>2. \A v \in Workers : job[v].pay = p => job[v].at \notin Arriving
  BY DEF StartReceipt, Unstarted, Arriving
<1>3. ASSUME NEW c \in Credits,
             job' = [job EXCEPT ![w] = [Idle EXCEPT
                       !.at = "receipt", !.pay = p, !.credit = c, !.seen = paid[c]]]
      PROVE  JobsTrue' /\ OneHandler'
  <2> DEFINE j == [Idle EXCEPT !.at = "receipt", !.pay = p, !.credit = c,
                               !.seen = paid[c]]
  <2>1. j.at = "receipt" /\ j.pay = p /\ j.credit = c /\ j.seen = paid[c]
    BY DEF Idle
  <2>2. job' = [job EXCEPT ![w] = j]
    BY <1>3
  <2> HIDE DEF j
  <2>3. JobTrue(j, payment)
    BY <1>1, <2>1 DEF JobTrue, Arriving, Holding, ByHand, WithSnapshot
  <2> QED
    BY <1>1, <1>2, <2>1, <2>2, <2>3, ReadStaysTrue
<1>4. ASSUME job' = [job EXCEPT ![w] = [Idle EXCEPT !.at = "orphan", !.pay = p]]
      PROVE  JobsTrue' /\ OneHandler'
  <2> DEFINE j == [Idle EXCEPT !.at = "orphan", !.pay = p]
  <2>1. j.at = "orphan" /\ j.pay = p
    BY DEF Idle
  <2>2. job' = [job EXCEPT ![w] = j]
    BY <1>4
  <2> HIDE DEF j
  <2>3. JobTrue(j, payment)
    BY <1>1, <2>1 DEF JobTrue, Arriving, Holding, ByHand, WithSnapshot
  <2> QED
    BY <1>1, <1>2, <2>1, <2>2, <2>3, ReadStaysTrue
<1>5. ActiveCredits(p) \subseteq Credits
  BY PaymentFacts DEF ActiveCredits, Payments
<1> QED
  BY <1>1, <1>3, <1>4, <1>5 DEF StartReceipt, Effect

LEMMA SaveOrphanDoes ==
  ASSUME KnowledgeInv, NEW w \in Workers, SaveOrphan(w)
  PROVE  JobsTrue' /\ OneHandler' /\ Effect
<1> DEFINE p == job[w].pay
           r == Row("RECEIVED", NoCredit, ReadAmount[p])
<1>1. job[w].at = "orphan" /\ job[w].at \in Arriving /\ Done(w) /\ UNCHANGED ledger
  BY DEF SaveOrphan, Arriving
<1>2. p \in Payments /\ p \in Receipts /\ p \notin CashRequests
      /\ payment[p].status = "NONE"
  BY <1>1, JobFacts, InputAssumption DEF JobTrue, JobFits, WithPay
<1> HIDE DEF p
<1>3. CASE E2ERegistered(p)
  <2>1. UNCHANGED payment
    BY <1>3 DEF SaveOrphan, p
  <2> QED
    BY <1>1, <2>1, QuietHarmless, DoneStaysTrue DEF Effect, Quiet
<1>4. CASE ~ E2ERegistered(p)
  <2>1. Becomes(p, r)
    BY <1>4, InsertBecomes DEF SaveOrphan, p
  <2>2. r \in PaymentRows /\ r.status = "RECEIVED" /\ r.amount = ReadAmount[p]
    BY <1>2, PaymentFacts, RowFacts DEF Statuses
  <2> HIDE DEF r
  <2>3. \A v \in Workers : v # w => Harmless(v)
    BY <1>1, <2>1, ArrivalHarmless DEF p
  <2>4. Born(p, r) /\ r.status # "VERIFIED"
    BY <1>2, <1>4, <2>1, <2>2, KnownAmounts DEF Born, Fresh
  <2>5. Opened
    BY <1>1, <1>2, <2>2, <2>4 DEF Opened
  <2> QED
    BY <1>1, <2>3, <2>5, DoneStaysTrue DEF Effect
<1> QED
  BY <1>3, <1>4

LEMMA SaveReceiptDoes ==
  ASSUME KnowledgeInv, NEW w \in Workers, NEW fraud \in BOOLEAN, NEW bank,
         NEW policy \in Policies, SaveReceipt(w, fraud, bank, policy)
  PROVE  JobsTrue' /\ OneHandler' /\ Effect
<1> DEFINE p == job[w].pay
           c == job[w].credit
           status == ReviewStatus(fraud, ReadAmount[p], bank)
           amount == IF status = "VERIFIED" THEN BankAmount[p] ELSE ReadAmount[p]
           r == Row(status, c, amount)
           credits == CreditPayment(p, c, job[w].seen, amount)
<1>1. job[w].at = "receipt" /\ job[w].at \in Arriving /\ Done(w)
  BY DEF SaveReceipt, Arriving
<1>2. /\ p \in Payments /\ p \in Receipts /\ p \notin CashRequests
      /\ payment[p].status = "NONE" /\ c \in Credits
      /\ job[w].seen \in [Plan -> Nat]
      /\ \A i \in Plan : job[w].seen[i] <= paid[c][i]
  BY <1>1, JobFacts, InputAssumption DEF JobTrue, JobFits, Jobs, WithPay, WithCredit,
                                         WithSnapshot
<1>3. status \in Statuses \ {"NONE"}
  BY DEF ReviewStatus, Statuses
<1>4. amount \in Nat /\ amount \in AllAmounts
  BY <1>2, PaymentFacts, KnownAmounts
<1>5. \/ E2ERegistered(p) /\ UNCHANGED <<payment, ledger>>
      \/ /\ ~ E2ERegistered(p)
         /\ Insert(p, status, c, amount)
         /\ \/ credits /\ (status = "VERIFIED" \/ "ALLOCATE" \in Policies)
            \/ UNCHANGED <<paid, alloc, principal, creditStatus>> /\ status # "VERIFIED"
         /\ IF status = "VERIFIED" THEN Route(p, amount) ELSE UNCHANGED posted
  BY DEF SaveReceipt
<1> HIDE DEF p, c, status, amount
<1>6. CASE UNCHANGED <<payment, ledger>>
  BY <1>1, <1>6, QuietHarmless, DoneStaysTrue DEF Effect, Quiet
<1>7. CASE ~ E2ERegistered(p) /\ Insert(p, status, c, amount)
  <2>1. Becomes(p, r)
    BY <1>7, InsertBecomes
  <2>2. r \in PaymentRows /\ r.status = status /\ r.credit = c /\ r.amount = amount
    BY <1>2, <1>3, <1>4, RowFacts
  <2> HIDE DEF r
  <2>3. \A v \in Workers : v # w => Harmless(v)
    BY <1>1, <2>1, ArrivalHarmless DEF p
  <2>4. Born(p, r)
    BY <1>2, <1>3, <1>4, <1>7, <2>1, <2>2 DEF Born, Fresh
  <2>5. CASE UNCHANGED <<paid, alloc, principal, creditStatus>> /\ status # "VERIFIED"
    <3>1. UNCHANGED posted
      BY <1>2, <1>5, <2>4, <2>5 DEF ledger
    <3>2. Opened
      BY <1>2, <2>2, <2>4, <2>5, <3>1 DEF Opened, ledger
    <3> QED
      BY <1>1, <2>3, <3>2, DoneStaysTrue DEF Effect
  <2>6. CASE credits /\ (status = "VERIFIED" \/ "ALLOCATE" \in Policies)
    <3>1. Lands(p, r.credit, r.amount)
      BY <1>2, <2>2, <2>6 DEF Lands
    <3>2. \/ r.status = "VERIFIED" /\ Route(p, r.amount)
          \/ r.status # "VERIFIED" /\ "ALLOCATE" \in Policies /\ UNCHANGED posted
      BY <1>5, <1>7, <2>2, <2>6
    <3>3. OpenedPaid
      BY <1>2, <2>2, <2>4, <3>1, <3>2 DEF OpenedPaid
    <3> QED
      BY <1>1, <2>3, <3>3, DoneStaysTrue DEF Effect
  <2> QED
    BY <1>5, <1>7, <2>5, <2>6
<1> QED
  BY <1>5, <1>6, <1>7

LEMMA CreateChargeDoes ==
  ASSUME KnowledgeInv, NEW p \in Charges, CreateCharge(p)
  PROVE  JobsTrue' /\ OneHandler' /\ Effect
<1>1. p \in Payments /\ p \notin Receipts /\ p \notin CashRequests
  BY InputAssumption DEF Payments
<1>2. PICK c \in Credits : Insert(p, "UNVERIFIED", c, ReadAmount[p])
  BY <1>1, PaymentFacts DEF CreateCharge
<1> DEFINE r == Row("UNVERIFIED", c, ReadAmount[p])
<1>3. Becomes(p, r)
  BY <1>2, InsertBecomes
<1>4. r \in PaymentRows /\ r.status = "UNVERIFIED" /\ r.amount = ReadAmount[p]
  BY <1>1, PaymentFacts, RowFacts DEF Statuses
<1> HIDE DEF r
<1>5. UNCHANGED <<ledger, job, paid>> /\ payment[p].status = "NONE"
  BY DEF CreateCharge, ledger
<1>6. Opened
  BY <1>1, <1>3, <1>4, <1>5, KnownAmounts DEF Opened, Born, Fresh
<1>7. /\ \A v \in Workers : ~ (job[v].at \in Arriving /\ job[v].pay = p)
  BY <1>1, JobFacts DEF JobTrue, Arriving
<1>8. payment \in [Payments -> PaymentRows]
  BY SafetyParts DEF KnowledgeInv, RowsOK
<1>9. payment'[p] = r /\ \A q \in Payments : q # p => payment'[q] = payment[q]
  BY <1>1, <1>3, <1>8 DEF Becomes
<1>10. ASSUME NEW v \in Workers
       PROVE  JobTrue(job[v], payment')
  <2>1. payment[p].credit \notin Credits
    BY <1>1, <1>5, TermsAssumption DEF KnowledgeInv, RowsBound
  <2>2. Harmless(v)
    <3>1. job[v].at \in Arriving => job[v].pay \in Payments
      BY JobFacts DEF JobFits, Arriving, WithPay
    <3> QED
      BY <1>7, <1>9, <2>1, <3>1 DEF Harmless
  <2>3. \A q \in Reviewed : payment'[q].status = "VERIFIED" => Verified(q)
    BY <1>4, <1>9, InputAssumption DEF Verified
  <2> QED
    BY <1>5, <2>2, <2>3, BystanderStaysTrue
<1>11. JobsTrue' /\ OneHandler'
  BY <1>5, <1>10 DEF JobsTrue, OneHandler, KnowledgeInv
<1> QED
  BY <1>6, <1>11 DEF Effect

LEMMA StartCashDoes ==
  ASSUME KnowledgeInv, NEW w \in Workers, NEW p \in CashRequests, StartCash(w, p)
  PROVE  JobsTrue' /\ OneHandler' /\ Effect
<1>1. Quiet /\ UNCHANGED <<payment, paid>> /\ payment[p].status = "NONE"
  BY DEF StartCash, Quiet, ledger, Unstarted
<1>2. \A v \in Workers : job[v].pay = p => job[v].at \notin Arriving
  BY DEF StartCash, Unstarted, Arriving
<1>3. PICK c \in CreditsOf[p] :
        job' = [job EXCEPT ![w] = [Idle EXCEPT
                  !.at = "cash", !.pay = p, !.credit = c, !.seen = paid[c]]]
  BY DEF StartCash
<1> DEFINE j == [Idle EXCEPT !.at = "cash", !.pay = p, !.credit = c, !.seen = paid[c]]
<1>4. j.at = "cash" /\ j.pay = p /\ j.credit = c /\ j.seen = paid[c]
  BY DEF Idle
<1>5. job' = [job EXCEPT ![w] = j]
  BY <1>3
<1> HIDE DEF j
<1>6. JobTrue(j, payment)
  BY <1>1, <1>4 DEF JobTrue, Arriving, Holding, ByHand, WithSnapshot
<1> QED
  BY <1>1, <1>2, <1>4, <1>5, <1>6, ReadStaysTrue DEF Effect

LEMMA CommitCashDoes ==
  ASSUME KnowledgeInv, NEW w \in Workers, CommitCash(w)
  PROVE  JobsTrue' /\ OneHandler' /\ Effect
<1> DEFINE p == job[w].pay
           c == job[w].credit
           r == Row("VERIFIED", c, ReadAmount[p])
<1>1. job[w].at = "cash" /\ job[w].at \in Arriving /\ Done(w)
  BY DEF CommitCash, Arriving
<1>2. /\ p \in Payments /\ p \in CashRequests /\ p \notin Receipts
      /\ payment[p].status = "NONE" /\ c \in Credits
      /\ job[w].seen \in [Plan -> Nat]
      /\ \A i \in Plan : job[w].seen[i] <= paid[c][i]
  BY <1>1, JobFacts, InputAssumption DEF JobTrue, JobFits, Jobs, WithPay, WithCredit,
                                         WithSnapshot, Arriving
<1>3. /\ ~ KeyUsed(p) /\ Insert(p, "VERIFIED", c, ReadAmount[p])
      /\ Route(p, ReadAmount[p])
      /\ CreditPayment(p, c, job[w].seen, ReadAmount[p])
  BY DEF CommitCash
<1> HIDE DEF p, c
<1>4. Becomes(p, r)
  BY <1>3, InsertBecomes
<1>5. r \in PaymentRows /\ r.status = "VERIFIED" /\ r.credit = c /\ r.amount = ReadAmount[p]
  BY <1>2, PaymentFacts, RowFacts DEF Statuses
<1> HIDE DEF r
<1>6. \A v \in Workers : v # w => Harmless(v)
  BY <1>1, <1>4, ArrivalHarmless DEF p
<1>7. Born(p, r)
  BY <1>2, <1>3, <1>4, <1>5, KnownAmounts DEF Born, Fresh
<1>8. Lands(p, r.credit, r.amount) /\ Route(p, r.amount)
  BY <1>2, <1>3, <1>5 DEF Lands
<1>9. OpenedPaid
  BY <1>2, <1>5, <1>7, <1>8 DEF OpenedPaid
<1> QED
  BY <1>1, <1>6, <1>9, DoneStaysTrue DEF Effect

\* Jobs of these stages know nothing that another step could make false.
LEMMA IdleMindsTrue ==
  ASSUME NEW j, j.at \in {"idle", "listed", "claims", "matching", "matches"}
  PROVE  j.at \notin Arriving /\ \A pm : JobTrue(j, pm)
  BY DEF JobTrue, Arriving, Holding, ByHand, WithSnapshot

LEMMA PassingOn ==
  ASSUME KnowledgeInv, NEW w \in Workers, NEW j, job' = [job EXCEPT ![w] = j],
         j.at \in {"idle", "listed", "claims", "matching", "matches"},
         UNCHANGED <<ledger, payment>>
  PROVE  JobsTrue' /\ OneHandler' /\ Effect
<1>1. \A v \in Workers : v # w => Harmless(v)
  BY QuietHarmless
<1>2. j.at \notin Arriving /\ \A pm : JobTrue(j, pm)
  BY IdleMindsTrue
<1>3. JobsTrue' /\ OneHandler'
  BY <1>1, <1>2, EndStaysTrue
<1>4. Effect
  BY DEF Effect, Quiet
<1> QED
  BY <1>3, <1>4

LEMMA RestAt ==
  ASSUME NEW w \in Workers, NEW m, AfterMatch(w, m)
  PROVE  /\ job' = [job EXCEPT ![w] = Rest(w, m)]
         /\ Rest(w, m).at \in {"idle", "listed", "claims", "matching", "matches"}
<1>1. Rest(w, m).at \in {"idle", "matches"}
  BY DEF Rest, Idle
<1> QED
  BY <1>1 DEF AfterMatch, Rest

LEMMA ListUnverifiedDoes ==
  ASSUME KnowledgeInv, NEW w \in Workers, NEW p \in Payments, ListUnverified(w, p)
  PROVE  JobsTrue' /\ OneHandler' /\ Effect
<1> DEFINE j == [Idle EXCEPT !.at = "listed", !.pay = p, !.attempts = payment[p].attempts]
<1>1. j.at = "listed"
  BY DEF Idle
<1>2. job' = [job EXCEPT ![w] = j] /\ UNCHANGED <<ledger, payment>>
  BY DEF ListUnverified
<1> HIDE DEF j
<1> QED
  BY <1>1, <1>2, PassingOn

LEMMA ListedFacts ==
  ASSUME KnowledgeInv, NEW w \in Workers, job[w].at \in Holding \cup {"listed"}
  PROVE  /\ job[w].pay \in Payments /\ payment[job[w].pay] \in PaymentRows
         /\ payment \in [Payments -> PaymentRows]
  BY JobFacts DEF JobFits, WithPay, Holding, RowsOK

LEMMA KeepPendingDoes ==
  ASSUME KnowledgeInv, NEW w \in Workers, NEW counted \in BOOLEAN, KeepPending(w, counted)
  PROVE  JobsTrue' /\ OneHandler' /\ Effect
<1> DEFINE p == job[w].pay
           n == payment[p].attempts + (IF counted THEN 1 ELSE 0)
           r == [payment[p] EXCEPT !.attempts = n]
<1>1. p \in Payments /\ payment[p] \in PaymentRows /\ payment \in [Payments -> PaymentRows]
  BY ListedFacts DEF KeepPending
<1>2. Done(w) /\ UNCHANGED ledger
  BY DEF KeepPending
<1>3. n \in Nat
  BY <1>1 DEF PaymentRows
<1>4. Becomes(p, r)
  BY <1>1 DEF KeepPending, Becomes
<1> HIDE DEF n, p
<1>5. /\ r \in PaymentRows /\ r.credit = payment[p].credit /\ r.amount = payment[p].amount
      /\ r.status = payment[p].status
  BY <1>1, <1>3 DEF PaymentRows
<1> HIDE DEF r
<1>6. \A v \in Workers : v # w => Harmless(v)
  BY <1>1, <1>4, <1>5, RowHarmless
<1>7. Noted
  BY <1>1, <1>2, <1>4, <1>5 DEF Noted, Verified
<1> QED
  BY <1>2, <1>6, <1>7, DoneStaysTrue DEF Effect

\* A row that is given a status and an amount.
LEMMA SetBecomes ==
  ASSUME payment \in [Payments -> PaymentRows], NEW p \in Payments,
         NEW status \in Statuses, NEW m \in Nat, SetStatus(p, status, m)
  PROVE  \E r \in PaymentRows :
           /\ Becomes(p, r)
           /\ r.status = status /\ r.amount = m /\ r.credit = payment[p].credit
<1> DEFINE r == [payment[p] EXCEPT !.status = status, !.amount = m]
<1>1. r \in PaymentRows /\ r.status = status /\ r.amount = m /\ r.credit = payment[p].credit
  BY DEF PaymentRows
<1>2. Becomes(p, r)
  BY DEF SetStatus, Becomes
<1> QED
  BY <1>1, <1>2

LEMMA FlagSuspectedFraudDoes ==
  ASSUME KnowledgeInv, NEW w \in Workers, FlagSuspectedFraud(w)
  PROVE  JobsTrue' /\ OneHandler' /\ Effect
<1> DEFINE p == job[w].pay
<1>1. p \in Payments /\ payment[p] \in PaymentRows /\ payment \in [Payments -> PaymentRows]
  BY ListedFacts DEF FlagSuspectedFraud
<1>2. Done(w) /\ UNCHANGED ledger
  BY DEF FlagSuspectedFraud
<1> HIDE DEF p
<1>3. CASE payment[p].status # "UNVERIFIED"
  <2>1. UNCHANGED payment
    BY <1>3 DEF FlagSuspectedFraud, p
  <2> QED
    BY <1>2, <2>1, QuietHarmless, DoneStaysTrue DEF Effect, Quiet
<1>4. CASE payment[p].status = "UNVERIFIED"
  <2>1. SetStatus(p, "REJECTED_FRAUD", payment[p].amount)
    BY <1>4 DEF FlagSuspectedFraud, p
  <2>2. payment[p].amount \in Nat
    BY <1>1 DEF PaymentRows
  <2>3. PICK r \in PaymentRows :
          /\ Becomes(p, r)
          /\ r.status = "REJECTED_FRAUD" /\ r.amount = payment[p].amount
          /\ r.credit = payment[p].credit
    BY <1>1, <2>1, <2>2, SetBecomes DEF Statuses
  <2>4. \A v \in Workers : v # w => Harmless(v)
    BY <1>1, <1>4, <2>3, RowHarmless
  <2>5. Noted
    BY <1>1, <1>2, <1>4, <2>3 DEF Noted, Verified
  <2> QED
    BY <1>2, <2>4, <2>5, DoneStaysTrue DEF Effect
<1> QED
  BY <1>3, <1>4

LEMMA LoadForVerificationDoes ==
  ASSUME KnowledgeInv, NEW w \in Workers, LoadForVerification(w)
  PROVE  JobsTrue' /\ OneHandler' /\ Effect
<1> DEFINE p == job[w].pay
           c == payment[p].credit
           j == [Idle EXCEPT !.at = "verify", !.pay = p, !.credit = c,
                             !.seen = paid[c], !.amount = BankAmount[p]]
<1>1. p \in Payments
  BY ListedFacts DEF LoadForVerification
<1>2. j.at = "verify" /\ j.pay = p /\ j.credit = c /\ j.seen = paid[c] /\ j.amount = BankAmount[p]
  BY DEF Idle
<1>3. job' = [job EXCEPT ![w] = j] /\ UNCHANGED <<ledger, payment, paid>> /\ j.at \notin Arriving
  BY <1>2 DEF LoadForVerification, ledger, Arriving
<1> HIDE DEF j
<1>4. JobTrue(j, payment)
  BY <1>1, <1>2, KnownAmounts DEF JobTrue, Arriving, Holding, ByHand, WithSnapshot
<1> QED
  BY <1>3, <1>4, ReadStaysTrue DEF Effect, Quiet

\* A handler that holds a payment credits it, on the snapshot it has.
LEMMA CreditingDoes ==
  ASSUME KnowledgeInv, NEW w \in Workers,
         job[w].at \in {"verify", "confirm", "manual"},
         Calm => ~ Verified(job[w].pay),
         SetStatus(job[w].pay, "VERIFIED", job[w].amount),
         CreditPayment(job[w].pay, job[w].credit, job[w].seen, job[w].amount),
         Route(job[w].pay, job[w].amount)
  PROVE  PaidInto /\ \A v \in Workers : v # w => Harmless(v)
<1> DEFINE p == job[w].pay
           c == job[w].credit
           m == job[w].amount
<1>1. /\ p \in Payments /\ c \in Credits /\ m \in Nat /\ m \in AllAmounts
      /\ payment[p].credit = c
      /\ job[w].seen \in [Plan -> Nat]
      /\ \A i \in Plan : job[w].seen[i] <= paid[c][i]
  BY JobFacts DEF JobTrue, JobFits, Jobs, WithPay, WithCredit, WithSnapshot, Holding
<1>2. payment \in [Payments -> PaymentRows]
  BY JobFacts DEF RowsOK
<1>3. PICK r \in PaymentRows :
        /\ Becomes(p, r)
        /\ r.status = "VERIFIED" /\ r.amount = m /\ r.credit = payment[p].credit
  BY <1>1, <1>2, SetBecomes DEF Statuses
<1>4. Lands(p, c, m)
  BY <1>1 DEF Lands
<1>5. payment[p].status # "NONE"
  BY <1>1, TermsAssumption DEF KnowledgeInv, RowsBound
<1>6. \A v \in Workers : v # w => Harmless(v)
  BY <1>1, <1>3, <1>5, RowHarmless
<1>7. PaidInto
  <2>1. Route(p, m) /\ (Calm => ~ Verified(p))
    OBVIOUS
  <2> HIDE DEF p, c, m
  <2> QED
    BY <1>1, <1>3, <1>4, <2>1 DEF PaidInto
<1> QED
  BY <1>6, <1>7

LEMMA ApplyVerificationDoes ==
  ASSUME KnowledgeInv, NEW w \in Workers, ApplyVerification(w)
  PROVE  JobsTrue' /\ OneHandler' /\ Effect
<1> DEFINE p == job[w].pay
<1>1. job[w].at = "verify" /\ Done(w)
  BY DEF ApplyVerification
<1>2. CASE payment[p].status # "UNVERIFIED"
  <2>1. UNCHANGED <<ledger, payment>>
    BY <1>2 DEF ApplyVerification
  <2> QED
    BY <1>1, <2>1, QuietHarmless, DoneStaysTrue DEF Effect, Quiet
<1>3. CASE payment[p].status = "UNVERIFIED"
  <2>1. /\ SetStatus(p, "VERIFIED", job[w].amount)
        /\ CreditPayment(p, job[w].credit, job[w].seen, job[w].amount)
        /\ Route(p, job[w].amount)
        /\ ~ Verified(p)
    BY <1>3 DEF ApplyVerification, Verified
  <2>2. PaidInto /\ \A v \in Workers : v # w => Harmless(v)
    BY <1>1, <2>1, CreditingDoes
  <2> QED
    BY <1>1, <2>2, DoneStaysTrue DEF Effect
<1> QED
  BY <1>2, <1>3

LEMMA SettlementReadsDo ==
  ASSUME KnowledgeInv, NEW w \in Workers,
         \/ \E auto \in AutoConfirm : LoadPendingClaims(w, auto)
         \/ DropReserved(w)
         \/ MatchCredits(w)
  PROVE  JobsTrue' /\ OneHandler' /\ Effect
<1>1. CASE \E auto \in AutoConfirm : LoadPendingClaims(w, auto)
  <2>1. PICK auto \in AutoConfirm : LoadPendingClaims(w, auto)
    BY <1>1
  <2> DEFINE j == [Idle EXCEPT !.at = "claims", !.auto = auto, !.claims = Pending]
  <2>2. j.at = "claims"
    BY DEF Idle
  <2>3. job' = [job EXCEPT ![w] = j] /\ UNCHANGED <<ledger, payment>>
    BY <2>1 DEF LoadPendingClaims
  <2> HIDE DEF j
  <2> QED
    BY <2>2, <2>3, PassingOn
<1>2. CASE DropReserved(w)
  <2> DEFINE left == {p \in job[w].claims : ~ Reserved(p)}
             j == [job[w] EXCEPT !.at = "matching", !.claims = left]
  <2>0. job[w] \in Jobs /\ job \in [Workers -> Jobs]
    BY JobFacts
  <2>1. j.at = "matching"
    BY <2>0 DEF Jobs
  <2>2. job' = [job EXCEPT ![w] = j] /\ UNCHANGED <<ledger, payment>>
    BY <1>2, <2>0 DEF DropReserved
  <2> HIDE DEF j
  <2> QED
    BY <2>1, <2>2, PassingOn
<1>3. CASE MatchCredits(w)
  <2> DEFINE found == Matcher!MatchCreditsToClaims(job[w].claims, FreeRows)
             pairs == {m \in job[w].claims \X FreeRows : found[m[1]] = m[2]}
             busy == [Idle EXCEPT !.at = "matches", !.todo = pairs, !.auto = job[w].auto]
             j == IF pairs = {} THEN Idle ELSE busy
  <2>1. job' = [job EXCEPT ![w] = j] /\ UNCHANGED <<ledger, payment>>
    BY <1>3 DEF MatchCredits
  <2> HIDE DEF found, pairs
  <2>2. busy.at = "matches" /\ Idle.at = "idle"
    BY DEF Idle
  <2> HIDE DEF busy
  <2>3. j.at \in {"idle", "listed", "claims", "matching", "matches"}
    BY <2>2
  <2> HIDE DEF j
  <2> QED
    BY <2>1, <2>3, PassingOn
<1> QED
  BY <1>1, <1>2, <1>3

LEMMA LoadForConfirmDoes ==
  ASSUME KnowledgeInv, NEW w \in Workers, NEW m \in job[w].todo, LoadForConfirm(w, m)
  PROVE  JobsTrue' /\ OneHandler' /\ Effect
<1> DEFINE c == payment[m[1]].credit
           j == [job[w] EXCEPT !.at = "confirm", !.pay = m[1], !.row = m[2],
                               !.credit = c, !.seen = paid[c],
                               !.amount = IncomingAmount[m[2]]]
<1>1. job[w] \in Jobs /\ job \in [Workers -> Jobs]
  BY JobFacts
<1>2. m[1] \in Payments /\ m[2] \in Incoming
  BY <1>1 DEF Jobs
<1>3. UNCHANGED <<ledger, payment, paid>>
  BY DEF LoadForConfirm, ledger
<1>4. CASE c # NoCredit /\ creditStatus[c] = "ACTIVE"
  <2>1. job' = [job EXCEPT ![w] = j]
    BY <1>1, <1>4 DEF LoadForConfirm
  <2>2. /\ j.at = "confirm" /\ j.pay = m[1] /\ j.credit = c /\ j.seen = paid[c]
        /\ j.amount = IncomingAmount[m[2]]
    BY <1>1 DEF Jobs
  <2> HIDE DEF j
  <2>3. JobTrue(j, payment)
    BY <1>2, <2>2 DEF JobTrue, Arriving, Holding, ByHand, WithSnapshot, AllAmounts
  <2>4. j.at \notin Arriving
    BY <2>2 DEF Arriving
  <2> QED
    BY <1>3, <2>1, <2>3, <2>4, ReadStaysTrue DEF Effect, Quiet
<1>5. CASE ~ (c # NoCredit /\ creditStatus[c] = "ACTIVE")
  <2>1. AfterMatch(w, m)
    BY <1>5 DEF LoadForConfirm
  <2> QED
    BY <1>3, <2>1, RestAt, PassingOn
<1> QED
  BY <1>4, <1>5

LEMMA ConfirmWithCreditDoes ==
  ASSUME KnowledgeInv, NEW w \in Workers, ConfirmWithCredit(w)
  PROVE  JobsTrue' /\ OneHandler' /\ Effect
<1> DEFINE p == job[w].pay
           k == job[w].row
<1>1. job[w].at = "confirm" /\ AfterMatch(w, <<p, k>>)
  BY DEF ConfirmWithCredit
<1>2. CASE ~ StillOpen(p, k)
  <2>1. UNCHANGED <<ledger, payment>>
    BY <1>2 DEF ConfirmWithCredit
  <2> QED
    BY <1>1, <2>1, RestAt, PassingOn
<1>3. CASE StillOpen(p, k)
  <2>1. /\ SetStatus(p, "VERIFIED", job[w].amount)
        /\ CreditPayment(p, job[w].credit, job[w].seen, job[w].amount)
        /\ Route(p, job[w].amount)
        /\ ~ Verified(p)
    BY <1>3 DEF ConfirmWithCredit, StillOpen, Verified
  <2>2. PaidInto /\ \A v \in Workers : v # w => Harmless(v)
    BY <1>1, <2>1, CreditingDoes
  <2> QED
    BY <1>1, <2>2, RestAt, IdleMindsTrue, EndStaysTrue DEF Effect
<1> QED
  BY <1>2, <1>3

LEMMA ReserveCreditForReviewDoes ==
  ASSUME KnowledgeInv, NEW w \in Workers, NEW m \in job[w].todo,
         ReserveCreditForReview(w, m)
  PROVE  JobsTrue' /\ OneHandler' /\ Effect
  BY RestAt, PassingOn DEF ReserveCreditForReview

LEMMA ReadForManualDoes ==
  ASSUME KnowledgeInv, NEW w \in Workers, NEW p \in Reviewed, ReadForManual(w, p)
  PROVE  JobsTrue' /\ OneHandler' /\ Effect
<1>1. p \in Payments
  BY InputAssumption
<1>2. PICK m \in ManualAmounts(p) \ {0} :
        job' = [job EXCEPT ![w] = [Idle EXCEPT !.at = "read", !.pay = p, !.amount = m,
                                               !.credit = payment[p].credit]]
  BY DEF ReadForManual
<1>3. m \in AllAmounts
  <2>1. payment[p].amount \in AllAmounts \cup {0}
    BY <1>1 DEF KnowledgeInv, RowsBound
  <2> QED
    BY <1>2, <2>1 DEF ManualAmounts, AllAmounts
<1> DEFINE j == [Idle EXCEPT !.at = "read", !.pay = p, !.amount = m,
                             !.credit = payment[p].credit]
<1>4. j.at = "read" /\ j.pay = p /\ j.amount = m /\ j.credit = payment[p].credit
  BY DEF Idle
<1>5. job' = [job EXCEPT ![w] = j]
  BY <1>2
<1> HIDE DEF j
<1>6. UNCHANGED <<ledger, payment, paid>> /\ payment[p].status # "VERIFIED"
      /\ j.at \notin Arriving
  BY <1>4 DEF ReadForManual, Verifiable, ledger, Arriving
<1>7. JobTrue(j, payment)
  BY <1>3, <1>4, <1>6 DEF JobTrue, Arriving, Holding, ByHand, WithSnapshot
<1> QED
  BY <1>5, <1>6, <1>7, ReadStaysTrue DEF Effect, Quiet

LEMMA LoadForManualDoes ==
  ASSUME KnowledgeInv, NEW w \in Workers, LoadForManual(w)
  PROVE  JobsTrue' /\ OneHandler' /\ Effect
<1> DEFINE j == [job[w] EXCEPT !.at = "manual", !.seen = paid[job[w].credit]]
<1>1. job[w] \in Jobs /\ job \in [Workers -> Jobs] /\ JobTrue(job[w], payment)
  BY JobFacts
<1>2. /\ j.at = "manual" /\ j.pay = job[w].pay /\ j.credit = job[w].credit
      /\ j.seen = paid[job[w].credit] /\ j.amount = job[w].amount
  BY <1>1 DEF Jobs
<1>3. job' = [job EXCEPT ![w] = j] /\ UNCHANGED <<ledger, payment, paid>>
      /\ job[w].at = "read"
  BY <1>1 DEF LoadForManual, ledger
<1> HIDE DEF j
<1>4. JobTrue(j, payment) /\ j.at \notin Arriving
  BY <1>1, <1>2, <1>3 DEF JobTrue, Arriving, Holding, ByHand, WithSnapshot
<1> QED
  BY <1>3, <1>4, ReadStaysTrue DEF Effect, Quiet

LEMMA CommitManualDoes ==
  ASSUME KnowledgeInv, NEW w \in Workers, CommitManual(w)
  PROVE  JobsTrue' /\ OneHandler' /\ Effect
<1> DEFINE p == job[w].pay
<1>1. job[w].at = "manual" /\ Done(w)
  BY DEF CommitManual
<1>2. Calm => ~ Verified(p)
  BY <1>1, JobFacts DEF JobTrue, ByHand, Verified
<1>3. /\ SetStatus(p, "VERIFIED", job[w].amount)
      /\ CreditPayment(p, job[w].credit, job[w].seen, job[w].amount)
      /\ Route(p, job[w].amount)
  BY DEF CommitManual
<1>4. PaidInto /\ \A v \in Workers : v # w => Harmless(v)
  BY <1>1, <1>2, <1>3, CreditingDoes
<1> QED
  BY <1>1, <1>4, DoneStaysTrue DEF Effect

LEMMA SourceDoes ==
  ASSUME KnowledgeInv, NEW k \in Incoming, Ingest(k) \/ ConsumeBankCredit(k)
  PROVE  JobsTrue' /\ OneHandler' /\ Effect
<1>1. UNCHANGED <<ledger, payment, job, paid>>
  BY DEF Ingest, ConsumeBankCredit, ledger
<1> QED
  BY <1>1 DEF Effect, Quiet, KnowledgeInv, JobsTrue, OneHandler

LEMMA AbandonDoes ==
  ASSUME KnowledgeInv, NEW w \in Workers, Abandon(w)
  PROVE  JobsTrue' /\ OneHandler' /\ Effect
<1>1. Idle.at = "idle"
  BY DEF Idle
<1> QED
  BY <1>1, PassingOn DEF Abandon, Done

\* Every step keeps what the handlers know true, and is one of the effects.
LEMMA EveryStep ==
  ASSUME KnowledgeInv, [Next]_vars
  PROVE  JobsTrue' /\ OneHandler' /\ Effect
<1>1. ASSUME NEW w \in Workers, Receive(w)
      PROVE  JobsTrue' /\ OneHandler' /\ Effect
  BY <1>1, StartReceiptDoes, SaveOrphanDoes, SaveReceiptDoes DEF Receive
<1>2. ASSUME NEW w \in Workers, RegisterCash(w)
      PROVE  JobsTrue' /\ OneHandler' /\ Effect
  BY <1>2, StartCashDoes, CommitCashDoes DEF RegisterCash
<1>3. ASSUME NEW w \in Workers, Reconcile(w)
      PROVE  JobsTrue' /\ OneHandler' /\ Effect
  BY <1>3, ListUnverifiedDoes, KeepPendingDoes, FlagSuspectedFraudDoes,
     LoadForVerificationDoes, ApplyVerificationDoes DEF Reconcile
<1>4. ASSUME NEW w \in Workers, RunSettlement(w)
      PROVE  JobsTrue' /\ OneHandler' /\ Effect
  BY <1>4, SettlementReadsDo, LoadForConfirmDoes, ConfirmWithCreditDoes,
     ReserveCreditForReviewDoes DEF RunSettlement
<1>5. ASSUME NEW w \in Workers, VerifyByHand(w)
      PROVE  JobsTrue' /\ OneHandler' /\ Effect
  BY <1>5, ReadForManualDoes, LoadForManualDoes, CommitManualDoes DEF VerifyByHand
<1>6. ASSUME NEW w \in Workers, Abandon(w)
      PROVE  JobsTrue' /\ OneHandler' /\ Effect
  BY <1>6, AbandonDoes
<1>7. ASSUME Source
      PROVE  JobsTrue' /\ OneHandler' /\ Effect
  BY <1>7, CreateChargeDoes, SourceDoes DEF Source
<1>8. CASE UNCHANGED vars
  <2>1. UNCHANGED <<ledger, payment, job, paid>>
    BY <1>8 DEF vars, ledger
  <2> QED
    BY <2>1 DEF Effect, Quiet, KnowledgeInv, JobsTrue, OneHandler
<1> QED
  BY <1>1, <1>2, <1>3, <1>4, <1>5, <1>6, <1>7, <1>8 DEF Next

(* What landing does, and what each effect leaves behind.                   *)

\* However old the snapshot, a cascade that is admitted is the cascade of the
\* instalments as they are.
LEMMA LandsFacts ==
  ASSUME SafetyInv, NEW p \in Payments, NEW c \in Credits, NEW m \in Nat, Lands(p, c, m),
         NEW a, a = Cascade(Due[c], paid[c], m)
  PROVE  /\ m > 0
         /\ a \in [Plan -> Nat]
         /\ \A i \in Plan : paid[c][i] + a[i] <= Due[c][i]
         /\ paid' = [paid EXCEPT ![c] = [i \in Plan |-> paid[c][i] + a[i]]]
         /\ alloc' = [alloc EXCEPT ![p] = [i \in Plan |-> alloc[p][i] + a[i]]]
         /\ principal' = [principal EXCEPT ![p] =
              [i \in Plan |-> principal[p][i]
                 + SplitPrincipal(Principal[c], TotalDue(c), Total(paid[c]), a)[i]]]
         /\ UNCHANGED creditStatus \/ creditStatus' = [creditStatus EXCEPT ![c] = "SETTLED"]
<1>1. PICK seen \in [Plan -> Nat] :
        /\ \A i \in Plan : seen[i] <= paid[c][i]
        /\ CreditPayment(p, c, seen, m)
  BY DEF Lands
<1> DEFINE b == Cascade(Due[c], seen, m)
           closes == Settles(Due[c], seen, b)
<1>2. m > 0 /\ ApplyAllocations(p, c, b) /\ Settle(c, closes)
  BY <1>1 DEF CreditPayment
<1>3. DOMAIN b = Plan
  BY CascadeDomain
<1> DEFINE pc == paid[c]
<1>4. /\ N \in Nat /\ Due[c] \in [1..N -> Nat] /\ pc \in [1..N -> Nat]
      /\ \A i \in 1..N : pc[i] <= Due[c][i]
      /\ seen \in [1..N -> Nat]
  BY TermsAssumption DEF SafetyInv, TypeOK, PaidWithinDue, Plan
<1> HIDE DEF b, closes
<1>5. \A i \in Plan : pc[i] + b[i] <= Due[c][i]
  BY <1>2 DEF ApplyAllocations, Admits
<1>6. a = b
  <2>1. \A i \in 1..N : pc[i] + Cascade(Due[c], seen, m)[i] <= Due[c][i]
    BY <1>5 DEF b, Plan
  <2>2. \A i \in 1..N : seen[i] <= pc[i] /\ pc[i] <= Due[c][i]
    BY <1>1, <1>4 DEF Plan
  <2> HIDE DEF pc
  <2>3. Cascade(Due[c], pc, m) = Cascade(Due[c], seen, m)
    BY <1>4, <2>1, <2>2, CascadeStale
  <2> QED
    BY <2>3 DEF b, pc
<1>7. a \in [Plan -> Nat]
  <2>1. a \in [1..N -> Nat]
    BY <1>4, LeftFacts, Zenon
  <2> QED
    BY <2>1 DEF Plan
<1>8. UNCHANGED creditStatus \/ creditStatus' = [creditStatus EXCEPT ![c] = "SETTLED"]
  BY <1>2 DEF Settle
<1>9. /\ paid' = [paid EXCEPT ![c] = [i \in Plan |-> paid[c][i] + b[i]]]
       /\ alloc' = [alloc EXCEPT ![p] = [i \in Plan |-> alloc[p][i] + b[i]]]
       /\ principal' = [principal EXCEPT ![p] =
            [i \in Plan |-> principal[p][i]
               + SplitPrincipal(Principal[c], TotalDue(c), Total(paid[c]), b)[i]]]
  BY <1>2 DEF ApplyAllocations
<1> HIDE DEF pc
<1> QED
  BY <1>2, <1>5, <1>6, <1>7, <1>8, <1>9 DEF pc

\* A landing touches the rows of one payment and the instalments of one credit.
LEMMA LandsAlone ==
  ASSUME SafetyInv, NEW p \in Payments, NEW c \in Credits, NEW m \in Nat, Lands(p, c, m)
  PROVE  /\ m > 0
         /\ \A q \in Payments : q # p => alloc'[q] = alloc[q] /\ principal'[q] = principal[q]
         /\ \A d \in Credits : d # c => paid'[d] = paid[d]
<1> DEFINE a == Cascade(Due[c], paid[c], m)
<1>1. /\ m > 0
      /\ paid' = [paid EXCEPT ![c] = [i \in Plan |-> paid[c][i] + a[i]]]
      /\ alloc' = [alloc EXCEPT ![p] = [i \in Plan |-> alloc[p][i] + a[i]]]
      /\ principal' = [principal EXCEPT ![p] =
           [i \in Plan |-> principal[p][i]
              + SplitPrincipal(Principal[c], TotalDue(c), Total(paid[c]), a)[i]]]
  BY LandsFacts
<1> HIDE DEF a
<1> QED
  BY <1>1 DEF SafetyInv, TypeOK

LEMMA BecomesFacts ==
  ASSUME SafetyInv, NEW p \in Payments, NEW r, Becomes(p, r)
  PROVE  payment'[p] = r /\ \A q \in Payments : q # p => payment'[q] = payment[q]
  BY DEF Becomes, SafetyInv, TypeOK

LEMMA RouteFacts ==
  ASSUME SafetyInv, NEW p \in Payments, NEW m, Route(p, m)
  PROVE  /\ posted'[p] = IF posted[p] = 0 THEN m ELSE posted[p]
         /\ \A q \in Payments : q # p => posted'[q] = posted[q]
  BY DEF Route, SafetyInv, TypeOK

\* What the two effects that move money leave alone, and what they need.
LEMMA MoneyFacts ==
  ASSUME KnowledgeInv, NEW p \in Payments, NEW r \in PaymentRows,
         r.credit \in Credits, Lands(p, r.credit, r.amount), Becomes(p, r)
  PROVE  /\ r.amount \in Nat /\ r.amount > 0 /\ SafetyInv
         /\ payment'[p] = r
         /\ \A q \in Payments : q # p =>
              payment'[q] = payment[q] /\ alloc'[q] = alloc[q] /\ principal'[q] = principal[q]
<1>1. SafetyInv
  BY DEF KnowledgeInv
<1>2. r.amount \in Nat
  BY DEF PaymentRows
<1>3. payment'[p] = r /\ \A q \in Payments : q # p => payment'[q] = payment[q]
  BY <1>1, BecomesFacts
<1>4. /\ r.amount > 0
      /\ \A q \in Payments : q # p => alloc'[q] = alloc[q] /\ principal'[q] = principal[q]
  BY <1>1, <1>2, LandsAlone
<1> QED
  BY <1>1, <1>2, <1>3, <1>4

LEMMA OpenedPaidFacts ==
  ASSUME KnowledgeInv, OpenedPaid
  PROVE  \E p \in Payments, r \in PaymentRows :
           /\ Born(p, r) /\ r.credit \in Credits /\ Lands(p, r.credit, r.amount)
           /\ \/ r.status = "VERIFIED" /\ posted'[p] = r.amount
              \/ r.status # "VERIFIED" /\ "ALLOCATE" \in Policies /\ posted'[p] = 0
           /\ \A q \in Payments : q # p => posted'[q] = posted[q]
<1>1. PICK p \in Payments, r \in PaymentRows :
        /\ Born(p, r)
        /\ r.credit \in Credits
        /\ Lands(p, r.credit, r.amount)
        /\ \/ r.status = "VERIFIED" /\ Route(p, r.amount)
           \/ r.status # "VERIFIED" /\ "ALLOCATE" \in Policies /\ UNCHANGED posted
  BY DEF OpenedPaid
<1>2. posted[p] = 0
  BY <1>1 DEF KnowledgeInv, RowsBound, Born
<1>3. SafetyInv
  BY DEF KnowledgeInv
<1>4. CASE r.status = "VERIFIED"
  <2>1. Route(p, r.amount)
    BY <1>1, <1>4
  <2>2. posted'[p] = r.amount /\ \A q \in Payments : q # p => posted'[q] = posted[q]
    BY <1>2, <1>3, <2>1, RouteFacts
  <2> QED
    BY <1>1, <1>4, <2>2
<1>5. CASE r.status # "VERIFIED"
  BY <1>1, <1>2, <1>5
<1> QED
  BY <1>4, <1>5

LEMMA RowsStayBound ==
  ASSUME KnowledgeInv, Effect
  PROVE  RowsBound'
<1>0. SafetyInv /\ RowsBound /\ \A p \in Payments : payment[p] \in PaymentRows
  BY DEF KnowledgeInv, SafetyInv, TypeOK
<1>1. CASE Quiet
  BY <1>0, <1>1 DEF Quiet, RowsBound, ledger
<1>2. CASE Noted
  <2>1. PICK p \in Payments, r \in PaymentRows :
          /\ Becomes(p, r)
          /\ r.credit = payment[p].credit /\ r.amount = payment[p].amount
          /\ r.status = "NONE" <=> payment[p].status = "NONE"
    BY <1>2 DEF Noted
  <2>2. payment'[p] = r /\ \A q \in Payments : q # p => payment'[q] = payment[q]
    BY <1>0, <2>1, BecomesFacts
  <2>3. UNCHANGED <<alloc, principal, posted>>
    BY <1>2 DEF Noted, ledger
  <2> QED
    BY <1>0, <2>1, <2>2, <2>3 DEF RowsBound
<1>3. CASE Opened
  <2>1. PICK p \in Payments, r \in PaymentRows : Born(p, r)
    BY <1>3 DEF Opened
  <2>2. payment'[p] = r /\ \A q \in Payments : q # p => payment'[q] = payment[q]
    BY <1>0, <2>1, BecomesFacts DEF Born
  <2>3. UNCHANGED <<alloc, principal, posted>>
    BY <1>3 DEF Opened, ledger
  <2> QED
    BY <1>0, <2>1, <2>2, <2>3 DEF RowsBound, Born
<1>4. CASE OpenedPaid
  <2>1. PICK p \in Payments, r \in PaymentRows :
          /\ Born(p, r) /\ r.credit \in Credits /\ Lands(p, r.credit, r.amount)
          /\ \A q \in Payments : q # p => posted'[q] = posted[q]
    BY <1>4, OpenedPaidFacts
  <2>2. /\ payment'[p] = r
        /\ \A q \in Payments : q # p =>
             payment'[q] = payment[q] /\ alloc'[q] = alloc[q] /\ principal'[q] = principal[q]
    BY <2>1, MoneyFacts DEF Born
  <2>3. r.credit # NoCredit
    BY <2>1, TermsAssumption
  <2> QED
    BY <1>0, <2>1, <2>2, <2>3 DEF RowsBound, Born
<1>5. CASE PaidInto
  <2>1. PICK p \in Payments, r \in PaymentRows :
          /\ Becomes(p, r)
          /\ r.status = "VERIFIED" /\ r.amount \in AllAmounts
          /\ r.credit = payment[p].credit /\ r.credit \in Credits
          /\ Lands(p, r.credit, r.amount)
          /\ Route(p, r.amount)
    BY <1>5 DEF PaidInto
  <2>2. /\ payment'[p] = r
        /\ \A q \in Payments : q # p =>
             payment'[q] = payment[q] /\ alloc'[q] = alloc[q] /\ principal'[q] = principal[q]
    BY <2>1, MoneyFacts
  <2>3. r.credit # NoCredit /\ \A q \in Payments : q # p => posted'[q] = posted[q]
    BY <1>0, <2>1, RouteFacts, TermsAssumption
  <2> QED
    BY <1>0, <2>1, <2>2, <2>3 DEF RowsBound
<1> QED
  BY <1>1, <1>2, <1>3, <1>4, <1>5 DEF Effect

LEMMA InitKnown == Init => KnowledgeInv
<1> SUFFICES ASSUME Init PROVE KnowledgeInv
  OBVIOUS
<1>1. SafetyInv
  BY InitSafe
<1>2. \A w \in Workers : job[w] = Idle
  BY DEF Init
<1>3. JobsTrue
  BY <1>2, IdleTrue DEF JobsTrue
<1>4. OneHandler
  BY <1>2 DEF OneHandler, Idle, Arriving
<1>5. RowsBound
  BY DEF Init, RowsBound, NoRow
<1> QED
  BY <1>1, <1>3, <1>4, <1>5 DEF KnowledgeInv

LEMMA StepKnown == KnowledgeInv /\ [Next]_vars => KnowledgeInv' /\ Effect
<1> SUFFICES ASSUME KnowledgeInv, [Next]_vars PROVE KnowledgeInv' /\ Effect
  OBVIOUS
<1>1. SafetyInv'
  BY StepSafe DEF KnowledgeInv
<1>2. JobsTrue' /\ OneHandler' /\ Effect
  BY EveryStep
<1>3. RowsBound'
  BY <1>2, RowsStayBound
<1> QED
  BY <1>1, <1>2, <1>3 DEF KnowledgeInv

\* What handlers know, and where money may sit, holds in every state.
THEOREM KnowledgeInvariant == Spec => []KnowledgeInv
<1>1. KnowledgeInv /\ [Next]_vars => KnowledgeInv'
  BY StepKnown
<1> QED
  BY <1>1, InitKnown, PTL DEF Spec

\* Every step is one of the effects.
LEMMA EveryEffect == Spec => [][Effect]_vars
<1>1. KnowledgeInv /\ [Next]_vars => [Effect]_vars
  BY StepKnown
<1> QED
  BY <1>1, KnowledgeInvariant, PTL DEF Spec
-----------------------------------------------------------------------------
(* Once per PIX transaction and per Idempotency-Key.                        *)

\* Which payments have a row.
LEMMA RowsAppear ==
  ASSUME KnowledgeInv, Effect
  PROVE  \/ \A q \in Payments : payment'[q].status # "NONE" <=> payment[q].status # "NONE"
         \/ \E p \in Payments :
              /\ Fresh(p)
              /\ \A q \in Payments : q # p => payment'[q] = payment[q]
<1>0. SafetyInv /\ RowsBound
  BY DEF KnowledgeInv
<1>1. CASE Quiet
  BY <1>1 DEF Quiet
<1>2. CASE Noted
  <2>1. PICK p \in Payments, r \in PaymentRows :
          Becomes(p, r) /\ (r.status = "NONE" <=> payment[p].status = "NONE")
    BY <1>2 DEF Noted
  <2> QED
    BY <1>0, <2>1, BecomesFacts
<1>3. CASE Opened \/ OpenedPaid
  <2>1. PICK p \in Payments, r \in PaymentRows : Born(p, r)
    BY <1>3 DEF Opened, OpenedPaid
  <2> QED
    BY <1>0, <2>1, BecomesFacts DEF Born
<1>4. CASE PaidInto
  <2>1. PICK p \in Payments, r \in PaymentRows :
          /\ Becomes(p, r) /\ r.status = "VERIFIED"
          /\ r.credit = payment[p].credit /\ r.credit \in Credits
    BY <1>4 DEF PaidInto
  <2>2. payment[p].status # "NONE"
    BY <1>0, <2>1, TermsAssumption DEF RowsBound
  <2> QED
    BY <1>0, <2>1, <2>2, BecomesFacts
<1> QED
  BY <1>1, <1>2, <1>3, <1>4 DEF Effect

LEMMA OnceStep ==
  ASSUME KnowledgeInv, OncePerTransaction, Effect
  PROVE  OncePerTransaction'
<1>1. CASE \A q \in Payments : payment'[q].status # "NONE" <=> payment[q].status # "NONE"
  BY <1>1 DEF OncePerTransaction
<1>2. CASE \E p \in Payments :
              /\ Fresh(p)
              /\ \A q \in Payments : q # p => payment'[q] = payment[q]
  <2>1. PICK p \in Payments :
              /\ Fresh(p)
              /\ \A q \in Payments : q # p => payment'[q] = payment[q]
    BY <1>2
  <2>2. SUFFICES ASSUME NEW x \in Payments, NEW y \in Payments, x # y,
                        payment'[x].status # "NONE", payment'[y].status # "NONE"
        PROVE  /\ {x, y} \subseteq Receipts /\ E2E[x] = E2E[y] => E2E[x] = NoE2E
               /\ {x, y} \subseteq CashRequests /\ Key[x] = Key[y] => Key[x] = NoKey
    BY DEF OncePerTransaction
  <2>3. CASE x = p
    BY <2>1, <2>2, <2>3 DEF Fresh, E2ERegistered, KeyUsed
  <2>4. CASE y = p
    BY <2>1, <2>2, <2>4 DEF Fresh, E2ERegistered, KeyUsed
  <2>5. CASE x # p /\ y # p
    BY <2>1, <2>2, <2>5 DEF OncePerTransaction
  <2> QED
    BY <2>3, <2>4, <2>5
<1> QED
  BY <1>1, <1>2, RowsAppear

\* However many times a receipt or a request arrives and whatever else runs, one PIX
\* transaction and one Idempotency-Key materialise at most one payment
\* (payment_tenant_end_to_end_idx, payment_tenant_idempotency_idx).
THEOREM TransactionsCountOnce == Spec => []OncePerTransaction
<1>1. Init => OncePerTransaction
  BY DEF Init, OncePerTransaction, NoRow
<1>2. KnowledgeInv /\ OncePerTransaction /\ [Next]_vars => OncePerTransaction'
  BY StepKnown, OnceStep
<1> QED
  BY <1>1, <1>2, KnowledgeInvariant, PTL DEF Spec

-----------------------------------------------------------------------------
(* The ledger, when no two handlers verify the same payment by hand.        *)

\* What a step does to the payments that count as money.
LEMMA CalmEffect ==
  ASSUME KnowledgeInv, Calm, LedgerBacksVerified, Effect
  PROVE  \A q \in Payments :
           /\ posted'[q] = IF payment'[q].status = "VERIFIED" THEN payment'[q].amount ELSE 0
           /\ Verified(q) => /\ payment'[q].status = "VERIFIED"
                             /\ payment'[q].amount = payment[q].amount
                             /\ alloc'[q] = alloc[q] /\ posted'[q] = posted[q]
<1>0. SafetyInv /\ RowsBound
  BY DEF KnowledgeInv
<1>1. CASE Quiet
  BY <1>1 DEF Quiet, ledger, LedgerBacksVerified, Verified
<1>2. CASE Noted
  <2>1. PICK p \in Payments, r \in PaymentRows :
          /\ Becomes(p, r)
          /\ r.credit = payment[p].credit /\ r.amount = payment[p].amount
          /\ r.status = "VERIFIED" <=> Verified(p)
    BY <1>2 DEF Noted
  <2>2. payment'[p] = r /\ \A q \in Payments : q # p => payment'[q] = payment[q]
    BY <1>0, <2>1, BecomesFacts
  <2>3. UNCHANGED <<alloc, posted>>
    BY <1>2 DEF Noted, ledger
  <2> QED
    BY <2>1, <2>2, <2>3 DEF LedgerBacksVerified, Verified
<1>3. CASE Opened
  <2>1. PICK p \in Payments, r \in PaymentRows : Born(p, r) /\ r.status # "VERIFIED"
    BY <1>3 DEF Opened
  <2>2. payment'[p] = r /\ \A q \in Payments : q # p => payment'[q] = payment[q]
    BY <1>0, <2>1, BecomesFacts DEF Born
  <2>3. UNCHANGED <<alloc, posted>>
    BY <1>3 DEF Opened, ledger
  <2> QED
    BY <2>1, <2>2, <2>3 DEF LedgerBacksVerified, Verified, Born
<1>4. CASE OpenedPaid
  <2>1. PICK p \in Payments, r \in PaymentRows :
          /\ Born(p, r) /\ r.credit \in Credits /\ Lands(p, r.credit, r.amount)
          /\ \/ r.status = "VERIFIED" /\ posted'[p] = r.amount
             \/ r.status # "VERIFIED" /\ posted'[p] = 0
          /\ \A q \in Payments : q # p => posted'[q] = posted[q]
    BY <1>4, OpenedPaidFacts
  <2>2. /\ payment'[p] = r
        /\ \A q \in Payments : q # p => payment'[q] = payment[q] /\ alloc'[q] = alloc[q]
    BY <2>1, MoneyFacts DEF Born
  <2> QED
    BY <2>1, <2>2 DEF LedgerBacksVerified, Verified, Born
<1>5. CASE PaidInto
  <2>1. PICK p \in Payments, r \in PaymentRows :
          /\ Becomes(p, r)
          /\ r.status = "VERIFIED"
          /\ r.credit \in Credits
          /\ ~ Verified(p)
          /\ Lands(p, r.credit, r.amount)
          /\ Route(p, r.amount)
    BY <1>5 DEF PaidInto
  <2>2. /\ payment'[p] = r
        /\ \A q \in Payments : q # p => payment'[q] = payment[q] /\ alloc'[q] = alloc[q]
    BY <2>1, MoneyFacts
  <2>3. posted[p] = 0
    BY <2>1 DEF LedgerBacksVerified
  <2>4. posted'[p] = r.amount /\ \A q \in Payments : q # p => posted'[q] = posted[q]
    BY <1>0, <2>1, <2>3, RouteFacts
  <2> QED
    BY <2>1, <2>2, <2>4 DEF LedgerBacksVerified, Verified
<1> QED
  BY <1>1, <1>2, <1>3, <1>4, <1>5 DEF Effect

\* The portfolio and the cash ledger are two views of the same money: whatever
\* receipts, cash, reconciliations and settlements run at once, a payment has a
\* ledger entry exactly when it is VERIFIED, of exactly its amount.
THEOREM LedgerBacked == ASSUME Calm PROVE Spec => []LedgerBacksVerified
<1>1. Init => LedgerBacksVerified
  BY DEF Init, LedgerBacksVerified, Verified, NoRow
<1>2. KnowledgeInv /\ LedgerBacksVerified /\ [Next]_vars => LedgerBacksVerified'
  BY StepKnown, CalmEffect DEF LedgerBacksVerified, Verified
<1> QED
  BY <1>1, <1>2, KnowledgeInvariant, PTL DEF Spec

\* A payment becomes effective once: its amount, its allocations and its ledger
\* entry are final (payment-review.ts).
THEOREM VerifiedStays == ASSUME Calm PROVE Spec => VerifiedIsFinal
<1> DEFINE Final == \A p \in Payments : Verified(p) =>
             /\ payment'[p].status = "VERIFIED"
             /\ payment'[p].amount = payment[p].amount
             /\ alloc'[p] = alloc[p]
             /\ posted'[p] = posted[p]
<1>1. KnowledgeInv /\ LedgerBacksVerified /\ [Next]_vars => [Final]_vars
  BY StepKnown, CalmEffect
<1>2. Spec => [][Final]_vars
  BY <1>1, KnowledgeInvariant, LedgerBacked, PTL DEF Spec
<1> QED
  BY <1>2 DEF VerifiedIsFinal
\* What a step does to the entries, whoever verifies.
LEMMA BackedEffect ==
  ASSUME KnowledgeInv, VerifiedIsBacked, Effect
  PROVE  \A q \in Payments : payment'[q].status = "VERIFIED" <=> posted'[q] > 0
<1>0. SafetyInv /\ posted \in [Payments -> Nat]
  BY DEF KnowledgeInv, SafetyInv, TypeOK
<1>1. CASE Quiet
  BY <1>1 DEF Quiet, ledger, VerifiedIsBacked, Verified
<1>2. CASE Noted
  <2>1. PICK p \in Payments, r \in PaymentRows :
          Becomes(p, r) /\ (r.status = "VERIFIED" <=> Verified(p))
    BY <1>2 DEF Noted
  <2>2. payment'[p] = r /\ \A q \in Payments : q # p => payment'[q] = payment[q]
    BY <1>0, <2>1, BecomesFacts
  <2>3. UNCHANGED posted
    BY <1>2 DEF Noted, ledger
  <2> QED
    BY <2>1, <2>2, <2>3 DEF VerifiedIsBacked, Verified
<1>3. CASE Opened
  <2>1. PICK p \in Payments, r \in PaymentRows : Born(p, r) /\ r.status # "VERIFIED"
    BY <1>3 DEF Opened
  <2>2. payment'[p] = r /\ \A q \in Payments : q # p => payment'[q] = payment[q]
    BY <1>0, <2>1, BecomesFacts DEF Born
  <2>3. UNCHANGED posted
    BY <1>3 DEF Opened, ledger
  <2> QED
    BY <2>1, <2>2, <2>3 DEF VerifiedIsBacked, Verified, Born
<1>4. CASE OpenedPaid
  <2>1. PICK p \in Payments, r \in PaymentRows :
          /\ Born(p, r) /\ r.credit \in Credits /\ Lands(p, r.credit, r.amount)
          /\ \/ r.status = "VERIFIED" /\ posted'[p] = r.amount
             \/ r.status # "VERIFIED" /\ posted'[p] = 0
          /\ \A q \in Payments : q # p => posted'[q] = posted[q]
    BY <1>4, OpenedPaidFacts
  <2>2. /\ r.amount > 0 /\ payment'[p] = r
        /\ \A q \in Payments : q # p => payment'[q] = payment[q]
    BY <2>1, MoneyFacts DEF Born
  <2> QED
    BY <2>1, <2>2 DEF VerifiedIsBacked, Verified
<1>5. CASE PaidInto
  <2>1. PICK p \in Payments, r \in PaymentRows :
          /\ Becomes(p, r)
          /\ r.status = "VERIFIED"
          /\ r.credit \in Credits
          /\ Lands(p, r.credit, r.amount)
          /\ Route(p, r.amount)
    BY <1>5 DEF PaidInto
  <2>2. /\ r.amount \in Nat /\ r.amount > 0 /\ payment'[p] = r
        /\ \A q \in Payments : q # p => payment'[q] = payment[q]
    BY <2>1, MoneyFacts
  <2>3. posted'[p] > 0 /\ \A q \in Payments : q # p => posted'[q] = posted[q]
    BY <1>0, <2>1, <2>2, RouteFacts
  <2> QED
    BY <2>1, <2>2, <2>3 DEF VerifiedIsBacked, Verified
<1> QED
  BY <1>1, <1>2, <1>3, <1>4, <1>5 DEF Effect

\* Whatever runs at once, two operators who verify one payment by hand included, and
\* wherever a handler is cut, a payment has an entry in the cash ledger exactly when
\* it is VERIFIED: each of the writers routes it in the transaction that verifies it
\* (payment-box-router.ts).
THEOREM EveryVerifiedIsBacked == Spec => []VerifiedIsBacked
<1>1. Init => VerifiedIsBacked
  BY DEF Init, VerifiedIsBacked, Verified, NoRow
<1>2. KnowledgeInv /\ VerifiedIsBacked /\ [Next]_vars => VerifiedIsBacked'
  BY StepKnown, BackedEffect DEF VerifiedIsBacked, Verified
<1> QED
  BY <1>1, <1>2, KnowledgeInvariant, PTL DEF Spec
-----------------------------------------------------------------------------
(* Settlement rows.                                                         *)

\* What the settlement handlers do to the rows.
TakesRow(k, p) == consumer[k] = Free /\ consumer' = [consumer EXCEPT ![k] = p]

LEMMA RowSteps ==
  ASSUME [Next]_vars
  PROVE  \/ UNCHANGED consumer
         \/ \E k \in Incoming : consumer[k] = Absent /\ consumer' = [consumer EXCEPT ![k] = Free]
         \/ \E k \in Incoming : TakesRow(k, FieldOrder)
         \/ \E w \in Workers : TakesRow(job[w].row, job[w].pay) /\ job[w].at = "confirm"
         \/ \E w \in Workers : \E m \in job[w].todo :
              TakesRow(m[2], m[1]) /\ job[w].at = "matches"
<1>1. ASSUME NEW w \in Workers, Receive(w) PROVE UNCHANGED consumer
  BY <1>1 DEF Receive, StartReceipt, SaveOrphan, SaveReceipt
<1>2. ASSUME NEW w \in Workers, RegisterCash(w) PROVE UNCHANGED consumer
  BY <1>2 DEF RegisterCash, StartCash, CommitCash
<1>3. ASSUME NEW w \in Workers, Reconcile(w) PROVE UNCHANGED consumer
  BY <1>3 DEF Reconcile, ListUnverified, KeepPending, FlagSuspectedFraud,
     LoadForVerification, ApplyVerification
<1>4. ASSUME NEW w \in Workers, RunSettlement(w)
      PROVE  \/ UNCHANGED consumer
             \/ TakesRow(job[w].row, job[w].pay) /\ job[w].at = "confirm"
             \/ \E m \in job[w].todo : TakesRow(m[2], m[1]) /\ job[w].at = "matches"
  <2>1. CASE ConfirmWithCredit(w)
    BY <2>1 DEF ConfirmWithCredit, StillOpen, TakesRow
  <2>2. CASE \E m \in job[w].todo : ReserveCreditForReview(w, m)
    BY <2>2 DEF ReserveCreditForReview, StillOpen, TakesRow
  <2>3. CASE \/ \E auto \in AutoConfirm : LoadPendingClaims(w, auto)
             \/ DropReserved(w)
             \/ MatchCredits(w)
             \/ \E m \in job[w].todo : LoadForConfirm(w, m)
    BY <2>3 DEF LoadPendingClaims, DropReserved, MatchCredits, LoadForConfirm
  <2> QED
    BY <1>4, <2>1, <2>2, <2>3 DEF RunSettlement
<1>5. ASSUME NEW w \in Workers, VerifyByHand(w) PROVE UNCHANGED consumer
  BY <1>5 DEF VerifyByHand, ReadForManual, LoadForManual, CommitManual
<1>6. ASSUME NEW w \in Workers, Abandon(w) PROVE UNCHANGED consumer
  BY <1>6 DEF Abandon
<1>7. ASSUME Source
      PROVE  \/ UNCHANGED consumer
             \/ \E k \in Incoming : consumer[k] = Absent /\ consumer' = [consumer EXCEPT ![k] = Free]
             \/ \E k \in Incoming : TakesRow(k, FieldOrder)
  BY <1>7 DEF Source, CreateCharge, Ingest, ConsumeBankCredit, TakesRow
<1>8. CASE UNCHANGED vars
  BY <1>8 DEF vars
<1> QED
  BY <1>1, <1>2, <1>3, <1>4, <1>5, <1>6, <1>7, <1>8 DEF Next

LEMMA TakenStays ==
  ASSUME TypeOK, [Next]_vars, NEW k \in Incoming, consumer[k] \notin {Absent, Free}
  PROVE  consumer'[k] = consumer[k]
<1>1. ASSUME NEW j, NEW x, consumer[j] \in {Absent, Free}, consumer' = [consumer EXCEPT ![j] = x]
      PROVE  consumer'[k] = consumer[k]
  BY <1>1 DEF TypeOK
<1> QED
  BY <1>1, RowSteps DEF TakesRow

\* A settlement row that a payment or a deposit order consumed is theirs for good,
\* whatever the reconciliations and the deposit orders do at the same time.
THEOREM RowsStayTaken == Spec => RowsNeverChangeHands
<1> DEFINE Kept == \A k \in Incoming : consumer[k] \notin {Absent, Free} =>
                     consumer'[k] = consumer[k]
<1>1. SafetyInv /\ [Next]_vars => [Kept]_vars
  BY TakenStays DEF SafetyInv
<1>2. Spec => [][Kept]_vars
  BY <1>1, PipelineSafe, PTL DEF Spec
<1> QED
  BY <1>2 DEF RowsNeverChangeHands

-----------------------------------------------------------------------------
(* The books of a credit.                                                   *)

RowsOf(pm, c) == {p \in Payments : pm[p].credit = c}

\* Credit c, of which pd is paid, is accounted for by the rows of its payments.
AddsUp(c, pd, al, pr, rows) ==
  /\ IsFiniteSet(rows)
  /\ \A i \in Plan : pd[i] = SumOver([p \in Payments |-> al[p][i]], rows)
  /\ SumOver([p \in Payments |-> Total(pr[p])], rows) =
       PrincipalRecovered(Principal[c], TotalDue(c), Total(pd))
  /\ \A i, j \in Plan : i < j /\ pd[j] > 0 => pd[i] = Due[c][i]

BooksInv == \A c \in Credits : AddsUp(c, paid[c], alloc, principal, RowsOf(payment, c))

LEMMA BooksAreConsistent == BooksInv => PortfolioConsistent
  BY DEF BooksInv, AddsUp, RowsOf, PortfolioConsistent

\* Function g is f but for y, new to S or not, which gains x.
OneGains(f, g, S, y, x) ==
  /\ IsFiniteSet(S) /\ x \in Int
  /\ \A z \in S \cup {y} : f[z] \in Int
  /\ \A z \in S \ {y} : g[z] = f[z]
  /\ y \notin S => f[y] = 0
  /\ g[y] = f[y] + x

LEMMA SumGains ==
  ASSUME NEW f, NEW g, NEW S, NEW y, NEW x, OneGains(f, g, S, y, x)
  PROVE  SumOver(g, S \cup {y}) = SumOver(f, S) + x
<1>0. /\ IsFiniteSet(S) /\ x \in Int
      /\ \A z \in S \cup {y} : f[z] \in Int
      /\ \A z \in S \ {y} : g[z] = f[z]
      /\ y \notin S => f[y] = 0
      /\ g[y] = f[y] + x
  BY DEF OneGains
<1>1. CASE y \in S
  <2>1. /\ \A z \in S : f[z] \in Int /\ g[z] \in Int
        /\ \A z \in S \ {y} : f[z] = g[z]
    BY <1>0, <1>1
  <2>2. /\ SumOver(f, S) \in Int
        /\ SumOver(g, S) = SumOver(f, S) - f[y] + g[y]
    BY <1>0, <1>1, <2>1, SumChange
  <2>3. S \cup {y} = S
    BY <1>0, <1>1
  <2>4. f[y] \in Int
    BY <1>0
  <2>5. SumOver(g, S \cup {y}) = SumOver(g, S)
    BY <2>3
  <2>6. SumOver(g, S) = SumOver(f, S) + x
    BY <1>0, <2>2, <2>4
  <2> QED
    BY <2>5, <2>6
<1>2. CASE y \notin S
  <2>1. (\A z \in S : f[z] \in Int /\ g[z] = f[z]) /\ g[y] \in Int
    BY <1>0, <1>2
  <2>2. SumOver(g, S \cup {y}) = SumOver(f, S) + g[y]
    BY <1>0, <1>2, <2>1, SumGrows
  <2>3. g[y] = x
    BY <1>0, <1>2
  <2> QED
    BY <2>2, <2>3
<1> QED
  BY <1>1, <1>2

LEMMA PlanFinite == N \in Nat /\ N > 0 /\ IsFiniteSet(Plan)
  BY TermsAssumption, FS_Interval DEF Plan

LEMMA TotalPlus ==
  ASSUME NEW f \in [Plan -> Int], NEW g \in [Plan -> Int], NEW h,
         h = [i \in Plan |-> f[i] + g[i]]
  PROVE  Total(f) \in Int /\ Total(g) \in Int /\ Total(h) = Total(f) + Total(g)
<1>1. \A i \in Plan : f[i] \in Int /\ g[i] \in Int /\ h[i] = f[i] + g[i]
  OBVIOUS
<1>2. /\ SumOver(f, Plan) \in Int /\ SumOver(g, Plan) \in Int
      /\ SumOver(h, Plan) = SumOver(f, Plan) + SumOver(g, Plan)
  BY <1>1, PlanFinite, SumPlus
<1>3. DOMAIN f = Plan /\ DOMAIN g = Plan /\ DOMAIN h = Plan
  OBVIOUS
<1> QED
  BY <1>2, <1>3 DEF Total

LEMMA TotalNothing == Total(Nothing) = 0
<1>1. \A i \in Plan : Nothing[i] = 0
  BY DEF Nothing
<1>2. SumOver(Nothing, Plan) = 0
  BY <1>1, PlanFinite, SumZero
<1> QED
  BY <1>2 DEF Total, Nothing

\* A credit gains allocation a, of capital s, by payment p.
LEMMA CreditGains ==
  ASSUME TypeOK, TypeOK', NEW c \in Credits, NEW p \in Payments,
         NEW a \in [Plan -> Nat], NEW s \in [Plan -> Int],
         AddsUp(c, paid[c], alloc, principal, RowsOf(payment, c)),
         p \notin RowsOf(payment, c) => alloc[p] = Nothing /\ principal[p] = Nothing,
         RowsOf(payment', c) = RowsOf(payment, c) \cup {p},
         paid'[c] = [i \in Plan |-> paid[c][i] + a[i]],
         alloc'[p] = [i \in Plan |-> alloc[p][i] + a[i]],
         principal'[p] = [i \in Plan |-> principal[p][i] + s[i]],
         \A q \in Payments : q # p => alloc'[q] = alloc[q] /\ principal'[q] = principal[q],
         Total(s) = PrincipalRecovered(Principal[c], TotalDue(c), Total(paid[c]) + Total(a))
                      - PrincipalRecovered(Principal[c], TotalDue(c), Total(paid[c])),
         \A i, j \in Plan : i < j /\ paid[c][j] + a[j] > 0 => paid[c][i] + a[i] = Due[c][i]
  PROVE  AddsUp(c, paid'[c], alloc', principal', RowsOf(payment', c))
<1> DEFINE rows == RowsOf(payment, c)
<1>0. /\ paid[c] \in [Plan -> Nat] /\ alloc \in [Payments -> [Plan -> Nat]]
      /\ alloc' \in [Payments -> [Plan -> Nat]]
      /\ principal \in [Payments -> [Plan -> Int]] /\ principal' \in [Payments -> [Plan -> Int]]
      /\ rows \subseteq Payments /\ IsFiniteSet(rows)
  BY DEF TypeOK, AddsUp, RowsOf
<1>1. IsFiniteSet(RowsOf(payment', c))
  BY <1>0, FS_AddElement
<1>2. ASSUME NEW i \in Plan
      PROVE  paid'[c][i] = SumOver([q \in Payments |-> alloc'[q][i]], RowsOf(payment', c))
  <2> DEFINE f == [q \in Payments |-> alloc[q][i]]
             g == [q \in Payments |-> alloc'[q][i]]
  <2>1. /\ \A z \in rows \cup {p} : f[z] \in Int
        /\ \A z \in rows \ {p} : g[z] = f[z]
        /\ p \notin rows => f[p] = 0
        /\ g[p] = f[p] + a[i]
        /\ a[i] \in Int
        /\ IsFiniteSet(rows)
    BY <1>0 DEF Nothing
  <2>2. paid[c][i] = SumOver(f, rows)
    BY DEF AddsUp
  <2>3. paid'[c][i] = paid[c][i] + a[i]
    OBVIOUS
  <2> HIDE DEF f, g, rows
  <2>4. SumOver(g, rows \cup {p}) = SumOver(f, rows) + a[i]
    <3>1. OneGains(f, g, rows, p, a[i])
      BY <2>1 DEF OneGains
    <3> QED
      BY <3>1, SumGains
  <2>5. RowsOf(payment', c) = rows \cup {p}
    BY DEF rows
  <2>6. paid'[c][i] = SumOver(g, RowsOf(payment', c))
    BY <2>2, <2>3, <2>4, <2>5
  <2> QED
    BY <2>6 DEF g
<1> DEFINE P == Principal[c]
           T == TotalDue(c)
           x == Total(paid[c])
<1>3. SumOver([q \in Payments |-> Total(principal'[q])], RowsOf(payment', c)) =
        PrincipalRecovered(P, T, Total(paid'[c]))
  <2> DEFINE f == [q \in Payments |-> Total(principal[q])]
             g == [q \in Payments |-> Total(principal'[q])]
  <2>1. Total(paid'[c]) = x + Total(a)
    <3>1. PICK now : now = paid'[c]
      OBVIOUS
    <3>2. /\ paid[c] \in [Plan -> Int] /\ a \in [Plan -> Int]
          /\ now = [i \in Plan |-> paid[c][i] + a[i]]
      BY <1>0, <3>1
    <3>3. Total(now) = Total(paid[c]) + Total(a)
      BY <3>2, TotalPlus
    <3> QED
      BY <3>1, <3>3
  <2>2. ASSUME NEW q \in Payments
        PROVE  /\ Total(principal[q]) \in Int /\ Total(s) \in Int
               /\ q = p => Total(principal'[q]) = Total(principal[q]) + Total(s)
    <3>1. PICK now : now = principal'[p]
      OBVIOUS
    <3>2. /\ principal[q] \in [Plan -> Int] /\ s \in [Plan -> Int]
          /\ principal[p] \in [Plan -> Int]
          /\ now = [i \in Plan |-> principal[p][i] + s[i]]
      BY <1>0, <3>1
    <3>3. Total(principal[q]) \in Int /\ Total(s) \in Int
      BY <3>2, TotalPlus
    <3>4. Total(now) = Total(principal[p]) + Total(s)
      BY <3>2, TotalPlus
    <3> QED
      BY <3>1, <3>3, <3>4
  <2>3. Total(s) \in Int /\ \A q \in Payments : f[q] \in Int
    BY <2>2
  <2>4. g[p] = f[p] + Total(s)
    BY <2>2
  <2>5. \A z \in rows \ {p} : g[z] = f[z]
    BY <1>0
  <2>6. p \notin rows => f[p] = 0
    BY TotalNothing
  <2>7. SumOver(f, rows) = PrincipalRecovered(P, T, x)
    BY DEF AddsUp
  <2>8. Total(s) = PrincipalRecovered(P, T, x + Total(a)) - PrincipalRecovered(P, T, x)
    OBVIOUS
  <2> HIDE DEF f, g, rows, P, T, x
  <2>9. \A z \in rows \cup {p} : f[z] \in Int
    BY <1>0, <2>3
  <2>10. SumOver(g, rows \cup {p}) = SumOver(f, rows) + Total(s)
    <3>1. OneGains(f, g, rows, p, Total(s))
      BY <1>0, <2>3, <2>4, <2>5, <2>6, <2>9 DEF OneGains
    <3> QED
      BY <3>1, SumGains
  <2>11. SumOver(f, rows) \in Int
    <3>1. \A z \in rows : f[z] \in Int
      BY <2>9
    <3> QED
      BY <1>0, <3>1, SumInt
  <2>12. PrincipalRecovered(P, T, x + Total(a)) \in Int
    <3>1. x \in Nat /\ Total(a) \in Nat
      <4>1. \A i \in Plan : paid[c][i] \in Nat /\ a[i] \in Nat
        BY <1>0
      <4>2. SumOver(paid[c], Plan) \in Nat /\ SumOver(a, Plan) \in Nat
        BY <4>1, PlanFinite, SumNat
      <4> QED
        BY <1>0, <4>2 DEF Total, x
    <3>2. x + Total(a) \in Nat
      BY <3>1
    <3> QED
      BY <3>2, RecoveredInt DEF P, T
  <2>13. SumOver(g, rows \cup {p}) = PrincipalRecovered(P, T, x + Total(a))
    BY <2>7, <2>8, <2>10, <2>11, <2>12
  <2>14. RowsOf(payment', c) = rows \cup {p}
    BY DEF rows
  <2>15. SumOver(g, RowsOf(payment', c)) = PrincipalRecovered(P, T, Total(paid'[c]))
    BY <2>1, <2>13, <2>14
  <2> QED
    BY <2>15 DEF g
<1>4. \A i, j \in Plan : i < j /\ paid'[c][j] > 0 => paid'[c][i] = Due[c][i]
  OBVIOUS
<1> HIDE DEF P, T, x, rows
<1> QED
  BY <1>1, <1>2, <1>3, <1>4 DEF AddsUp, P, T

\* A credit whose payments and instalments a step leaves alone.
LEMMA CreditSame ==
  ASSUME NEW c \in Credits, AddsUp(c, paid[c], alloc, principal, RowsOf(payment, c)),
         RowsOf(payment', c) = RowsOf(payment, c), paid'[c] = paid[c],
         \A q \in RowsOf(payment, c) : alloc'[q] = alloc[q] /\ principal'[q] = principal[q]
  PROVE  AddsUp(c, paid'[c], alloc', principal', RowsOf(payment', c))
<1> DEFINE rows == RowsOf(payment, c)
<1>1. IsFiniteSet(rows) /\ rows \subseteq Payments
  BY DEF AddsUp, RowsOf
<1>2. ASSUME NEW i \in Plan
      PROVE  paid'[c][i] = SumOver([q \in Payments |-> alloc'[q][i]], rows)
  <2> DEFINE f == [q \in Payments |-> alloc[q][i]]
             g == [q \in Payments |-> alloc'[q][i]]
  <2>1. \A q \in rows : f[q] = g[q]
    BY <1>1
  <2>2. paid[c][i] = SumOver(f, rows)
    BY DEF AddsUp
  <2> HIDE DEF f, g, rows
  <2>3. SumOver(f, rows) = SumOver(g, rows)
    BY <1>1, <2>1, SumEqual
  <2>4. paid'[c][i] = SumOver(g, rows)
    BY <2>2, <2>3
  <2> QED
    BY <2>4 DEF g
<1>3. SumOver([q \in Payments |-> Total(principal'[q])], rows) =
        SumOver([q \in Payments |-> Total(principal[q])], rows)
  <2> DEFINE f == [q \in Payments |-> Total(principal[q])]
             g == [q \in Payments |-> Total(principal'[q])]
  <2>1. \A q \in rows : f[q] = g[q]
    BY <1>1
  <2> HIDE DEF f, g, rows
  <2>2. SumOver(f, rows) = SumOver(g, rows)
    BY <1>1, <2>1, SumEqual
  <2> QED
    BY <2>2 DEF f, g
<1> QED
  BY <1>2, <1>3 DEF AddsUp

\* A landing keeps the money on the oldest instalments.
LEMMA LandingOrder ==
  ASSUME NEW due \in [Plan -> Nat], NEW pd \in [Plan -> Nat], NEW m \in Nat,
         \A i \in Plan : pd[i] <= due[i],
         NEW i \in Plan, NEW j \in Plan, i < j, pd[j] > 0 => pd[i] = due[i],
         pd[j] + Cascade(due, pd, m)[j] > 0
  PROVE  pd[i] + Cascade(due, pd, m)[i] = due[i]
<1> DEFINE a == Cascade(due, pd, m)
           left == LeftAfter(due, pd, m)
<1>1. N \in Nat /\ due \in [1..N -> Nat] /\ pd \in [1..N -> Nat] /\ i \in 1..N /\ j \in 1..N
      /\ \A k \in 1..N : pd[k] <= due[k]
  BY TermsAssumption DEF Plan
<1>2. /\ left[0] = m
      /\ \A k \in 0..N : left[k] \in Nat
      /\ a \in [1..N -> Nat]
      /\ \A k \in 1..N : /\ a[k] = Lesser(due[k] - pd[k], left[k - 1])
                         /\ left[k] = left[k - 1] - a[k]
                         /\ pd[k] + a[k] <= due[k]
  BY <1>1, LeftFacts, Zenon
<1>3. j - 1 \in 0..N /\ i \in 1..(j - 1)
  BY <1>1
<1>4. CASE left[j - 1] > 0
  <2>1. \A k \in 1..(j - 1) : pd[k] + a[k] = due[k]
    BY <1>1, <1>3, <1>4, CascadeOldestFirst
  <2> QED
    BY <1>3, <2>1
<1>5. CASE left[j - 1] = 0
  <2> HIDE DEF a, left
  <2>1. a[j] = 0
    <3>1. a[j] = Lesser(due[j] - pd[j], left[j - 1]) /\ due[j] \in Nat /\ pd[j] \in Nat
          /\ pd[j] <= due[j] /\ a[j] \in Nat
      BY <1>1, <1>2
    <3> QED
      BY <1>5, <3>1 DEF Lesser
  <2>2. pd[j] > 0
    BY <1>1, <2>1 DEF a
  <2>3. pd[i] = due[i] /\ a[i] \in Nat /\ pd[i] + a[i] <= due[i] /\ due[i] \in Nat
    BY <1>1, <1>2, <2>2
  <2> QED
    BY <2>3 DEF a
<1>6. left[j - 1] \in Nat
  BY <1>2, <1>3
<1> HIDE DEF left, a
<1> QED
  BY <1>4, <1>5, <1>6

\* The capital of a landing.
LEMMA LandingCapital ==
  ASSUME SafetyInv, NEW c \in Credits, NEW a \in [Plan -> Nat]
  PROVE  LET s == SplitPrincipal(Principal[c], TotalDue(c), Total(paid[c]), a) IN
         /\ s \in [Plan -> Int]
         /\ Total(s) = PrincipalRecovered(Principal[c], TotalDue(c), Total(paid[c]) + Total(a))
                         - PrincipalRecovered(Principal[c], TotalDue(c), Total(paid[c]))
<1> DEFINE P == Principal[c]
           T == TotalDue(c)
           x == Total(paid[c])
           s == SplitPrincipal(P, T, x, a)
<1>1. N \in Nat /\ a \in [1..N -> Nat] /\ P \in Nat /\ T \in Nat /\ T > 0 /\ P <= T
  BY TermsAssumption DEF Plan
<1>2. x \in Nat
  <2>1. DOMAIN paid[c] = Plan /\ \A i \in Plan : paid[c][i] \in Nat
    BY DEF SafetyInv, TypeOK
  <2>2. SumOver(paid[c], Plan) \in Nat
    BY <2>1, PlanFinite, SumNat
  <2> QED
    BY <2>1, <2>2 DEF Total
<1> HIDE DEF P, T, x
<1>3. s \in [1..N -> Nat]
  BY <1>1, <1>2, SplitFacts
<1>4. Total(s) = PrincipalRecovered(P, T, x + Total(a)) - PrincipalRecovered(P, T, x)
  BY <1>1, <1>2, SplitFacts
<1> HIDE DEF s
<1>5. s \in [Plan -> Int]
  BY <1>3 DEF Plan
<1> QED
  BY <1>4, <1>5 DEF s, P, T, x

LEMMA LandingAddsUp ==
  ASSUME KnowledgeInv, TypeOK', BooksInv, NEW p \in Payments, NEW r \in PaymentRows,
         r.credit \in Credits, Lands(p, r.credit, r.amount), Becomes(p, r),
         payment[p].credit \in {NoCredit, r.credit}
  PROVE  BooksInv'
<1> SUFFICES ASSUME NEW c \in Credits
             PROVE  AddsUp(c, paid'[c], alloc', principal', RowsOf(payment', c))
  BY DEF BooksInv
<1>0. /\ SafetyInv /\ RowsBound /\ TypeOK /\ r.amount \in Nat /\ NoCredit \notin Credits
      /\ AddsUp(c, paid[c], alloc, principal, RowsOf(payment, c))
      /\ payment'[p] = r
      /\ \A q \in Payments : q # p =>
           payment'[q] = payment[q] /\ alloc'[q] = alloc[q] /\ principal'[q] = principal[q]
  BY MoneyFacts, TermsAssumption DEF KnowledgeInv, SafetyInv, BooksInv
<1>1. CASE r.credit # c
  <2>1. paid'[c] = paid[c]
    BY <1>0, <1>1, LandsAlone
  <2>2. RowsOf(payment', c) = RowsOf(payment, c) /\ p \notin RowsOf(payment, c)
    BY <1>0, <1>1 DEF RowsOf
  <2>3. \A q \in RowsOf(payment, c) : alloc'[q] = alloc[q] /\ principal'[q] = principal[q]
    BY <1>0, <2>2 DEF RowsOf
  <2> QED
    BY <1>0, <2>1, <2>2, <2>3, CreditSame
<1>2. CASE r.credit = c
  <2> DEFINE a == Cascade(Due[c], paid[c], r.amount)
             s == SplitPrincipal(Principal[c], TotalDue(c), Total(paid[c]), a)
  <2>1. /\ a \in [Plan -> Nat]
        /\ \A i \in Plan : paid[c][i] + a[i] <= Due[c][i]
        /\ paid' = [paid EXCEPT ![c] = [i \in Plan |-> paid[c][i] + a[i]]]
        /\ alloc' = [alloc EXCEPT ![p] = [i \in Plan |-> alloc[p][i] + a[i]]]
        /\ principal' = [principal EXCEPT ![p] = [i \in Plan |-> principal[p][i] + s[i]]]
    BY <1>0, <1>2, LandsFacts
  <2>2. \A i, j \in Plan : i < j /\ paid[c][j] + a[j] > 0 => paid[c][i] + a[i] = Due[c][i]
    <3>1. TAKE i, j \in Plan
    <3>2. HAVE i < j /\ paid[c][j] + a[j] > 0
    <3>3. /\ Due[c] \in [Plan -> Nat] /\ paid[c] \in [Plan -> Nat]
          /\ \A k \in Plan : paid[c][k] <= Due[c][k]
          /\ paid[c][j] > 0 => paid[c][i] = Due[c][i]
      BY <1>0, <3>2, TermsAssumption DEF TypeOK, SafetyInv, PaidWithinDue, AddsUp
    <3> QED
      BY <1>0, <3>2, <3>3, LandingOrder
  <2> HIDE DEF a
  <2>3. /\ s \in [Plan -> Int]
        /\ Total(s) = PrincipalRecovered(Principal[c], TotalDue(c), Total(paid[c]) + Total(a))
                        - PrincipalRecovered(Principal[c], TotalDue(c), Total(paid[c]))
    BY <1>0, <2>1, LandingCapital
  <2> HIDE DEF s
  <2>4. /\ paid'[c] = [i \in Plan |-> paid[c][i] + a[i]]
        /\ alloc'[p] = [i \in Plan |-> alloc[p][i] + a[i]]
        /\ principal'[p] = [i \in Plan |-> principal[p][i] + s[i]]
    BY <1>0, <2>1 DEF TypeOK
  <2>5. /\ RowsOf(payment', c) = RowsOf(payment, c) \cup {p}
        /\ p \notin RowsOf(payment, c) => alloc[p] = Nothing /\ principal[p] = Nothing
    BY <1>0, <1>2 DEF RowsOf, RowsBound
  <2>6. \A q \in Payments : q # p => alloc'[q] = alloc[q] /\ principal'[q] = principal[q]
    BY <1>0
  <2> QED
    BY <1>0, <2>1, <2>2, <2>3, <2>4, <2>5, <2>6, CreditGains
<1> QED
  BY <1>1, <1>2

\* A payment that is born and moves no money.
LEMMA OpenedAddsUp ==
  ASSUME KnowledgeInv, TypeOK', BooksInv, Opened
  PROVE  BooksInv'
<1> SUFFICES ASSUME NEW c \in Credits
             PROVE  AddsUp(c, paid'[c], alloc', principal', RowsOf(payment', c))
  BY DEF BooksInv
<1>1. PICK p \in Payments, r \in PaymentRows : Born(p, r)
  BY DEF Opened
<1>2. /\ TypeOK /\ AddsUp(c, paid[c], alloc, principal, RowsOf(payment, c))
      /\ payment'[p] = r /\ \A q \in Payments : q # p => payment'[q] = payment[q]
      /\ payment[p].credit = NoCredit /\ alloc[p] = Nothing /\ principal[p] = Nothing
      /\ NoCredit \notin Credits
  BY <1>1, BecomesFacts, TermsAssumption DEF KnowledgeInv, SafetyInv, BooksInv, Born, RowsBound
<1>3. UNCHANGED <<paid, alloc, principal>>
  BY DEF Opened, ledger
<1>4. CASE r.credit # c
  <2>1. RowsOf(payment', c) = RowsOf(payment, c)
    BY <1>2, <1>4 DEF RowsOf
  <2> QED
    BY <1>2, <1>3, <2>1, CreditSame
<1>5. CASE r.credit = c
  <2>1. RowsOf(payment', c) = RowsOf(payment, c) \cup {p}
    BY <1>2, <1>5 DEF RowsOf
  <2>2. Nothing \in [Plan -> Nat] /\ Nothing \in [Plan -> Int] /\ \A i \in Plan : Nothing[i] = 0
    BY DEF Nothing
  <2>3. /\ paid[c] \in [Plan -> Nat] /\ alloc[p] \in [Plan -> Nat]
        /\ principal[p] \in [Plan -> Int]
    BY <1>2 DEF TypeOK
  <2>4. /\ paid'[c] = [i \in Plan |-> paid[c][i] + Nothing[i]]
        /\ alloc'[p] = [i \in Plan |-> alloc[p][i] + Nothing[i]]
        /\ principal'[p] = [i \in Plan |-> principal[p][i] + Nothing[i]]
    BY <1>3, <2>2, <2>3
  <2>5. Total(Nothing) = PrincipalRecovered(Principal[c], TotalDue(c), Total(paid[c]) + Total(Nothing))
                      - PrincipalRecovered(Principal[c], TotalDue(c), Total(paid[c]))
    <3>1. Total(paid[c]) \in Nat
      <4>1. \A i \in Plan : paid[c][i] \in Nat
        BY <2>3
      <4>2. SumOver(paid[c], Plan) \in Nat
        BY <4>1, PlanFinite, SumNat
      <4> QED
        BY <2>3, <4>2 DEF Total
    <3>2. Total(paid[c]) + Total(Nothing) = Total(paid[c])
      BY <3>1, TotalNothing
    <3>3. PrincipalRecovered(Principal[c], TotalDue(c), Total(paid[c])) \in Int
      BY <3>1, RecoveredInt
    <3> QED
      BY <3>2, <3>3, TotalNothing
  <2>6. \A i, j \in Plan : i < j /\ paid[c][j] + Nothing[j] > 0 => paid[c][i] + Nothing[i] = Due[c][i]
    BY <1>2, <2>2, <2>3 DEF AddsUp
  <2> QED
    BY <1>2, <1>3, <2>1, <2>2, <2>4, <2>5, <2>6, CreditGains
<1> QED
  BY <1>4, <1>5

LEMMA BooksStep ==
  ASSUME KnowledgeInv, TypeOK', BooksInv, Effect
  PROVE  BooksInv'
<1>0. SafetyInv /\ RowsBound /\ NoCredit \notin Credits
  BY TermsAssumption DEF KnowledgeInv
<1>1. CASE Quiet
  BY <1>1 DEF Quiet, ledger, BooksInv
<1>2. CASE Noted
  <2>1. PICK p \in Payments, r \in PaymentRows : Becomes(p, r) /\ r.credit = payment[p].credit
    BY <1>2 DEF Noted
  <2>2. payment'[p] = r /\ \A q \in Payments : q # p => payment'[q] = payment[q]
    BY <1>0, <2>1, BecomesFacts
  <2>3. \A c : RowsOf(payment', c) = RowsOf(payment, c)
    BY <2>1, <2>2 DEF RowsOf
  <2>4. UNCHANGED <<paid, alloc, principal>>
    BY <1>2 DEF Noted, ledger
  <2> QED
    BY <2>3, <2>4 DEF BooksInv
<1>3. CASE Opened
  BY <1>3, OpenedAddsUp
<1>4. CASE OpenedPaid
  <2>1. PICK p \in Payments, r \in PaymentRows :
          Born(p, r) /\ r.credit \in Credits /\ Lands(p, r.credit, r.amount)
    BY <1>4 DEF OpenedPaid
  <2>2. Becomes(p, r) /\ payment[p].credit = NoCredit
    BY <1>0, <2>1 DEF Born, RowsBound
  <2> QED
    BY <2>1, <2>2, LandingAddsUp
<1>5. CASE PaidInto
  <2>1. PICK p \in Payments, r \in PaymentRows :
          /\ Becomes(p, r) /\ r.credit = payment[p].credit /\ r.credit \in Credits
          /\ Lands(p, r.credit, r.amount)
    BY <1>5 DEF PaidInto
  <2> QED
    BY <2>1, LandingAddsUp
<1> QED
  BY <1>1, <1>2, <1>3, <1>4, <1>5 DEF Effect

LEMMA InitBooks == Init => BooksInv
<1> SUFFICES ASSUME Init, NEW c \in Credits
             PROVE  AddsUp(c, paid[c], alloc, principal, RowsOf(payment, c))
  BY DEF BooksInv
<1>1. RowsOf(payment, c) = {}
  BY TermsAssumption DEF Init, NoRow, RowsOf
<1>2. paid[c] = Nothing /\ \A i \in Plan : Nothing[i] = 0
  BY DEF Init, Nothing
<1>3. \A f : SumOver(f, {}) = 0
  BY SumEmpty
<1>4. PrincipalRecovered(Principal[c], TotalDue(c), 0) = 0
  <2>1. Principal[c] \in Nat /\ TotalDue(c) \in Nat /\ TotalDue(c) > 0
    BY TermsAssumption
  <2> QED
    BY <2>1, RecoveredWhole
<1>5. IsFiniteSet(RowsOf(payment, c))
  BY <1>1, FS_EmptySet
<1> QED
  BY <1>1, <1>2, <1>3, <1>4, <1>5, TotalNothing DEF AddsUp

\* To the centavo: the allocation rows of a credit account for its instalments and
\* their capital parts for the capital recovered, and the money sits on the oldest
\* instalments, although every cascade was computed on an older snapshot.
THEOREM BooksBalance == Spec => []PortfolioConsistent
<1>1. KnowledgeInv /\ KnowledgeInv' /\ BooksInv /\ [Next]_vars => BooksInv'
  BY StepKnown, BooksStep DEF KnowledgeInv, SafetyInv
<1> QED
  BY <1>1, InitBooks, BooksAreConsistent, KnowledgeInvariant, PTL DEF Spec

-----------------------------------------------------------------------------
(* The pipeline implements module CreditAccount: where nothing is credited  *)
(* before it is verified, and no two handlers verify by hand.               *)

\* The operators of module Portfolio, seen from the account.
LEMMA SameSums == \A f, S : Account!SumOver(f, S) = SumOver(f, S)
  BY Zenon DEF Account!SumOver, SumOver, Account!MapThenSumSet, MapThenSumSet,
     Account!MapThenFoldSet, MapThenFoldSet

LEMMA SameRules ==
  /\ \A f : Account!Total(f) = Total(f)
  /\ \A due, pd, m : Account!Cascade(due, pd, m) = Cascade(due, pd, m)
  /\ \A P, T, x, a : Account!SplitPrincipal(P, T, x, a) = SplitPrincipal(P, T, x, a)
<1>1. \A f : Account!Total(f) = Total(f)
  BY SameSums, Zenon DEF Account!Total, Total
<1>2. \A due, pd, m : Account!Cascade(due, pd, m) = Cascade(due, pd, m)
  BY Zenon DEF Account!Cascade, Cascade, Account!LeftAfter, LeftAfter,
     Account!Remaining, Remaining, Account!Lesser, Lesser
<1>3. \A P, T, x, a : Account!SplitPrincipal(P, T, x, a) = SplitPrincipal(P, T, x, a)
  BY SameSums, Zenon DEF Account!SplitPrincipal, SplitPrincipal,
     Account!PrincipalRecovered, PrincipalRecovered, Account!PaidUpTo, PaidUpTo
<1> QED
  BY <1>1, <1>2, <1>3

\* What an account sees of payments pm.
Credited(pm) == [p \in Payments |-> IF pm[p].status = "VERIFIED" THEN pm[p].amount ELSE 0]
CreditOf(pm) == [p \in Payments |-> IF pm[p].status = "VERIFIED" THEN pm[p].credit ELSE "none"]

\* A payment moves no money before it is verified.
NothingHeld ==
  \A p \in Payments : ~ Verified(p) => alloc[p] = Nothing /\ principal[p] = Nothing

LEMMA SameView ==
  ASSUME NEW q \in Payments, NEW pm, NEW pn, pn[q] = pm[q]
  PROVE  Credited(pn)[q] = Credited(pm)[q] /\ CreditOf(pn)[q] = CreditOf(pm)[q]
  BY DEF Credited, CreditOf

\* A step that verifies payment p is one step of the account.
LEMMA VerifyingStep ==
  ASSUME KnowledgeInv, NothingHeld, NEW p \in Payments, NEW r \in PaymentRows,
         ~ Verified(p), r.status = "VERIFIED", r.amount \in AllAmounts,
         r.credit \in Credits, Lands(p, r.credit, r.amount), Becomes(p, r)
  PROVE  NothingHeld' /\ Account!Credit(p, r.credit, r.amount)
<1> DEFINE c == r.credit
           m == r.amount
           a == Cascade(Due[c], paid[c], m)
           s == SplitPrincipal(Principal[c], TotalDue(c), Total(paid[c]), a)
<1>0. /\ SafetyInv /\ m \in Nat
      /\ payment'[p] = r /\ \A q \in Payments : q # p => payment'[q] = payment[q]
      /\ \A q \in Payments : q # p => alloc'[q] = alloc[q] /\ principal'[q] = principal[q]
      /\ alloc[p] = Nothing /\ principal[p] = Nothing
      /\ payment \in [Payments -> PaymentRows]
  BY MoneyFacts DEF NothingHeld, SafetyInv, TypeOK
<1>1. /\ m > 0
      /\ a \in [Plan -> Nat]
      /\ paid' = [paid EXCEPT ![c] = [i \in Plan |-> paid[c][i] + a[i]]]
      /\ alloc' = [alloc EXCEPT ![p] = [i \in Plan |-> alloc[p][i] + a[i]]]
      /\ principal' = [principal EXCEPT ![p] = [i \in Plan |-> principal[p][i] + s[i]]]
  BY <1>0, LandsFacts
<1> HIDE DEF a
<1>2. s \in [Plan -> Int]
  BY <1>0, <1>1, LandingCapital
<1> HIDE DEF s, m, c
<1>3. alloc' = [alloc EXCEPT ![p] = a] /\ principal' = [principal EXCEPT ![p] = s]
  <2>1. [i \in Plan |-> alloc[p][i] + a[i]] = a
    BY <1>0, <1>1 DEF Nothing
  <2>2. [i \in Plan |-> principal[p][i] + s[i]] = s
    BY <1>0, <1>2 DEF Nothing
  <2> QED
    BY <1>1, <2>1, <2>2
<1>4. NothingHeld'
  BY <1>0 DEF NothingHeld, Verified
<1>5. Credited(payment)[p] = 0
  BY DEF Credited, Verified
<1>6. Credited(payment') = [Credited(payment) EXCEPT ![p] = m]
  BY <1>0 DEF Credited, m
<1>7. CreditOf(payment') = [CreditOf(payment) EXCEPT ![p] = c]
  BY <1>0 DEF CreditOf, c
<1>8. /\ a = Account!Cascade(Due[c], paid[c], m)
      /\ s = Account!SplitPrincipal(Principal[c], Account!TotalDue(c), Account!Total(paid[c]), a)
      /\ Account!Plan = Plan
  BY SameRules DEF a, s, Account!TotalDue, TotalDue, Account!Plan, Plan
<1>9. Account!Credit(p, c, m)
  BY <1>1, <1>3, <1>5, <1>6, <1>7, <1>8 DEF Account!Credit, Credited, CreditOf, Verified
<1> QED
  BY <1>4, <1>9 DEF c, m

\* A step that leaves the ledger alone and verifies nothing changes no account.
LEMMA UnseenStep ==
  ASSUME NothingHeld, UNCHANGED ledger,
         \A q \in Payments :
           /\ payment'[q].status = "VERIFIED" <=> payment[q].status = "VERIFIED"
           /\ Verified(q) => payment'[q].amount = payment[q].amount
                             /\ payment'[q].credit = payment[q].credit
  PROVE  NothingHeld' /\ UNCHANGED Account!accountVars
<1>1. NothingHeld'
  BY DEF NothingHeld, Verified, ledger
<1>2. Credited(payment') = Credited(payment) /\ CreditOf(payment') = CreditOf(payment)
  BY DEF Credited, CreditOf, Verified
<1> QED
  BY <1>1, <1>2 DEF Account!accountVars, Credited, CreditOf, Verified, ledger

LEMMA AccountStep ==
  ASSUME Calm, Policies \subseteq {"HOLD"}, KnowledgeInv, NothingHeld, Effect
  PROVE  NothingHeld' /\ [Account!AccountNext]_(Account!accountVars)
<1>0. SafetyInv /\ RowsBound
  BY DEF KnowledgeInv
<1>1. CASE Quiet
  BY <1>1, UnseenStep DEF Quiet
<1>2. CASE Noted
  <2>1. PICK p \in Payments, r \in PaymentRows :
          /\ Becomes(p, r)
          /\ r.credit = payment[p].credit /\ r.amount = payment[p].amount
          /\ r.status = "VERIFIED" <=> Verified(p)
    BY <1>2 DEF Noted
  <2>2. payment'[p] = r /\ \A q \in Payments : q # p => payment'[q] = payment[q]
    BY <1>0, <2>1, BecomesFacts
  <2>3. UNCHANGED ledger
    BY <1>2 DEF Noted
  <2> QED
    BY <2>1, <2>2, <2>3, UnseenStep DEF Verified
<1>3. CASE Opened
  <2>1. PICK p \in Payments, r \in PaymentRows : Born(p, r) /\ r.status # "VERIFIED"
    BY <1>3 DEF Opened
  <2>2. payment'[p] = r /\ \A q \in Payments : q # p => payment'[q] = payment[q]
    BY <1>0, <2>1, BecomesFacts DEF Born
  <2>3. UNCHANGED ledger
    BY <1>3 DEF Opened
  <2> QED
    BY <2>1, <2>2, <2>3, UnseenStep DEF Verified, Born
<1>4. CASE OpenedPaid
  <2>1. PICK p \in Payments, r \in PaymentRows :
          /\ Born(p, r) /\ r.credit \in Credits /\ Lands(p, r.credit, r.amount)
          /\ r.status = "VERIFIED"
    BY <1>4 DEF OpenedPaid
  <2>2. ~ Verified(p) /\ r.amount \in AllAmounts /\ Becomes(p, r)
    BY <2>1 DEF Born, Verified
  <2>3. NothingHeld' /\ Account!Credit(p, r.credit, r.amount)
    BY <2>1, <2>2, VerifyingStep
  <2> QED
    BY <2>1, <2>2, <2>3 DEF Account!AccountNext
<1>5. CASE PaidInto
  <2>1. PICK p \in Payments, r \in PaymentRows :
          /\ Becomes(p, r)
          /\ r.status = "VERIFIED" /\ r.amount \in AllAmounts
          /\ r.credit \in Credits
          /\ ~ Verified(p)
          /\ Lands(p, r.credit, r.amount)
    BY <1>5 DEF PaidInto
  <2>2. NothingHeld' /\ Account!Credit(p, r.credit, r.amount)
    BY <2>1, VerifyingStep
  <2> QED
    BY <2>1, <2>2 DEF Account!AccountNext
<1> QED
  BY <1>1, <1>2, <1>3, <1>4, <1>5 DEF Effect

\* Where the unverified policy is HOLD, every cascade computed on a stale snapshot
\* has, when it commits, the effect of one indivisible cascade on the current
\* instalments, once per payment.
THEOREM PipelineImplementsAccount ==
  ASSUME Calm, Policies \subseteq {"HOLD"} PROVE Spec => ImplementsCreditAccount
<1>1. Init => NothingHeld /\ Account!AccountInit
  <2> SUFFICES ASSUME Init PROVE NothingHeld /\ Account!AccountInit
    OBVIOUS
  <2>1. NothingHeld
    BY DEF Init, NothingHeld
  <2>2. Credited(payment) = [p \in Payments |-> 0] /\ CreditOf(payment) = [p \in Payments |-> "none"]
    BY DEF Init, NoRow, Credited, CreditOf
  <2>3. Account!Unpaid = Nothing
    BY DEF Account!Unpaid, Nothing, Account!Plan, Plan
  <2> QED
    BY <2>1, <2>2, <2>3
       DEF Init, Account!AccountInit, Account!Uncredited, Credited, CreditOf, Verified
<1>2. KnowledgeInv /\ NothingHeld /\ [Next]_vars => NothingHeld' /\ [Account!AccountNext]_(Account!accountVars)
  BY StepKnown, AccountStep
<1>3. Spec => Account!AccountInit /\ [][Account!AccountNext]_(Account!accountVars)
  BY <1>1, <1>2, KnowledgeInvariant, PTL DEF Spec
<1> QED
  BY <1>3 DEF ImplementsCreditAccount, Account!AccountSpec
=============================================================================
