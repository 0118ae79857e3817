--------------------------- MODULE CreditAccount ---------------------------
(***************************************************************************)
(* What a credit promises to the payments that reach it, with no processes *)
(* and no half-done work: each payment is credited at most once, in one    *)
(* indivisible step that applies the cascade to the instalments as they    *)
(* are at that moment.  The pipeline of module Payments, whose handlers    *)
(* compute the cascade on an earlier snapshot, is checked to implement it. *)
(***************************************************************************)
EXTENDS Portfolio

CONSTANTS
  Credits,     \* granted credits
  Payments,    \* payments that may arrive
  N,           \* instalments of each credit
  Due,         \* Due[c][i]: what instalment i of credit c owes (amount_due_minor)
  Principal,   \* Principal[c]: capital lent (principal_minor)
  Amounts      \* amounts a payment may have

VARIABLES
  paid,        \* paid[c][i]: paid_minor of the instalment
  credited,    \* credited[p]: the amount payment p was credited with, 0 if not yet
  creditOf,    \* creditOf[p]: the credit it was credited to
  alloc,       \* alloc[p][i]: amount of its payment_allocation row, 0 if none
  principal    \* principal[p][i]: capital part of that row

accountVars == <<paid, credited, creditOf, alloc, principal>>

Uncredited == "none"
Plan == 1..N
Unpaid == [i \in Plan |-> 0]
TotalDue(c) == Total(Due[c])

AccountInit ==
  /\ paid = [c \in Credits |-> Unpaid]
  /\ credited = [p \in Payments |-> 0]
  /\ creditOf = [p \in Payments |-> Uncredited]
  /\ alloc = [p \in Payments |-> Unpaid]
  /\ principal = [p \in Payments |-> Unpaid]

\* The allocation rows are lost, only the instalments and the split remain.
CreditWithoutRows(p, c, m) ==
  LET a == Cascade(Due[c], paid[c], m) IN
  /\ credited[p] = 0
  /\ m > 0
  /\ credited' = [credited EXCEPT ![p] = m]
  /\ creditOf' = [creditOf EXCEPT ![p] = c]
  /\ paid' = [paid EXCEPT ![c] = [i \in Plan |-> @[i] + a[i]]]
  /\ principal' = [principal EXCEPT ![p] =
       SplitPrincipal(Principal[c], TotalDue(c), Total(paid[c]), a)]
  /\ UNCHANGED alloc

\* One payment lands on one credit, whole and at once.
Credit(p, c, m) ==
  LET a == Cascade(Due[c], paid[c], m) IN
  /\ credited[p] = 0
  /\ m > 0
  /\ credited' = [credited EXCEPT ![p] = m]
  /\ creditOf' = [creditOf EXCEPT ![p] = c]
  /\ paid' = [paid EXCEPT ![c] = [i \in Plan |-> @[i] + a[i]]]
  /\ alloc' = [alloc EXCEPT ![p] = a]
  /\ principal' = [principal EXCEPT ![p] =
       SplitPrincipal(Principal[c], TotalDue(c), Total(paid[c]), a)]

AccountNext == \E p \in Payments, c \in Credits, m \in Amounts : Credit(p, c, m)

AccountSpec == AccountInit /\ [][AccountNext]_accountVars
-----------------------------------------------------------------------------
PaymentsOf(c) == {p \in Payments : creditOf[p] = c}

\* Not a centavo is lost or invented: what the allocation rows of a payment do
\* not take is an overpayment, and there is an overpayment only once nothing
\* is owed any more (allocatePayment's central invariant, line 6).
NoMoneyLost ==
  \A p \in Payments : credited[p] > 0 =>
    /\ Total(alloc[p]) <= credited[p]
    /\ Total(alloc[p]) < credited[p] =>
         PortfolioBalance(Due[creditOf[p]], paid[creditOf[p]]) = 0

\* The instalments and the append-only allocation rows tell the same story.
AllocationsAccountForPaid ==
  \A c \in Credits, i \in Plan :
    paid[c][i] = SumOver([p \in Payments |-> alloc[p][i]], PaymentsOf(c))

\* An instalment has received money only if every older one is fully paid.
OldestFirst ==
  \A c \in Credits, i, j \in Plan :
    i < j /\ paid[c][j] > 0 => paid[c][i] = Due[c][i]

\* The instalments depend on how much has been paid, never on how it was cut
\* into payments nor on the order they came in.
OrderIndependent ==
  \A c \in Credits :
    paid[c] = Cascade(Due[c], Unpaid, SumOver(credited, PaymentsOf(c)))

\* Rounding never accumulates: however a credit was paid, its allocation rows
\* hold non-negative parts that add up to the proportional capital, so a paid
\* credit has recovered its principal exactly
\* (principal-interest-split.ts lines 8-10 and payment_allocation_split_chk).
SplitExact ==
  /\ \A p \in Payments, i \in Plan :
       principal[p][i] >= 0 /\ principal[p][i] <= alloc[p][i]
  /\ \A c \in Credits :
       LET recovered == SumOver([p \in Payments |-> Total(principal[p])], PaymentsOf(c))
       IN  /\ recovered = PrincipalRecovered(Principal[c], TotalDue(c), Total(paid[c]))
           /\ PortfolioBalance(Due[c], paid[c]) = 0 => recovered = Principal[c]

\* The cascade and the split of allocatePayment and splitAllocations are exact.
CascadeExact ==
  /\ NoMoneyLost
  /\ AllocationsAccountForPaid
  /\ OldestFirst
  /\ OrderIndependent
  /\ SplitExact
-----------------------------------------------------------------------------
(* The terms and the inductive invariant of LendingProofs.                 *)

\* The terms assertTerms leaves behind: at least one instalment, instalments of
\* natural amounts that add up to no less than a natural principal and to more
\* than nothing.
TermsOK ==
  /\ N \in Nat \ {0}
  /\ Due \in [Credits -> [Plan -> Nat]]
  /\ Principal \in [Credits -> Nat]
  /\ \A c \in Credits : TotalDue(c) > 0 /\ Principal[c] <= TotalDue(c)
  /\ Amounts \subseteq Int
  /\ Uncredited \notin Credits

AccountTypeOK ==
  /\ paid \in [Credits -> [Plan -> Nat]]
  /\ credited \in [Payments -> Nat]
  /\ creditOf \in [Payments -> Credits \cup {Uncredited}]
  /\ alloc \in [Payments -> [Plan -> Nat]]
  /\ principal \in [Payments -> [Plan -> Nat]]

\* No instalment holds more than it owes (installment_paid_chk).
WithinTerms ==
  \A c \in Credits, i \in Plan : paid[c][i] <= Due[c][i]

\* A payment belongs to a credit once it was credited.
CreditedHasCredit ==
  \A p \in Payments : credited[p] = 0 => creditOf[p] = Uncredited

\* There may be payments without end, but each credit has got finitely many.
FinitelyMany ==
  \A c \in Credits : IsFiniteSet(PaymentsOf(c))

\* The capital recovered by the rows of a credit, without the claim about paid
\* credits, which follows.
Recovered(c) == SumOver([p \in Payments |-> Total(principal[p])], PaymentsOf(c))

SplitFits ==
  /\ \A p \in Payments, i \in Plan : principal[p][i] <= alloc[p][i]
  /\ \A c \in Credits :
       Recovered(c) = PrincipalRecovered(Principal[c], TotalDue(c), Total(paid[c]))

\* CascadeExact with the types, the terms and what its parts rest on.
AccountInv ==
  /\ AccountTypeOK
  /\ WithinTerms
  /\ CreditedHasCredit
  /\ FinitelyMany
  /\ NoMoneyLost
  /\ AllocationsAccountForPaid
  /\ OldestFirst
  /\ OrderIndependent
  /\ SplitFits

\* What AccountInv adds to CascadeExact.
TypesAndTerms == TermsOK /\ AccountTypeOK /\ WithinTerms /\ CreditedHasCredit
=============================================================================
