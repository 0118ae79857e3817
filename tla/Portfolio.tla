----------------------------- MODULE Portfolio -----------------------------
(***************************************************************************)
(* The pure rules by which a payment lands on the instalments of a credit  *)
(* (packages/domain/src/credit/portfolio).  A plan is a function from      *)
(* 1..n, in seq order, to what each instalment owes; `paid' is a function  *)
(* of the same domain.  Amounts are minor units.  An allocation is such a  *)
(* function too, where 0 stands for "no allocation row".                   *)
(***************************************************************************)
EXTENDS Sums

Lesser(a, b) == IF a < b THEN a ELSE b

\* What is still owed by each instalment (remainingMinor).
Remaining(due, paid) == [i \in DOMAIN due |-> due[i] - paid[i]]

PortfolioBalance(due, paid) == Total(Remaining(due, paid))

\* The money left after the first i instalments of the cascade took theirs.
LeftAfter(due, paid, amount) ==
  LET left[i \in {0} \cup DOMAIN due] ==
        IF i = 0 THEN amount
        ELSE left[i - 1] - Lesser(Remaining(due, paid)[i], left[i - 1])
  IN  left

\* Plausible slips in the cascade, used only to validate the properties: the
\* money enters by the newest instalment; every instalment sees the whole
\* payment; an instalment takes more than it owes.
CascadeNewestFirst(due, paid, amount) ==
  LET n == Cardinality(DOMAIN due)
      flipped(f) == [i \in DOMAIN due |-> f[n + 1 - i]]
      left == LeftAfter(flipped(due), flipped(paid), amount)
  IN  flipped([i \in DOMAIN due |-> left[i - 1] - left[i]])
CascadeForgetsApplied(due, paid, amount) ==
  [i \in DOMAIN due |-> Lesser(Remaining(due, paid)[i], amount)]
CascadeIgnoresPaid(due, paid, amount) ==
  LET left == LeftAfter(due, [i \in DOMAIN due |-> 0], amount)
  IN  [i \in DOMAIN due |-> left[i - 1] - left[i]]

\* The loop of allocatePayment: oldest instalment first, each takes what it
\* owes or what is left of the payment.
Cascade(due, paid, amount) ==
  LET left == LeftAfter(due, paid, amount)
  IN  [i \in DOMAIN due |-> Lesser(Remaining(due, paid)[i], left[i - 1])]

\* One instalment that is fully paid closes the whole credit.
SettlesOnAny(due, paid, allocation) ==
  \E i \in DOMAIN due : paid[i] + allocation[i] = due[i]

\* creditSettled of allocatePayment, judged on the instalments it was given.
Settles(due, paid, allocation) ==
  \A i \in DOMAIN due : paid[i] + allocation[i] = due[i]

\* principalRecoveredMinor: the floor of the proportional capital.
PrincipalRecovered(principal, totalDue, paidMinor) ==
  (paidMinor * principal) \div totalDue

\* paid before the instalment plus the allocations up to and including i:
\* the running `paid' of splitAllocations.
PaidUpTo(paidBefore, allocation, i) ==
  paidBefore + SumOver(allocation, {j \in DOMAIN allocation : j <= i})

\* The rounding a per-payment computation would do, and rounding up.
SplitEachAlone(principal, totalDue, paidBefore, allocation) ==
  [i \in DOMAIN allocation |->
     PrincipalRecovered(principal, totalDue, allocation[i])]
SplitFromZero(principal, totalDue, paidBefore, allocation) ==
  [i \in DOMAIN allocation |->
     PrincipalRecovered(principal, totalDue, PaidUpTo(0, allocation, i))
       - PrincipalRecovered(principal, totalDue, PaidUpTo(0, allocation, i - 1))]

\* splitAllocations: the capital part of each allocation is the difference of
\* the accumulated capital after and before it.
SplitPrincipal(principal, totalDue, paidBefore, allocation) ==
  [i \in DOMAIN allocation |->
     PrincipalRecovered(principal, totalDue, PaidUpTo(paidBefore, allocation, i))
       - PrincipalRecovered(principal, totalDue,
                            PaidUpTo(paidBefore, allocation, i - 1))]
=============================================================================
