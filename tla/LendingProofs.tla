--------------------------- MODULE LendingProofs ---------------------------
(***************************************************************************)
(* What surrounds the granting of a credit, for any constants: the account *)
(* of a credit, whose cascade and split of capital are exact after every   *)
(* sequence of payments; the matching of receipts to the rows of the bank, *)
(* over any number of runs; the records of the borrowers, with proposals   *)
(* reviewed by several managers at once; the validation of the documents   *)
(* of an application, whatever sources are down; the credits that began    *)
(* in another system, with their schedule and their past.                  *)
(***************************************************************************)
EXTENDS CreditAccount, SettlementPool, Borrowers, DocumentValidation, MigratedCredit,
        ArithmeticProofs, SequenceTheorems

-----------------------------------------------------------------------------
(* The account of a credit.                                                *)


-----------------------------------------------------------------------------
\* Functions are equal when their values are.
LEMMA SameFunction ==
  ASSUME NEW S, NEW T, NEW f \in [S -> T], NEW g \in [S -> T],
         \A x \in S : f[x] = g[x]
  PROVE  g = f
OBVIOUS

\* The facts about a plan that every step uses.
LEMMA PlanFacts ==
  ASSUME TermsOK
  PROVE  /\ N \in Nat /\ Plan = 1..N /\ IsFiniteSet(Plan)
         /\ Unpaid \in [Plan -> Nat] /\ \A i \in Plan : Unpaid[i] = 0
         /\ \A c \in Credits : Due[c] \in [Plan -> Nat]
<1>1. N \in Nat
  BY DEF TermsOK
<1>2. IsFiniteSet(1..N)
  BY <1>1, FS_Interval
<1> QED
  BY <1>1, <1>2 DEF TermsOK, Plan, Unpaid

LEMMA TotalNat ==
  ASSUME TermsOK, NEW f \in [Plan -> Nat]
  PROVE  Total(f) \in Nat /\ Total(f) = SumOver(f, Plan)
<1>1. IsFiniteSet(Plan) /\ DOMAIN f = Plan /\ \A i \in Plan : f[i] \in Nat
  BY PlanFacts
<1> QED
  BY <1>1, SumNat DEF Total

LEMMA TermsFacts ==
  ASSUME TermsOK, NEW c \in Credits
  PROVE  /\ TotalDue(c) \in Nat /\ TotalDue(c) > 0
         /\ Principal[c] \in Nat /\ Principal[c] <= TotalDue(c)
<1>1. TotalDue(c) \in Nat
  BY PlanFacts, TotalNat DEF TotalDue
<1> QED
  BY <1>1 DEF TermsOK

\* A credit that owes nothing has recovered its principal, so the invariant
\* gives the whole of SplitExact.
LEMMA PaidCreditRecovers ==
  ASSUME TermsOK, AccountInv
  PROVE  SplitExact
<1>1. \A p \in Payments, i \in Plan :
        principal[p][i] >= 0 /\ principal[p][i] <= alloc[p][i]
  BY DEF AccountInv, AccountTypeOK, SplitFits
<1>2. ASSUME NEW c \in Credits, PortfolioBalance(Due[c], paid[c]) = 0
      PROVE  Recovered(c) = Principal[c]
  <2>1. /\ N \in Nat /\ Plan = 1..N
        /\ Due[c] \in [1..N -> Nat] /\ paid[c] \in [1..N -> Nat]
        /\ \A i \in 1..N : paid[c][i] <= Due[c][i]
    BY PlanFacts DEF AccountInv, AccountTypeOK, WithinTerms
  <2>2. \A i \in 1..N : paid[c][i] = Due[c][i]
    BY <1>2, <2>1, BalanceZero
  <2>3. paid[c] = Due[c]
    BY <2>1, <2>2
  <2>4. Recovered(c) = PrincipalRecovered(Principal[c], TotalDue(c), TotalDue(c))
    BY <2>3 DEF AccountInv, SplitFits, TotalDue
  <2> QED
    BY <2>4, TermsFacts, RecoveredWhole
<1> QED
  BY <1>1, <1>2 DEF SplitExact, AccountInv, SplitFits, Recovered

-----------------------------------------------------------------------------
LEMMA AccountBegins ==
  ASSUME TermsOK, AccountInit
  PROVE  AccountInv
<1> USE DEF AccountInit
<1>1. AccountTypeOK
  BY PlanFacts DEF AccountTypeOK
<1>2. WithinTerms
  BY PlanFacts DEF WithinTerms
<1>3. CreditedHasCredit
  BY DEF CreditedHasCredit
<1>4. \A c \in Credits : PaymentsOf(c) = {}
  BY DEF PaymentsOf, TermsOK
<1>5. FinitelyMany
  BY <1>4, FS_EmptySet DEF FinitelyMany
<1>6. NoMoneyLost
  BY DEF NoMoneyLost
<1>7. AllocationsAccountForPaid
  <2> SUFFICES ASSUME NEW c \in Credits, NEW i \in Plan
               PROVE  paid[c][i] = SumOver([p \in Payments |-> alloc[p][i]], {})
    BY <1>4 DEF AllocationsAccountForPaid
  <2> QED
    BY PlanFacts, SumEmpty
<1>8. OldestFirst
  BY PlanFacts DEF OldestFirst
<1>9. OrderIndependent
  <2> SUFFICES ASSUME NEW c \in Credits
               PROVE  Unpaid = Cascade(Due[c], Unpaid, SumOver(credited, {}))
    BY <1>4 DEF OrderIndependent
  <2>1. SumOver(credited, {}) = 0
    BY SumEmpty
  <2>2. /\ N \in Nat /\ Plan = 1..N
        /\ Due[c] \in [1..N -> Nat] /\ Unpaid \in [1..N -> Nat]
        /\ \A i \in 1..N : Unpaid[i] <= Due[c][i]
    BY PlanFacts
  <2>3. Cascade(Due[c], Unpaid, 0) = [i \in 1..N |-> 0]
    BY <2>2, CascadeOfNothing
  <2> QED
    BY <2>1, <2>2, <2>3 DEF Unpaid
<1>10. SplitFits
  <2>1. \A p \in Payments, i \in Plan : principal[p][i] <= alloc[p][i]
    BY PlanFacts
  <2>2. ASSUME NEW c \in Credits
        PROVE  Recovered(c) = PrincipalRecovered(Principal[c], TotalDue(c), Total(paid[c]))
    <3>1. Recovered(c) = 0
      BY <1>4, SumEmpty DEF Recovered
    <3>2. Total(paid[c]) = 0
      <4>1. Total(Unpaid) = SumOver(Unpaid, Plan)
        BY PlanFacts, TotalNat
      <4> QED
        BY <4>1, PlanFacts, SumZero
    <3> QED
      BY <3>1, <3>2, TermsFacts, RecoveredWhole
  <2> QED
    BY <2>1, <2>2 DEF SplitFits
<1> QED
  BY <1>1, <1>2, <1>3, <1>5, <1>6, <1>7, <1>8, <1>9, <1>10 DEF AccountInv
-----------------------------------------------------------------------------
\* The one step of the specification, part by part: payment p lands on credit
\* c, and a is what the cascade gives each instalment.
LEMMA CreditStep ==
  ASSUME TermsOK, AccountInv,
         NEW p \in Payments, NEW c \in Credits, NEW m \in Amounts, Credit(p, c, m)
  PROVE  AccountInv'
<1> DEFINE a == Cascade(Due[c], paid[c], m)
           left == LeftAfter(Due[c], paid[c], m)
           split == SplitPrincipal(Principal[c], TotalDue(c), Total(paid[c]), a)
<1>1. m \in Nat /\ m > 0
  BY DEF Credit, TermsOK
<1>2. /\ N \in Nat /\ Plan = 1..N /\ IsFiniteSet(1..N)
      /\ Due[c] \in [1..N -> Nat] /\ paid[c] \in [1..N -> Nat]
      /\ \A i \in 1..N : paid[c][i] <= Due[c][i]
  BY PlanFacts DEF AccountInv, AccountTypeOK, WithinTerms
<1>3. /\ left[0] = m
      /\ \A i \in 0..N : left[i] \in Nat
      /\ a \in [1..N -> Nat]
      /\ \A i \in 1..N : /\ a[i] = Lesser(Due[c][i] - paid[c][i], left[i - 1])
                         /\ left[i] = left[i - 1] - a[i]
                         /\ paid[c][i] + a[i] <= Due[c][i]
  BY <1>1, <1>2, LeftFacts, Zenon
<1>4. \A j \in 0..N : left[j] > 0 => \A i \in 1..j : paid[c][i] + a[i] = Due[c][i]
  BY <1>1, <1>2, CascadeOldestFirst, Zenon
<1>5. Total(a) = m - left[N]
  BY <1>1, <1>2, CascadeSum, Zenon
<1>6. /\ split \in [1..N -> Nat]
      /\ \A i \in 1..N : split[i] <= a[i]
      /\ Total(split) = PrincipalRecovered(Principal[c], TotalDue(c), Total(paid[c]) + Total(a))
                          - PrincipalRecovered(Principal[c], TotalDue(c), Total(paid[c]))
  <2>1. Total(paid[c]) \in Nat
    BY <1>2, TotalNat
  <2>2. /\ TotalDue(c) \in Nat /\ TotalDue(c) > 0
        /\ Principal[c] \in Nat /\ Principal[c] <= TotalDue(c)
    BY TermsFacts
  <2> DEFINE P == Principal[c]
             T == TotalDue(c)
             x == Total(paid[c])
  <2>3. N \in Nat /\ a \in [1..N -> Nat] /\ x \in Nat /\ P \in Nat /\ T \in Nat /\ T > 0 /\ P <= T
    BY <1>2, <1>3, <2>1, <2>2
  <2> HIDE DEF a, P, T, x
  <2>4. SplitPrincipal(P, T, x, a) \in [1..N -> Nat]
    BY <2>3, SplitFacts, Zenon
  <2>5. \A i \in 1..N : SplitPrincipal(P, T, x, a)[i] <= a[i]
    BY <2>3, SplitFacts, Zenon
  <2>6. Total(SplitPrincipal(P, T, x, a))
          = PrincipalRecovered(P, T, x + Total(a)) - PrincipalRecovered(P, T, x)
    BY <2>3, SplitFacts
  <2> QED
    BY <2>4, <2>5, <2>6 DEF P, T, x
<1>7. /\ credited[p] = 0
      /\ credited' = [credited EXCEPT ![p] = m]
      /\ creditOf' = [creditOf EXCEPT ![p] = c]
      /\ paid' = [paid EXCEPT ![c] = [i \in Plan |-> paid[c][i] + a[i]]]
      /\ alloc' = [alloc EXCEPT ![p] = a]
      /\ principal' = [principal EXCEPT ![p] = split]
  BY DEF Credit
<1> HIDE DEF a, left, split
<1>8. AccountTypeOK
  BY DEF AccountInv
<1>9. /\ \A q \in Payments : q # p => /\ credited'[q] = credited[q]
                                      /\ creditOf'[q] = creditOf[q]
                                      /\ alloc'[q] = alloc[q]
                                      /\ principal'[q] = principal[q]
      /\ credited'[p] = m /\ creditOf'[p] = c /\ alloc'[p] = a /\ principal'[p] = split
      /\ \A d \in Credits : d # c => paid'[d] = paid[d]
      /\ paid'[c] \in [1..N -> Nat]
      /\ \A i \in 1..N : paid'[c][i] = paid[c][i] + a[i]
  <2>1. /\ \A q \in Payments : q # p => /\ credited'[q] = credited[q]
                                        /\ creditOf'[q] = creditOf[q]
                                        /\ alloc'[q] = alloc[q]
                                        /\ principal'[q] = principal[q]
        /\ credited'[p] = m /\ creditOf'[p] = c /\ alloc'[p] = a /\ principal'[p] = split
    BY <1>7, <1>8 DEF AccountTypeOK
  <2>2. /\ \A d \in Credits : d # c => paid'[d] = paid[d]
        /\ paid'[c] = [i \in 1..N |-> paid[c][i] + a[i]]
    BY <1>2, <1>7, <1>8 DEF AccountTypeOK
  <2>3. ASSUME NEW i \in 1..N
        PROVE  paid[c][i] + a[i] \in Nat
    <3>1. paid[c] \in [1..N -> Nat] /\ a \in [1..N -> Nat]
      BY <1>2, <1>3
    <3>2. paid[c][i] \in Nat /\ a[i] \in Nat
      BY <3>1
    <3> QED
      BY <3>2
  <2> QED
    BY <2>1, <2>2, <2>3
<1>12. \A i \in 1..N : /\ paid[c][i] \in Nat /\ Due[c][i] \in Nat /\ a[i] \in Nat
                      /\ paid'[c][i] = paid[c][i] + a[i]
                      /\ paid[c][i] + a[i] <= Due[c][i]
                      /\ left[i - 1] \in Nat /\ left[i] \in Nat
                      /\ left[i] = left[i - 1] - a[i]
  <2> TAKE i \in 1..N
  <2>1. i \in 0..N /\ i - 1 \in 0..N
    BY <1>2
  <2>2. left[i - 1] \in Nat /\ left[i] \in Nat
    BY <1>3, <2>1
  <2>3. paid[c][i] \in Nat /\ Due[c][i] \in Nat
    BY <1>2
  <2> QED
    BY <1>3, <1>9, <2>2, <2>3
<1>10. creditOf[p] = Uncredited
  BY <1>7 DEF AccountInv, CreditedHasCredit
<1>11. /\ PaymentsOf(c)' = PaymentsOf(c) \cup {p} /\ p \notin PaymentsOf(c)
       /\ \A d \in Credits : d # c => PaymentsOf(d)' = PaymentsOf(d) /\ p \notin PaymentsOf(d)
       /\ \A d \in Credits : IsFiniteSet(PaymentsOf(d)) /\ PaymentsOf(d) \subseteq Payments
  BY <1>9, <1>10 DEF PaymentsOf, TermsOK, AccountInv, FinitelyMany
<1>t. AccountTypeOK'
  <2>1. split \in [Plan -> Nat] /\ a \in [Plan -> Nat]
    BY <1>2, <1>3, <1>6
  <2>2. [i \in Plan |-> paid[c][i] + a[i]] \in [Plan -> Nat]
    BY <1>2, <1>3
  <2> QED
    BY <1>1, <1>7, <1>8, <2>1, <2>2 DEF AccountTypeOK
<1>w. WithinTerms'
  <2> SUFFICES ASSUME NEW d \in Credits, NEW i \in Plan
               PROVE  paid'[d][i] <= Due[d][i]
    BY DEF WithinTerms
  <2>1. CASE d = c
    BY <1>2, <1>3, <1>9, <2>1
  <2>2. CASE d # c
    BY <1>9, <2>2 DEF AccountInv, WithinTerms
  <2> QED
    BY <2>1, <2>2
<1>h. CreditedHasCredit'
  BY <1>1, <1>9 DEF AccountInv, CreditedHasCredit
<1>f. FinitelyMany'
  <2>1. IsFiniteSet(PaymentsOf(c) \cup {p})
    BY <1>11, FS_AddElement
  <2> QED
    BY <1>11, <2>1 DEF FinitelyMany
<1>m. NoMoneyLost'
  <2>1. left[N] \in Nat /\ N \in 0..N
    BY <1>2, <1>3
  <2>2. ASSUME \A i \in 1..N : paid[c][i] + a[i] = Due[c][i]
        PROVE  PortfolioBalance(Due[c], paid'[c]) = 0
    <3>1. \A i \in 1..N : paid'[c][i] = Due[c][i]
      BY <1>9, <2>2
    <3>2. \A i \in 1..N : paid'[c][i] <= Due[c][i]
      BY <1>12, <3>1
    <3>3. /\ N \in Nat /\ Due[c] \in [1..N -> Nat] /\ paid'[c] \in [1..N -> Nat]
          /\ \A i \in 1..N : paid'[c][i] <= Due[c][i]
      BY <1>2, <1>9, <3>2
    <3>4. PICK after : after = paid'[c]
      OBVIOUS
    <3>5. PortfolioBalance(Due[c], after) = 0
      BY <3>1, <3>3, <3>4, BalanceZero
    <3> QED
      BY <3>4, <3>5
  <2>3. /\ Total(a) <= m
        /\ Total(a) < m => PortfolioBalance(Due[c], paid'[c]) = 0
    <3>1. Total(a) < m => left[N] > 0
      BY <1>1, <1>5, <2>1
    <3> QED
      BY <1>1, <1>4, <1>5, <2>1, <2>2, <3>1
  <2>4. ASSUME NEW q \in Payments, q # p, credited[q] > 0
        PROVE  /\ Total(alloc[q]) <= credited[q]
               /\ Total(alloc[q]) < credited[q] =>
                    PortfolioBalance(Due[creditOf[q]], paid'[creditOf[q]]) = 0
    <3>1. /\ Total(alloc[q]) <= credited[q]
          /\ Total(alloc[q]) < credited[q] =>
               PortfolioBalance(Due[creditOf[q]], paid[creditOf[q]]) = 0
      BY <2>4 DEF AccountInv, NoMoneyLost
    <3>2. CASE creditOf[q] # c
      <4>1. paid'[creditOf[q]] = paid[creditOf[q]]
        BY <1>7, <1>8, <3>2 DEF AccountTypeOK
      <4> QED
        BY <3>1, <4>1
    <3>3. CASE creditOf[q] = c
      <4> SUFFICES ASSUME PortfolioBalance(Due[c], paid[c]) = 0
                   PROVE  PortfolioBalance(Due[c], paid'[c]) = 0
        BY <3>1, <3>3
      <4>1. \A i \in 1..N : paid[c][i] = Due[c][i]
        BY <1>2, BalanceZero
      <4>2. \A i \in 1..N : paid[c][i] + a[i] = Due[c][i]
        <5> TAKE i \in 1..N
        <5>1. /\ paid[c][i] \in Nat /\ a[i] \in Nat
              /\ paid[c][i] + a[i] <= Due[c][i] /\ paid[c][i] = Due[c][i]
          BY <1>12, <4>1
        <5> QED
          BY <5>1
      <4> QED
        BY <2>2, <4>2
    <3> QED
      BY <3>2, <3>3
  <2>5. ASSUME NEW q \in Payments, credited'[q] > 0
        PROVE  /\ Total(alloc'[q]) <= credited'[q]
               /\ Total(alloc'[q]) < credited'[q] =>
                    PortfolioBalance(Due[creditOf'[q]], paid'[creditOf'[q]]) = 0
    <3>1. CASE q = p
      BY <1>9, <2>3, <3>1
    <3>2. CASE q # p
      BY <1>9, <2>4, <2>5, <3>2
    <3> QED
      BY <3>1, <3>2
  <2> QED
    BY <2>5 DEF NoMoneyLost
<1>o. OldestFirst'
  <2> SUFFICES ASSUME NEW d \in Credits, NEW i \in 1..N, NEW j \in 1..N,
                      i < j, paid'[d][j] > 0
               PROVE  paid'[d][i] = Due[d][i]
    BY <1>2 DEF OldestFirst
  <2>1. \A e \in Credits : paid[e][j] > 0 => paid[e][i] = Due[e][i]
    BY <1>2 DEF AccountInv, OldestFirst
  <2>2. CASE d # c
    BY <1>9, <2>1, <2>2
  <2>3. CASE d = c /\ paid[c][j] > 0
    <3>1. /\ paid[c][i] = Due[c][i] /\ paid[c][i] + a[i] <= Due[c][i]
          /\ paid[c][i] \in Nat /\ a[i] \in Nat /\ paid'[c][i] = paid[c][i] + a[i]
      BY <1>12, <2>1, <2>3
    <3>2. paid'[c][i] = Due[c][i]
      BY <3>1
    <3> QED
      BY <2>3, <3>2
  <2>4. CASE d = c /\ ~ (paid[c][j] > 0)
    <3>1. a[j] > 0
      <4>1. /\ paid[c][j] \in Nat /\ a[j] \in Nat /\ paid'[c][j] = paid[c][j] + a[j]
            /\ paid'[c][j] > 0 /\ ~ (paid[c][j] > 0)
        BY <1>12, <2>4
      <4> QED
        BY <4>1
    <3>2. j - 1 \in 0..N /\ i \in 1..(j - 1)
      BY <1>2
    <3>3. left[j - 1] > 0
      <4>1. left[j - 1] \in Nat /\ left[j] \in Nat /\ left[j] = left[j - 1] - a[j] /\ a[j] \in Nat
        BY <1>12
      <4> QED
        BY <3>1, <4>1
    <3>4. paid[c][i] + a[i] = Due[c][i]
      BY <1>4, <3>2, <3>3
    <3> QED
      BY <1>9, <2>4, <3>4
  <2> QED
    BY <2>2, <2>3, <2>4
<1>r. AllocationsAccountForPaid'
  <2> SUFFICES ASSUME NEW d \in Credits, NEW i \in Plan
               PROVE  paid'[d][i] = SumOver([q \in Payments |-> alloc'[q][i]], PaymentsOf(d)')
    BY DEF AllocationsAccountForPaid
  <2> DEFINE f == [q \in Payments |-> alloc[q][i]]
             g == [q \in Payments |-> alloc'[q][i]]
  <2>1. paid[d][i] = SumOver(f, PaymentsOf(d))
    BY DEF AccountInv, AllocationsAccountForPaid
  <2>2. /\ \A q \in Payments : f[q] \in Int /\ (q # p => g[q] = f[q])
        /\ g[p] = a[i] /\ g[p] \in Int
    <3>1. ASSUME NEW q \in Payments
          PROVE  f[q] \in Int
      <4>1. alloc[q] \in [Plan -> Nat]
        BY <1>8 DEF AccountTypeOK
      <4>2. alloc[q][i] \in Nat
        BY <4>1
      <4> QED
        BY <4>2
    <3>2. ASSUME NEW q \in Payments, q # p
          PROVE  g[q] = f[q]
      BY <1>9, <3>2
    <3>3. g[p] = a[i]
      BY <1>2, <1>9
    <3>4. a[i] \in Nat
      BY <1>2, <1>3
    <3> QED
      BY <3>1, <3>2, <3>3, <3>4
  <2> HIDE DEF f, g
  <2>3. CASE d # c
    <3>1. \A q \in PaymentsOf(d) : f[q] = g[q]
      BY <1>11, <2>2, <2>3
    <3>2. SumOver(f, PaymentsOf(d)) = SumOver(g, PaymentsOf(d))
      BY <1>11, <3>1, SumEqual
    <3> QED
      BY <1>9, <1>11, <2>1, <2>3, <3>2 DEF g
  <2>4. CASE d = c
    <3>1. \A q \in PaymentsOf(c) : f[q] \in Int /\ g[q] = f[q]
      BY <1>11, <2>2
    <3>2. /\ SumOver(f, PaymentsOf(c)) \in Int
          /\ SumOver(g, PaymentsOf(c) \cup {p}) = SumOver(f, PaymentsOf(c)) + g[p]
      BY <1>11, <2>2, <3>1, SumGrows
    <3>3. SumOver(g, PaymentsOf(c)') = paid'[c][i]
      BY <1>2, <1>9, <1>11, <2>1, <2>2, <2>4, <3>2
    <3> QED
      BY <2>4, <3>3 DEF g
  <2> QED
    BY <2>3, <2>4
<1>i. OrderIndependent'
  <2> SUFFICES ASSUME NEW d \in Credits
               PROVE  paid'[d] = Cascade(Due[d], Unpaid, SumOver(credited', PaymentsOf(d)'))
    BY DEF OrderIndependent
  <2>1. paid[d] = Cascade(Due[d], Unpaid, SumOver(credited, PaymentsOf(d)))
    BY DEF AccountInv, OrderIndependent
  <2>2. \A q \in Payments : credited[q] \in Int
    BY <1>8 DEF AccountTypeOK
  <2>3. CASE d # c
    <3>1. \A q \in PaymentsOf(d) : credited[q] = credited'[q]
      BY <1>9, <1>11, <2>3
    <3>2. SumOver(credited, PaymentsOf(d)) = SumOver(credited', PaymentsOf(d))
      BY <1>11, <3>1, SumEqual
    <3> QED
      BY <1>9, <1>11, <2>1, <2>3, <3>2
  <2>4. CASE d = c
    <3> DEFINE x == SumOver(credited, PaymentsOf(c))
    <3>1. \A q \in PaymentsOf(c) : credited[q] \in Int /\ credited'[q] = credited[q]
      BY <1>9, <1>11, <2>2
    <3>2. credited'[p] \in Int
      BY <1>1, <1>9
    <3>3. SumOver(credited', PaymentsOf(c) \cup {p}) = x + m
      BY <1>9, <1>11, <3>1, <3>2, SumGrows
    <3>4. x \in Nat
      <4>1. \A q \in PaymentsOf(c) : credited[q] \in Nat
        BY <1>8, <1>11 DEF AccountTypeOK
      <4> QED
        BY <1>11, <4>1, SumNat
    <3>5. Unpaid \in [1..N -> Nat] /\ \A i \in 1..N : Unpaid[i] = 0
      BY <1>2, PlanFacts
    <3>6. paid[c] = Cascade(Due[c], Unpaid, x)
      BY <2>1, <2>4
    <3> HIDE DEF x
    <3>7. \A i \in 1..N : Cascade(Due[c], Unpaid, x + m)[i] = paid[c][i] + a[i]
      <4>1. \A i \in 1..N :
              Cascade(Due[c], Unpaid, x + m)[i]
                = Cascade(Due[c], Unpaid, x)[i]
                    + Cascade(Due[c], Cascade(Due[c], Unpaid, x), m)[i]
        <5>1. /\ N \in Nat /\ Due[c] \in [1..N -> Nat] /\ Unpaid \in [1..N -> Nat]
              /\ \A i \in 1..N : Unpaid[i] = 0
              /\ x \in Nat /\ m \in Nat
          BY <1>1, <1>2, <3>4, <3>5
        <5> QED
          BY <5>1, CascadeTwice, ZenonT(60)
      <4> QED
        BY <3>6, <4>1, Zenon DEF a
    <3>8. \A i \in 1..N : Unpaid[i] <= Due[c][i]
      BY <1>2, <3>5
    <3>9. x + m \in Nat
      BY <1>1, <3>4
    <3>10. Cascade(Due[c], Unpaid, x + m) \in [1..N -> Nat]
      BY <1>2, <3>5, <3>8, <3>9, LeftFacts, Zenon
    <3>11. paid'[c] = Cascade(Due[c], Unpaid, x + m)
      <4> DEFINE whole == Cascade(Due[c], Unpaid, x + m)
      <4>1. whole \in [1..N -> Nat] /\ \A i \in 1..N : whole[i] = paid'[c][i]
        BY <1>9, <3>7, <3>10
      <4> HIDE DEF whole
      <4>2. paid'[c] \in [1..N -> Nat]
        BY <1>9
      <4>3. paid'[c] = whole
        BY <1>2, <4>1, <4>2
      <4> QED
        BY <4>3 DEF whole
    <3> QED
      BY <1>11, <2>4, <3>3, <3>11
  <2> QED
    BY <2>3, <2>4
<1>s. SplitFits'
  <2>1. ASSUME NEW q \in Payments, NEW i \in Plan
        PROVE  principal'[q][i] <= alloc'[q][i]
    BY <1>2, <1>6, <1>9 DEF AccountInv, SplitFits
  <2> DEFINE f == [q \in Payments |-> Total(principal[q])]
             g == [q \in Payments |-> Total(principal'[q])]
  <2>2. ASSUME NEW d \in Credits
        PROVE  SumOver(g, PaymentsOf(d)')
                 = PrincipalRecovered(Principal[d], TotalDue(d), Total(paid'[d]))
    <3>1. SumOver(f, PaymentsOf(d))
            = PrincipalRecovered(Principal[d], TotalDue(d), Total(paid[d]))
      BY DEF AccountInv, SplitFits, Recovered
    <3>2. \A q \in Payments : f[q] \in Int /\ (q # p => g[q] = f[q])
      BY <1>8, <1>9, TotalNat DEF AccountTypeOK
    <3>3. g[p] = Total(split) /\ g[p] \in Int
      <4>1. split \in [Plan -> Nat]
        BY <1>2, <1>6
      <4> QED
        BY <1>9, <4>1, TotalNat
    <3> HIDE DEF f, g
    <3>4. CASE d # c
      <4>1. \A q \in PaymentsOf(d) : f[q] = g[q]
        BY <1>11, <3>2, <3>4
      <4>2. SumOver(f, PaymentsOf(d)) = SumOver(g, PaymentsOf(d))
        BY <1>11, <4>1, SumEqual
      <4> QED
        BY <1>9, <1>11, <3>1, <3>4, <4>2
    <3>5. CASE d = c
      <4>1. \A q \in PaymentsOf(c) : f[q] \in Int /\ g[q] = f[q]
        BY <1>11, <3>2
      <4>2. SumOver(f, PaymentsOf(c)) \in Int
            /\ SumOver(g, PaymentsOf(c) \cup {p}) = SumOver(f, PaymentsOf(c)) + g[p]
        BY <1>11, <3>3, <4>1, SumGrows
      <4>3. Total(paid'[c]) = Total(paid[c]) + Total(a)
        <5>1. \A i \in 1..N : /\ paid[c][i] \in Int /\ a[i] \in Int
                              /\ paid'[c][i] = paid[c][i] + a[i]
          BY <1>2, <1>3, <1>9
        <5>2. SumOver(paid'[c], 1..N) = SumOver(paid[c], 1..N) + SumOver(a, 1..N)
          <6>1. PICK after : after = paid'[c]
            OBVIOUS
          <6>2. \A i \in 1..N : /\ paid[c][i] \in Int /\ a[i] \in Int
                                /\ after[i] = paid[c][i] + a[i]
            BY <5>1, <6>1
          <6>3. SumOver(after, 1..N) = SumOver(paid[c], 1..N) + SumOver(a, 1..N)
            BY <1>2, <6>2, SumPlus
          <6> QED
            BY <6>1, <6>3
        <5>3. DOMAIN paid'[c] = 1..N /\ DOMAIN paid[c] = 1..N /\ DOMAIN a = 1..N
          BY <1>2, <1>3, <1>9
        <5> QED
          BY <5>2, <5>3 DEF Total
      <4>4. /\ SumOver(f, PaymentsOf(c)) + Total(split)
                 = PrincipalRecovered(Principal[c], TotalDue(c), Total(paid[c]) + Total(a))
        <5> DEFINE u == PrincipalRecovered(Principal[c], TotalDue(c), Total(paid[c]))
                   v == PrincipalRecovered(Principal[c], TotalDue(c), Total(paid[c]) + Total(a))
        <5>1. SumOver(f, PaymentsOf(c)) = u /\ Total(split) = v - u
          BY <1>6, <3>1, <3>5
        <5>2. u \in Int /\ v \in Int
          <6>1. Total(paid[c]) \in Nat /\ Total(a) \in Nat
            BY <1>2, <1>3, TotalNat
          <6> DEFINE z == Total(paid[c]) + Total(a)
          <6>2. z \in Nat
            BY <6>1
          <6> HIDE DEF z
          <6>3. /\ PrincipalRecovered(Principal[c], TotalDue(c), z) \in Nat
                /\ PrincipalRecovered(Principal[c], TotalDue(c), Total(paid[c])) \in Nat
            BY <6>1, <6>2, TermsFacts, RecoveredFacts
          <6> QED
            BY <6>3 DEF z
        <5> HIDE DEF u, v
        <5>3. SumOver(f, PaymentsOf(c)) + Total(split) = v
          BY <5>1, <5>2
        <5> QED
          BY <5>3 DEF v
      <4> QED
        BY <1>11, <3>3, <3>5, <4>2, <4>3, <4>4
    <3> QED
      BY <3>4, <3>5
  <2> QED
    BY <2>1, <2>2 DEF SplitFits, Recovered
<1> QED
  BY <1>t, <1>w, <1>h, <1>f, <1>m, <1>o, <1>r, <1>i, <1>s DEF AccountInv

-----------------------------------------------------------------------------
\* After any sequence of payments, on any plan: no money is lost, the rows
\* account for the instalments, the oldest instalments are paid first, the
\* order and the cut of the payments do not matter, and the capital recovered
\* is exact (allocatePayment and splitAllocations).
THEOREM CreditIsExact ==
  ASSUME TermsOK
  PROVE  AccountSpec => []CascadeExact
<1>1. AccountInit => AccountInv
  BY AccountBegins
<1>2. AccountInv /\ [AccountNext]_accountVars => AccountInv'
  <2> SUFFICES ASSUME AccountInv, [AccountNext]_accountVars
               PROVE  AccountInv'
    OBVIOUS
  <2>1. CASE AccountNext
    BY <2>1, CreditStep DEF AccountNext
  <2>2. CASE UNCHANGED accountVars
    <3> USE <2>2 DEF accountVars, AccountInv
    <3>1. AccountTypeOK' /\ WithinTerms' /\ CreditedHasCredit'
      BY DEF AccountTypeOK, WithinTerms, CreditedHasCredit
    <3>2. NoMoneyLost' /\ OldestFirst'
      BY DEF NoMoneyLost, OldestFirst
    <3>3. FinitelyMany' /\ AllocationsAccountForPaid' /\ OrderIndependent'
      BY DEF FinitelyMany, AllocationsAccountForPaid, OrderIndependent, PaymentsOf
    <3>4. SplitFits'
      BY DEF SplitFits, Recovered, PaymentsOf
    <3> QED
      BY <3>1, <3>2, <3>3, <3>4
  <2> QED
    BY <2>1, <2>2
<1>3. AccountInv => CascadeExact
  BY PaidCreditRecovers DEF AccountInv, CascadeExact
<1> QED
  BY <1>1, <1>2, <1>3, PTL DEF AccountSpec

-----------------------------------------------------------------------------
(* The matching of receipts to settlement rows.                            *)

\* A set of natural numbers has a smallest one, which Min chooses.
LEMMA MinIsIn ==
  ASSUME NEW S \in SUBSET Nat, S # {}
  PROVE  Matcher!Min(S) \in S
<1> DEFINE R == OpToRel(<, Nat)
<1>1. PICK n \in S : \A m \in S : ~ (<<m, n>> \in R)
  <2>1. IsWellFoundedOn(R, Nat)
    BY NatLessThanWellFounded
  <2> HIDE DEF R
  <2> QED
    BY <2>1, WFMin
<1>2. \A m \in S : n <= m
  <2>1. R = {ss \in Nat \X Nat : ss[1] < ss[2]}
    BY DEF OpToRel
  <2> HIDE DEF R
  <2>2. \A m \in S : ~ (m < n)
    BY <1>1, <2>1
  <2> QED
    BY <2>2
<1> QED
  BY <1>1, <1>2 DEF Matcher!Min

\* The largest of a set with 0 of natural numbers below a bound.
LEMMA MaxIsIn ==
  ASSUME NEW S \in SUBSET Nat, S # {}, NEW b \in Nat, \A x \in S : x <= b
  PROVE  /\ Matcher!Max(S) \in S
         /\ \A x \in S : x <= Matcher!Max(S)
<1> DEFINE T == {d \in Nat : b - d \in S}
           R == OpToRel(<, Nat)
<1>1. PICK x \in S : TRUE
  OBVIOUS
<1>2. T \subseteq Nat /\ T # {}
  <2>1. b - x \in Nat /\ b - (b - x) = x
    BY <1>1
  <2>2. b - x \in T
    BY <1>1, <2>1
  <2> QED
    BY <2>2
<1>3. PICK n \in T : \A m \in T : ~ (<<m, n>> \in R)
  <2>1. IsWellFoundedOn(R, Nat)
    BY NatLessThanWellFounded
  <2> HIDE DEF R, T
  <2> QED
    BY <1>2, <2>1, WFMin
<1>4. n \in Nat /\ b - n \in S
  BY <1>3
<1>5. \A y \in S : y <= b - n
  <2> SUFFICES ASSUME NEW y \in S PROVE y <= b - n
    OBVIOUS
  <2>1. y \in Nat /\ y <= b /\ b - y \in Nat /\ b - (b - y) = y
    OBVIOUS
  <2>2. b - y \in T
    BY <2>1
  <2>3. R = {ss \in Nat \X Nat : ss[1] < ss[2]}
    BY DEF OpToRel
  <2> HIDE DEF R, T
  <2>4. ~ (b - y < n)
    BY <1>3, <1>4, <2>1, <2>2, <2>3
  <2> QED
    BY <1>4, <2>1, <2>4
<1> HIDE DEF T, R
<1>6. \E m \in S : \A y \in S : m >= y
  <2>1. \A y \in S : b - n >= y
    BY <1>4, <1>5
  <2> QED
    BY <1>4, <2>1
<1>7. /\ Matcher!Max(S) \in S
      /\ \A y \in S : Matcher!Max(S) >= y
  BY <1>6 DEF Matcher!Max
<1> QED
  BY <1>7

\* A finite set of natural numbers is below one.
LEMMA FiniteHasBound ==
  ASSUME NEW S \in SUBSET Nat, IsFiniteSet(S)
  PROVE  \E b \in Nat : \A x \in S : x <= b
<1> DEFINE B == {T \in SUBSET S : \E b \in Nat : \A x \in T : x <= b}
<1>1. {} \in B
  <2>1. 0 \in Nat /\ \A x \in {} : x <= 0
    OBVIOUS
  <2> QED
    BY <2>1
<1>2. ASSUME NEW T \in SUBSET S, T # {}, \A U \in SUBSET T : U # T => U \in B
      PROVE  T \in B
  <2>1. PICK y \in T : TRUE
    BY <1>2
  <2>2. PICK b \in Nat : \A x \in T \ {y} : x <= b
    <3>1. T \ {y} \in B
      BY <1>2, <2>1
    <3> QED
      BY <3>1
  <2>3. PICK c \in Nat : c >= b /\ c >= y
    <3>1. CASE b >= y
      BY <3>1
    <3>2. CASE ~ (b >= y)
      <4>1. y \in Nat /\ y >= b
        BY <2>1, <3>2
      <4> QED
        BY <4>1
    <3> QED
      BY <3>1, <3>2
  <2>4. \A x \in T : x <= c
    BY <2>1, <2>2, <2>3
  <2> QED
    BY <2>4
<1>3. S \in B
  <2>1. B \in SUBSET SUBSET S
    OBVIOUS
  <2> HIDE DEF B
  <2> QED
    BY <1>1, <1>2, <2>1, SetInduction
<1> QED
  BY <1>3
-----------------------------------------------------------------------------
(* One pass, receipt by receipt.                                            *)

PreviousOf(claims, p) == Matcher!Max({0} \cup {q \in claims : q < p})

\* What is paired after receipt p, from what was paired before it.
Served(before, p, claims, pool, fits) ==
  LET fitting == {k \in pool \ {before[q] : q \in claims} : <<p, k>> \in fits}
  IN  IF before[p] # Matcher!Unmatched \/ fitting = {} THEN before
      ELSE [before EXCEPT ![p] = Matcher!Min(fitting)]

\* The equation of a pass over the receipts of D.
IsPass(u, D, start, claims, pool, fits) ==
  u = [p \in {0} \cup D |->
         IF p = 0 THEN start
         ELSE Served(u[PreviousOf(claims, p)], p, claims, pool, fits)]

LEMMA PreviousFacts ==
  ASSUME NEW claims \in SUBSET (Nat \ {0}), NEW p \in Nat \ {0}
  PROVE  /\ PreviousOf(claims, p) \in {0} \cup {q \in claims : q < p}
         /\ PreviousOf(claims, p) \in Nat /\ PreviousOf(claims, p) < p
         /\ \A q \in claims : q < p => q <= PreviousOf(claims, p)
<1> DEFINE S == {0} \cup {q \in claims : q < p}
<1>0. \A q \in claims : q \in Nat
  OBVIOUS
<1>1. S \in SUBSET Nat /\ S # {} /\ \A x \in S : x <= p
  <2>1. \A x \in S : x \in Nat /\ x <= p
    <3> SUFFICES ASSUME NEW x \in S PROVE x \in Nat /\ x <= p
      OBVIOUS
    <3>1. CASE x = 0
      BY <3>1
    <3>2. CASE x \in claims /\ x < p
      BY <1>0, <3>2
    <3> QED
      BY <3>1, <3>2
  <2>2. 0 \in S
    OBVIOUS
  <2> HIDE DEF S
  <2> QED
    BY <2>1, <2>2
<1>2. /\ Matcher!Max(S) \in S
      /\ \A x \in S : x <= Matcher!Max(S)
  <2> HIDE DEF S
  <2> QED
    BY <1>1, MaxIsIn
<1>3. PICK m : m = Matcher!Max(S)
  OBVIOUS
<1>4. PreviousOf(claims, p) = m
  BY <1>3 DEF PreviousOf
<1>5. m \in S /\ \A x \in S : x <= m
  BY <1>2, <1>3
<1> QED
  BY <1>4, <1>5

\* Every pass over finitely many receipts has a result.
LEMMA PassExists ==
  ASSUME NEW claims \in SUBSET (Nat \ {0}), IsFiniteSet(claims),
         NEW start, NEW pool, NEW fits
  PROVE  \E u : IsPass(u, claims, start, claims, pool, fits)
<1> DEFINE Upto(n) == {p \in claims : p <= n}
           B == {n \in Nat : \E u : IsPass(u, Upto(n), start, claims, pool, fits)}
<1>0. \A p \in claims : p \in Nat /\ p > 0
  OBVIOUS
<1>1. PICK b \in Nat : \A p \in claims : p <= b
  <2>1. claims \in SUBSET Nat
    BY <1>0
  <2> QED
    BY <2>1, FiniteHasBound
<1>2. 0 \in B
  <2>1. Upto(0) = {}
    <3>1. \A p \in claims : ~ (p <= 0)
      BY <1>0
    <3> QED
      BY <3>1
  <2>2. IsPass([p \in {0} |-> start], {}, start, claims, pool, fits)
    BY DEF IsPass
  <2> QED
    BY <2>1, <2>2
<1>3. ASSUME NEW n \in 1..b, n - 1 \in B
      PROVE  n \in B
  <2>1. PICK g : IsPass(g, Upto(n - 1), start, claims, pool, fits)
    BY <1>3
  <2>2. CASE n \notin claims
    <3>1. Upto(n) = Upto(n - 1)
      <4>1. \A p \in claims : p <= n <=> p <= n - 1
        BY <1>0, <2>2
      <4> QED
        BY <4>1
    <3> QED
      BY <1>3, <2>1, <3>1
  <2>3. CASE n \in claims
    <3> DEFINE h == [p \in {0} \cup Upto(n) |->
                       IF p = n THEN Served(g[PreviousOf(claims, n)], n, claims, pool, fits)
                       ELSE g[p]]
    <3>1. /\ {0} \cup Upto(n) = {0} \cup Upto(n - 1) \cup {n}
          /\ n \notin {0} \cup Upto(n - 1)
      <4>1. \A p \in claims : p <= n <=> (p <= n - 1 \/ p = n)
        BY <1>0
      <4>2. n # 0 /\ ~ (n <= n - 1)
        OBVIOUS
      <4> QED
        BY <2>3, <4>1, <4>2
    <3>2. ASSUME NEW p \in {0} \cup Upto(n)
          PROVE  h[p] = IF p = 0 THEN start
                        ELSE Served(h[PreviousOf(claims, p)], p, claims, pool, fits)
      <4>1. p # 0 => /\ p \in Nat \ {0} /\ p <= n
                     /\ PreviousOf(claims, p) \in {0} \cup Upto(n - 1)
        <5>1. ASSUME p # 0
              PROVE  /\ p \in Nat \ {0} /\ p <= n
                     /\ PreviousOf(claims, p) \in {0} \cup Upto(n - 1)
          <6>1. p \in Nat \ {0} /\ p <= n
            BY <5>1
          <6>2. PICK q : q = PreviousOf(claims, p)
            OBVIOUS
          <6>3. q \in {0} \cup {r \in claims : r < p} /\ q \in Nat
            BY <6>1, <6>2, PreviousFacts
          <6>4. q \in {0} \cup Upto(n - 1)
            BY <6>1, <6>3
          <6> QED
            BY <6>1, <6>2, <6>4
        <5> QED
          BY <5>1
      <4>2. p # 0 => h[PreviousOf(claims, p)] = g[PreviousOf(claims, p)]
        BY <3>1, <4>1
      <4>3. CASE p = n
        BY <4>1, <4>2, <4>3, <3>1
      <4>4. CASE p # n
        <5>1. p \in {0} \cup Upto(n - 1)
          BY <3>1, <4>4
        <5>2. g[p] = IF p = 0 THEN start
                     ELSE Served(g[PreviousOf(claims, p)], p, claims, pool, fits)
          BY <2>1, <5>1 DEF IsPass
        <5> QED
          BY <4>2, <4>4, <5>2
      <4> QED
        BY <4>3, <4>4
    <3>3. h = [p \in {0} \cup Upto(n) |-> h[p]]
      OBVIOUS
    <3> HIDE DEF h
    <3>4. IsPass(h, Upto(n), start, claims, pool, fits)
      BY <3>2, <3>3 DEF IsPass
    <3> QED
      BY <3>4
  <2> QED
    BY <2>2, <2>3
<1>4. b \in B
  <2>1. B \in SUBSET Nat
    OBVIOUS
  <2> HIDE DEF B
  <2>2. 0..b \subseteq B
    BY <1>2, <1>3, <2>1, CountTo
  <2> QED
    BY <2>2
<1>5. Upto(b) = claims
  BY <1>1
<1> QED
  BY <1>4, <1>5

\* The result of a pass is what is paired after the last receipt.
LEMMA PassValue ==
  ASSUME NEW claims \in SUBSET (Nat \ {0}), IsFiniteSet(claims),
         NEW start, NEW pool, NEW fits
  PROVE  \E u : /\ IsPass(u, claims, start, claims, pool, fits)
                /\ Matcher!Pass(start, claims, pool, fits) = u[Matcher!Max({0} \cup claims)]
<1> DEFINE u == CHOOSE f : IsPass(f, claims, start, claims, pool, fits)
<1>1. IsPass(u, claims, start, claims, pool, fits)
  BY PassExists
<1>2. Matcher!Pass(start, claims, pool, fits) = u[Matcher!Max({0} \cup claims)]
  BY Zenon DEF Matcher!Pass, IsPass, Served, PreviousOf
<1> QED
  BY <1>1, <1>2

\* What a pass has done up to receipt n: what was paired stays, what it pairs fits and
\* was free, no credit goes to two, and who is left has every credit that fits him taken.
PassSafe(u, n, start, claims, pool, fits) ==
  /\ u \in [claims -> pool \cup {0}]
  /\ \A c \in claims : start[c] # 0 => u[c] = start[c]
  /\ \A c \in claims : u[c] # start[c] =>
       <<c, u[c]>> \in fits /\ \A d \in claims : start[d] # u[c]
  /\ \A c, d \in claims : u[c] # 0 /\ u[c] = u[d] => c = d
  /\ \A c \in claims : c <= n /\ u[c] = 0 =>
       \A k \in pool : <<c, k>> \in fits => \E d \in claims : u[d] = k

LEMMA ServedKeeps ==
  ASSUME NEW claims \in SUBSET (Nat \ {0}), NEW pool \in SUBSET (Nat \ {0}), NEW fits,
         NEW start \in [claims -> pool \cup {0}], NEW m \in Nat, NEW before,
         PassSafe(before, m, start, claims, pool, fits),
         NEW p \in claims, \A q \in claims : q < p => q <= m
  PROVE  PassSafe(Served(before, p, claims, pool, fits), p, start, claims, pool, fits)
<1> DEFINE fitting == {k \in pool \ {before[q] : q \in claims} : <<p, k>> \in fits}
           after == Served(before, p, claims, pool, fits)
<1>0. Matcher!Unmatched = 0
  BY DEF Matcher!Unmatched
<1>1. /\ before \in [claims -> pool \cup {0}]
      /\ \A c \in claims : start[c] # 0 => before[c] = start[c]
      /\ \A c \in claims : before[c] # start[c] =>
           <<c, before[c]>> \in fits /\ \A d \in claims : start[d] # before[c]
      /\ \A c, d \in claims : before[c] # 0 /\ before[c] = before[d] => c = d
      /\ \A c \in claims : c <= m /\ before[c] = 0 =>
           \A k \in pool : <<c, k>> \in fits => \E d \in claims : before[d] = k
  BY DEF PassSafe
<1>2. \A c \in claims : c \in Nat /\ (c <= p => c <= m \/ c = p)
  <2> SUFFICES ASSUME NEW c \in claims, c <= p, c # p PROVE c <= m
    OBVIOUS
  <2>1. c \in Nat /\ p \in Nat
    OBVIOUS
  <2>2. c < p
    BY <2>1
  <2> QED
    BY <2>2
<1>3. CASE before[p] # 0 \/ fitting = {}
  <2>1. after = before
    BY <1>0, <1>3 DEF Served
  <2>2. before[p] = 0 => \A k \in pool : <<p, k>> \in fits => \E d \in claims : before[d] = k
    BY <1>3
  <2> HIDE DEF after, fitting
  <2>3. PassSafe(before, p, start, claims, pool, fits)
    BY <1>1, <1>2, <2>2 DEF PassSafe
  <2> QED
    BY <2>1, <2>3 DEF after
<1>4. CASE before[p] = 0 /\ fitting # {}
  <2>1. PICK k : k = Matcher!Min(fitting)
    OBVIOUS
  <2>2. k \in fitting
    <3>1. fitting \in SUBSET Nat
      OBVIOUS
    <3> HIDE DEF fitting
    <3> QED
      BY <1>4, <2>1, <3>1, MinIsIn
  <2>3. PICK a : a = after
    OBVIOUS
  <2>4. a = [before EXCEPT ![p] = k]
    BY <1>0, <1>4, <2>1, <2>3 DEF Served
  <2>5. k \in pool /\ k # 0 /\ <<p, k>> \in fits /\ \A q \in claims : before[q] # k
    BY <2>2
  <2> HIDE DEF fitting, after
  <2>6. /\ a \in [claims -> pool \cup {0}] /\ a[p] = k
        /\ \A c \in claims : c # p => a[c] = before[c]
    BY <1>1, <2>4, <2>5
  <2>7. start[p] = 0
    BY <1>1, <1>4
  <2>8. \A c \in claims : start[c] # 0 => a[c] = start[c]
    BY <1>1, <2>6, <2>7
  <2>9. \A d \in claims : start[d] # k
    BY <1>1, <2>5
  <2>10. \A c \in claims : a[c] # start[c] =>
           <<c, a[c]>> \in fits /\ \A d \in claims : start[d] # a[c]
    BY <1>1, <2>5, <2>6, <2>9
  <2>11. \A c, d \in claims : a[c] # 0 /\ a[c] = a[d] => c = d
    BY <1>1, <2>5, <2>6
  <2>12. ASSUME NEW c \in claims, c <= p, a[c] = 0, NEW j \in pool, <<c, j>> \in fits
         PROVE  \E d \in claims : a[d] = j
    <3>1. c # p /\ c <= m /\ before[c] = 0
      BY <1>2, <2>5, <2>6, <2>12
    <3>2. PICK d \in claims : before[d] = j
      BY <1>1, <2>12, <3>1
    <3>3. j # 0
      OBVIOUS
    <3>4. d # p
      BY <1>4, <3>2, <3>3
    <3> QED
      BY <2>6, <3>2, <3>4
  <2>13. PassSafe(a, p, start, claims, pool, fits)
    BY <2>6, <2>8, <2>10, <2>11, <2>12 DEF PassSafe
  <2> QED
    BY <2>3, <2>13 DEF after
<1> QED
  BY <1>3, <1>4

\* What a pass returns, for any receipts, credits and reasons to pair them.
LEMMA PassKeeps ==
  ASSUME NEW claims \in SUBSET (Nat \ {0}), IsFiniteSet(claims),
         NEW pool \in SUBSET (Nat \ {0}), NEW fits,
         NEW start \in [claims -> pool \cup {0}],
         \A c, d \in claims : start[c] # 0 /\ start[c] = start[d] => c = d
  PROVE  \E n \in Nat : /\ \A c \in claims : c <= n
                        /\ PassSafe(Matcher!Pass(start, claims, pool, fits), n,
                                    start, claims, pool, fits)
<1>0. \A c \in claims : c \in Nat /\ c > 0 /\ c \in Nat \ {0}
  OBVIOUS
<1>1. PICK u : /\ IsPass(u, claims, start, claims, pool, fits)
               /\ Matcher!Pass(start, claims, pool, fits) = u[Matcher!Max({0} \cup claims)]
  BY PassValue
<1>2. u[0] = start
  BY <1>1 DEF IsPass
<1>3. \A p \in claims : u[p] = Served(u[PreviousOf(claims, p)], p, claims, pool, fits)
  BY <1>0, <1>1 DEF IsPass
<1> DEFINE Good(q) == PassSafe(u[q], q, start, claims, pool, fits)
           B == {n \in Nat : \A q \in {0} \cup claims : q <= n => Good(q)}
<1>4. Good(0)
  <2>1. \A c \in claims : ~ (c <= 0)
    BY <1>0
  <2> QED
    BY <1>2, <2>1 DEF PassSafe
<1>5. 0 \in B
  <2>1. \A q \in {0} \cup claims : q <= 0 => q = 0
    BY <1>0
  <2> HIDE DEF Good
  <2> QED
    BY <1>4, <2>1
<1>6. PICK n \in Nat : \A c \in claims : c <= n
  <2>1. claims \in SUBSET Nat
    BY <1>0
  <2> QED
    BY <2>1, FiniteHasBound
<1>7. ASSUME NEW i \in 1..n, i - 1 \in B
      PROVE  i \in B
  <2> SUFFICES ASSUME NEW q \in {0} \cup claims, q <= i PROVE Good(q)
    OBVIOUS
  <2>1. CASE q <= i - 1
    BY <1>7, <2>1
  <2>2. CASE q = i
    <3>1. q \in claims /\ q \in Nat \ {0}
      BY <2>2
    <3>2. PICK m : m = PreviousOf(claims, q)
      OBVIOUS
    <3>3. /\ m \in {0} \cup {c \in claims : c < q} /\ m \in Nat /\ m < q
          /\ \A c \in claims : c < q => c <= m
      BY <3>1, <3>2, PreviousFacts
    <3>4. m <= i - 1
      BY <2>2, <3>1, <3>3
    <3>5. Good(m)
      BY <1>7, <3>3, <3>4
    <3>6. u[q] = Served(u[m], q, claims, pool, fits)
      BY <1>3, <3>1, <3>2
    <3>7. PassSafe(Served(u[m], q, claims, pool, fits), q, start, claims, pool, fits)
      BY <3>1, <3>3, <3>5, ServedKeeps
    <3> QED
      BY <3>6, <3>7
  <2>3. q \in Nat
    BY <1>0
  <2> HIDE DEF Good
  <2> QED
    BY <2>1, <2>2, <2>3
<1>8. 0..n \subseteq B
  <2>1. B \in SUBSET Nat
    OBVIOUS
  <2> HIDE DEF B
  <2> QED
    BY <1>5, <1>7, <2>1, CountTo
<1>9. PICK m : m = Matcher!Max({0} \cup claims)
  OBVIOUS
<1>10. m \in {0} \cup claims /\ m \in Nat /\ \A c \in claims : c <= m
  <2> DEFINE S == {0} \cup claims
  <2>1. S \in SUBSET Nat /\ S # {} /\ \A x \in S : x <= n
    <3>1. \A x \in S : x \in Nat /\ x <= n
      BY <1>0, <1>6
    <3> QED
      BY <3>1
  <2>2. m \in S /\ \A x \in S : x <= m
    <3> HIDE DEF S
    <3>1. /\ Matcher!Max(S) \in S
          /\ \A x \in S : x <= Matcher!Max(S)
      BY <2>1, MaxIsIn
    <3> QED
      BY <1>9, <3>1 DEF S
  <2> QED
    BY <2>1, <2>2
<1>11. Good(m)
  <2>1. m <= n
    BY <1>6, <1>10
  <2>2. n \in B
    BY <1>8
  <2> HIDE DEF Good
  <2> QED
    BY <1>10, <2>1, <2>2
<1> QED
  BY <1>1, <1>9, <1>10, <1>11

\* What matchCreditsToClaims promises of one run (I1, I2, I3, I5 and I7 of
\* settlement-match.ts), for any receipts, rows, amounts and identifiers.
LEMMA MatchFacts ==
  ASSUME NEW claims \in SUBSET (Nat \ {0}), IsFiniteSet(claims),
         NEW credits \in SUBSET (Nat \ {0}),
         NEW found, found = Matcher!MatchCreditsToClaims(claims, credits)
  PROVE  /\ found \in [claims -> credits \cup {0}]
         /\ \A c \in claims : found[c] # 0 =>
              /\ Matcher!Eligible(found[c])
              /\ Matcher!SameE2E(c, found[c]) \/ Matcher!SameAmount(c, found[c])
         /\ \A c, d \in claims : found[c] # 0 /\ found[c] = found[d] => c = d
         /\ \A c \in claims : found[c] = 0 =>
              \A k \in credits :
                Matcher!Eligible(k) /\ (Matcher!SameE2E(c, k) \/ Matcher!SameAmount(c, k))
                  => \E d \in claims : found[d] = k
         /\ \A c, d \in claims, k \in credits :
              found[d] = k /\ Matcher!SameE2E(c, k) /\ ~ Matcher!SameE2E(d, k) =>
                found[c] \in credits \ {k} /\ Matcher!SameE2E(c, found[c])
<1> DEFINE pool == {k \in credits : Matcher!Eligible(k)}
           none == [p \in claims |-> Matcher!Unmatched]
           e2e == Matcher!ByE2E(claims, pool)
           amount == Matcher!ByAmount(claims, pool)
           first == Matcher!Pass(none, claims, pool, e2e)
<1>1. found = Matcher!Pass(first, claims, pool, amount)
  BY Zenon DEF Matcher!MatchCreditsToClaims
<1>2. /\ \A c \in claims, k \in pool : <<c, k>> \in e2e <=> Matcher!SameE2E(c, k)
      /\ \A c \in claims, k \in pool : <<c, k>> \in amount <=> Matcher!SameAmount(c, k)
  BY DEF Matcher!ByE2E, Matcher!ByAmount
<1>3. pool \in SUBSET (Nat \ {0}) /\ 0 \notin pool
  OBVIOUS
<1>4. none \in [claims -> pool \cup {0}] /\ \A c \in claims : none[c] = 0
  BY DEF Matcher!Unmatched
<1>5. \A k \in pool : k \in credits /\ Matcher!Eligible(k)
  OBVIOUS
<1>6. \A k \in credits : Matcher!Eligible(k) => k \in pool
  OBVIOUS
<1> HIDE DEF pool, none, e2e, amount, first
<1>7. PICK n \in Nat : /\ \A c \in claims : c <= n
                       /\ PassSafe(first, n, none, claims, pool, e2e)
  BY <1>3, <1>4, PassKeeps DEF first
<1>8. /\ first \in [claims -> pool \cup {0}]
      /\ \A c \in claims : first[c] # 0 => <<c, first[c]>> \in e2e
      /\ \A c, d \in claims : first[c] # 0 /\ first[c] = first[d] => c = d
      /\ \A c \in claims : first[c] = 0 =>
           \A k \in pool : <<c, k>> \in e2e => \E d \in claims : first[d] = k
  BY <1>4, <1>7 DEF PassSafe
<1>9. PICK m \in Nat : /\ \A c \in claims : c <= m
                       /\ PassSafe(found, m, first, claims, pool, amount)
  BY <1>1, <1>3, <1>8, PassKeeps
<1>10. /\ found \in [claims -> pool \cup {0}]
       /\ \A c \in claims : first[c] # 0 => found[c] = first[c]
       /\ \A c \in claims : found[c] # first[c] =>
            <<c, found[c]>> \in amount /\ \A d \in claims : first[d] # found[c]
       /\ \A c, d \in claims : found[c] # 0 /\ found[c] = found[d] => c = d
       /\ \A c \in claims : found[c] = 0 =>
            \A k \in pool : <<c, k>> \in amount => \E d \in claims : found[d] = k
  BY <1>9 DEF PassSafe
<1>11. ASSUME NEW c \in claims, found[c] # 0
       PROVE  /\ found[c] \in pool
              /\ Matcher!SameE2E(c, found[c]) \/ Matcher!SameAmount(c, found[c])
  <2>1. found[c] \in pool
    BY <1>10, <1>11
  <2>2. CASE found[c] = first[c]
    BY <1>2, <1>8, <1>11, <2>1, <2>2
  <2>3. CASE found[c] # first[c]
    BY <1>2, <1>10, <2>1, <2>3
  <2> QED
    BY <2>1, <2>2, <2>3
<1>12. ASSUME NEW c \in claims, found[c] = 0, NEW k \in credits, Matcher!Eligible(k),
              Matcher!SameE2E(c, k) \/ Matcher!SameAmount(c, k)
       PROVE  \E d \in claims : found[d] = k
  <2>1. k \in pool /\ k # 0
    BY <1>3, <1>6, <1>12
  <2>2. CASE Matcher!SameAmount(c, k)
    BY <1>2, <1>10, <1>12, <2>1, <2>2
  <2>3. CASE Matcher!SameE2E(c, k)
    <3>1. first[c] = 0
      BY <1>10, <1>12
    <3>2. PICK d \in claims : first[d] = k
      BY <1>2, <1>8, <2>1, <2>3, <3>1
    <3> QED
      BY <1>10, <2>1, <3>2
  <2> QED
    BY <1>12, <2>2, <2>3
<1>13. ASSUME NEW c \in claims, NEW d \in claims, NEW k \in credits,
              found[d] = k, Matcher!SameE2E(c, k), ~ Matcher!SameE2E(d, k)
       PROVE  found[c] \in credits \ {k} /\ Matcher!SameE2E(c, found[c])
  <2>1. k # 0
    OBVIOUS
  <2>2. k \in pool
    BY <1>11, <1>13, <2>1
  <2>3. found[d] # first[d]
    BY <1>2, <1>8, <1>13, <2>1, <2>2
  <2>4. \A e \in claims : first[e] # k
    BY <1>10, <1>13, <2>3
  <2>5. first[c] # 0
    BY <1>2, <1>8, <1>13, <2>2, <2>4
  <2>6. found[c] = first[c] /\ first[c] \in pool /\ <<c, first[c]>> \in e2e
    BY <1>8, <1>10, <2>5
  <2> QED
    BY <1>2, <1>5, <2>4, <2>6
<1>14. found \in [claims -> credits \cup {0}]
  BY <1>5, <1>10
<1> QED
  BY <1>5, <1>10, <1>11, <1>12, <1>13, <1>14
-----------------------------------------------------------------------------
(* Run after run.                                                           *)

\* A complete run, from what is pending and what is free.
LEMMA SettleFacts ==
  ASSUME PoolTerms, PoolInv, Settle
  PROVE  \E found :
           /\ found = Matcher!MatchCreditsToClaims(Pending, FreeRows)
           /\ pairing' = [p \in Claims |-> IF p \in Pending THEN found[p] ELSE pairing[p]]
           /\ UNCHANGED <<readAmount, claimE2E, rowAmount, rowE2E, refunded>>
           /\ Pending \in SUBSET (Nat \ {0}) /\ IsFiniteSet(Pending)
           /\ FreeRows \in SUBSET (Nat \ {0})
           /\ found \in [Pending -> FreeRows \cup {0}]
<1>1. PICK found : found = Matcher!MatchCreditsToClaims(Pending, FreeRows)
  OBVIOUS
<1>2. Pending \subseteq Claims /\ FreeRows \subseteq Incoming
  BY DEF Pending, FreeRows
<1>3. Pending \in SUBSET (Nat \ {0}) /\ FreeRows \in SUBSET (Nat \ {0})
  BY <1>2 DEF PoolTerms
<1>4. IsFiniteSet(Pending)
  BY <1>2, FS_Subset DEF PoolTerms
<1>5. found \in [Pending -> FreeRows \cup {0}]
  BY <1>1, <1>3, <1>4, MatchFacts
<1>6. /\ pairing' = [p \in Claims |-> IF p \in Pending THEN found[p] ELSE pairing[p]]
      /\ UNCHANGED <<readAmount, claimE2E, rowAmount, rowE2E, refunded>>
  BY <1>1 DEF Settle
<1> QED
  BY <1>1, <1>3, <1>4, <1>5, <1>6

LEMMA SettleKeeps ==
  ASSUME PoolTerms, PoolInv, Settle
  PROVE  PoolInv'
<1>0. Matcher!Unmatched = 0
  BY DEF Matcher!Unmatched
<1>1. PICK found :
        /\ found = Matcher!MatchCreditsToClaims(Pending, FreeRows)
        /\ pairing' = [p \in Claims |-> IF p \in Pending THEN found[p] ELSE pairing[p]]
        /\ UNCHANGED <<readAmount, claimE2E, rowAmount, rowE2E, refunded>>
        /\ Pending \in SUBSET (Nat \ {0}) /\ IsFiniteSet(Pending)
        /\ FreeRows \in SUBSET (Nat \ {0})
        /\ found \in [Pending -> FreeRows \cup {0}]
  BY SettleFacts
<1>2. /\ \A c \in Pending : found[c] # 0 =>
           /\ Matcher!Eligible(found[c])
           /\ Matcher!SameE2E(c, found[c]) \/ Matcher!SameAmount(c, found[c])
      /\ \A c, d \in Pending : found[c] # 0 /\ found[c] = found[d] => c = d
  BY <1>1, MatchFacts
<1>3. PICK after : after = pairing'
  OBVIOUS
<1>4. /\ DOMAIN after = Claims
      /\ \A p \in Claims : after[p] = IF p \in Pending THEN found[p] ELSE pairing[p]
      /\ \A p \in Pending : found[p] \in FreeRows \cup {0}
  BY <1>1, <1>3
<1>5. PoolTypeOK /\ OneClaimPerCredit /\ EveryMatchJustified /\ PairsArrived
  BY DEF PoolInv
<1>6. /\ \A p \in Pending : readAmount[p] # 0 /\ pairing[p] = 0
      /\ \A k \in FreeRows : /\ k \in Incoming /\ rowAmount[k] # 0 /\ k # 0
                             /\ \A p \in Claims : pairing[p] # k
  BY <1>0, <1>1 DEF Pending, FreeRows
<1>7. \A p \in Claims : after[p] \in Incoming \cup {0}
  BY <1>0, <1>4, <1>5, <1>6 DEF PoolTypeOK
<1>8. PoolTypeOK'
  <2>1. after \in [Claims -> Incoming \cup {0}]
    BY <1>1, <1>3, <1>4, <1>7
  <2> QED
    BY <1>0, <1>1, <1>3, <1>5, <2>1 DEF PoolTypeOK, Matcher!Unmatched
<1>9. PairsArrived'
  <2>1. ASSUME NEW p \in Claims, after[p] # 0
        PROVE  readAmount[p] # 0 /\ rowAmount[after[p]] # 0
    BY <1>0, <1>4, <1>5, <1>6, <2>1 DEF PairsArrived, Paired
  <2> QED
    BY <1>1, <1>3, <2>1 DEF PairsArrived, Paired, Matcher!Unmatched
<1>10. OneClaimPerCredit'
  <2>1. ASSUME NEW p \in Claims, NEW q \in Claims, after[p] # 0, after[p] = after[q]
        PROVE  p = q
    <3>1. CASE p \in Pending /\ q \in Pending
      BY <1>2, <1>4, <2>1, <3>1
    <3>2. CASE p \notin Pending /\ q \notin Pending
      BY <1>0, <1>4, <1>5, <2>1, <3>2 DEF OneClaimPerCredit, Paired
    <3>3. CASE ~ (p \in Pending <=> q \in Pending)
      BY <1>4, <1>6, <2>1, <3>3
    <3> QED
      BY <3>1, <3>2, <3>3
  <2> QED
    BY <1>3, <2>1 DEF OneClaimPerCredit, Paired, Matcher!Unmatched
<1>11. EveryMatchJustified'
  <2>1. ASSUME NEW p \in Claims, after[p] # 0
        PROVE  /\ after[p] \notin refunded
               /\ Matcher!SameE2E(p, after[p]) \/ Matcher!SameAmount(p, after[p])
    <3>1. CASE p \in Pending
      BY <1>2, <1>4, <2>1, <3>1 DEF Matcher!Eligible
    <3>2. CASE p \notin Pending
      BY <1>0, <1>4, <1>5, <2>1, <3>2 DEF EveryMatchJustified, Paired
    <3> QED
      BY <3>1, <3>2
  <2> QED
    BY <1>1, <1>3, <2>1
       DEF EveryMatchJustified, Paired, Matcher!Unmatched, Matcher!SameE2E, Matcher!SameAmount
<1> QED
  BY <1>8, <1>9, <1>10, <1>11 DEF PoolInv

\* What arrives is not paired, and changes no receipt or row that is.
LEMMA ArrivalKeeps ==
  ASSUME PoolInv, UNCHANGED pairing,
         /\ readAmount' \in [Claims -> ReadAmounts \cup {0}]
         /\ rowAmount' \in [Incoming -> ReadAmounts \cup {0}]
         /\ claimE2E' \in [Claims -> E2EIds \cup {NoE2E}]
         /\ rowE2E' \in [Incoming -> E2EIds \cup {NoE2E}],
         refunded' \subseteq Incoming,
         \A p \in Claims : readAmount[p] # 0 =>
           readAmount'[p] = readAmount[p] /\ claimE2E'[p] = claimE2E[p],
         \A k \in Incoming : rowAmount[k] # 0 =>
           /\ rowAmount'[k] = rowAmount[k] /\ rowE2E'[k] = rowE2E[k]
           /\ k \in refunded' => k \in refunded
  PROVE  PoolInv'
<1>1. PoolTypeOK /\ OneClaimPerCredit /\ EveryMatchJustified /\ PairsArrived
  BY DEF PoolInv
<1>2. ASSUME NEW p \in Claims, Paired(p)
      PROVE  /\ pairing[p] \in Incoming /\ readAmount[p] # 0 /\ rowAmount[pairing[p]] # 0
             /\ pairing[p] \notin refunded
             /\ Matcher!SameE2E(p, pairing[p]) \/ Matcher!SameAmount(p, pairing[p])
  BY <1>1, <1>2 DEF PoolTypeOK, PairsArrived, EveryMatchJustified, Paired
<1>3. ASSUME NEW p \in Claims, Paired(p)
      PROVE  /\ readAmount'[p] # 0 /\ rowAmount'[pairing[p]] # 0
             /\ pairing[p] \notin refunded'
             /\ Matcher!SameE2E(p, pairing[p])' \/ Matcher!SameAmount(p, pairing[p])'
  BY <1>2, <1>3 DEF Matcher!SameE2E, Matcher!SameAmount
<1>4. PoolTypeOK'
  BY <1>1 DEF PoolTypeOK, Matcher!Unmatched
<1>5. OneClaimPerCredit'
  BY <1>1 DEF OneClaimPerCredit, Paired, Matcher!Unmatched
<1>6. PairsArrived'
  BY <1>3 DEF PairsArrived, Paired, Matcher!Unmatched
<1>7. EveryMatchJustified'
  BY <1>3 DEF EveryMatchJustified, Paired, Matcher!Unmatched
<1> QED
  BY <1>4, <1>5, <1>6, <1>7 DEF PoolInv

LEMMA PoolStep ==
  ASSUME PoolTerms, PoolInv, [PoolNext]_poolVars
  PROVE  PoolInv'
<1>1. PoolTypeOK
  BY DEF PoolInv
<1>2. ASSUME NEW p \in Claims, NEW a \in ReadAmounts, NEW e \in E2EIds \cup {NoE2E},
             ReceiptArrives(p, a, e)
      PROVE  PoolInv'
  BY <1>1, <1>2, ArrivalKeeps DEF ReceiptArrives, PoolTypeOK
<1>3. ASSUME NEW k \in Incoming, NEW a \in ReadAmounts, NEW e \in E2EIds \cup {NoE2E},
             NEW r \in BOOLEAN, CreditArrives(k, a, e, r)
      PROVE  PoolInv'
  <2>1. /\ rowAmount[k] = 0 /\ UNCHANGED <<readAmount, claimE2E, pairing>>
        /\ rowAmount' = [rowAmount EXCEPT ![k] = a] /\ rowE2E' = [rowE2E EXCEPT ![k] = e]
        /\ refunded' \in {refunded, refunded \cup {k}}
    BY <1>3 DEF CreditArrives
  <2>2. \A j \in Incoming : rowAmount[j] # 0 =>
          /\ rowAmount'[j] = rowAmount[j] /\ rowE2E'[j] = rowE2E[j]
          /\ j \in refunded' => j \in refunded
    BY <1>1, <2>1 DEF PoolTypeOK
  <2> QED
    BY <1>1, <2>1, <2>2, ArrivalKeeps DEF PoolTypeOK
<1>4. CASE UNCHANGED poolVars
  BY <1>1, <1>4, ArrivalKeeps DEF poolVars, PoolTypeOK
<1> QED
  BY <1>2, <1>3, <1>4, SettleKeeps DEF PoolNext

LEMMA PoolStart ==
  ASSUME PoolTerms, PoolInit
  PROVE  PoolInv
<1>1. PoolTypeOK
  BY DEF PoolInit, PoolTypeOK
<1>2. \A p \in Claims : ~ Paired(p)
  BY DEF PoolInit, Paired
<1> QED
  BY <1>1, <1>2 DEF PoolInv, OneClaimPerCredit, EveryMatchJustified, PairsArrived

LEMMA PoolAlways ==
  ASSUME PoolTerms
  PROVE  PoolSpec => []PoolInv
<1>1. PoolInit => PoolInv
  BY PoolStart
<1>2. PoolInv /\ [PoolNext]_poolVars => PoolInv'
  BY PoolStep
<1> QED
  BY <1>1, <1>2, PTL DEF PoolSpec

\* Whatever receipts and rows arrive, in any order and number, and however many runs
\* there are: a row confirms one receipt at most, and only a real PIX income of the exact
\* amount or of the receipt's own identifier (I1 to I3; SettlementPool.MatchesJustified).
THEOREM MatchesAlwaysJustified ==
  ASSUME PoolTerms
  PROVE  PoolSpec => []MatchesJustified
<1>1. PoolInv => MatchesJustified
  BY DEF MatchesJustified, PoolInv
<1> QED
  BY <1>1, PoolAlways, PTL

\* A run leaves no receipt beside a free row that fits it.
LEMMA SettleLeavesNone ==
  ASSUME PoolTerms, PoolInv, Settle, NEW p \in Pending', NEW k \in FreeRows',
         Matcher!Eligible(k)
  PROVE  ~ Matcher!SameE2E(p, k) /\ ~ Matcher!SameAmount(p, k)
<1>0. Matcher!Unmatched = 0
  BY DEF Matcher!Unmatched
<1>1. PICK found :
        /\ found = Matcher!MatchCreditsToClaims(Pending, FreeRows)
        /\ pairing' = [c \in Claims |-> IF c \in Pending THEN found[c] ELSE pairing[c]]
        /\ UNCHANGED <<readAmount, claimE2E, rowAmount, rowE2E, refunded>>
        /\ Pending \in SUBSET (Nat \ {0}) /\ IsFiniteSet(Pending)
        /\ FreeRows \in SUBSET (Nat \ {0})
        /\ found \in [Pending -> FreeRows \cup {0}]
  BY SettleFacts
<1>2. p \in Claims /\ readAmount[p] # 0 /\ pairing'[p] = 0
  BY <1>1 DEF Pending, Matcher!Unmatched
<1>3. k \in Incoming /\ rowAmount[k] # 0 /\ \A c \in Claims : pairing'[c] # k
  BY <1>1 DEF FreeRows
<1>4. \A c \in Pending : c \in Claims /\ pairing[c] = 0
  BY <1>0 DEF Pending
<1>5. p \in Pending /\ found[p] = 0
  BY <1>0, <1>1, <1>2 DEF Pending
<1>6. k # 0
  BY <1>3 DEF PoolTerms
<1>7. k \in FreeRows
  BY <1>1, <1>3, <1>4, <1>6 DEF FreeRows
<1>8. \A c \in Pending : found[c] # k
  BY <1>1, <1>3, <1>4
<1> QED
  BY <1>1, <1>5, <1>7, <1>8, MatchFacts

\* An identifier goes before an amount.
LEMMA SettleRespectsE2E ==
  ASSUME PoolTerms, PoolInv, Settle, NEW p \in Pending, NEW q \in Pending, NEW k \in FreeRows,
         pairing'[q] = k, Matcher!SameE2E(p, k), ~ Matcher!SameE2E(q, k)
  PROVE  pairing'[p] \in Incoming \ {k} /\ Matcher!SameE2E(p, pairing'[p])
<1>1. PICK found :
        /\ found = Matcher!MatchCreditsToClaims(Pending, FreeRows)
        /\ pairing' = [c \in Claims |-> IF c \in Pending THEN found[c] ELSE pairing[c]]
        /\ Pending \in SUBSET (Nat \ {0}) /\ IsFiniteSet(Pending)
        /\ FreeRows \in SUBSET (Nat \ {0})
  BY SettleFacts
<1>2. pairing'[p] = found[p] /\ pairing'[q] = found[q]
  BY <1>1 DEF Pending
<1>3. found[p] \in FreeRows \ {k} /\ Matcher!SameE2E(p, found[p])
  BY <1>1, <1>2, MatchFacts
<1> QED
  BY <1>2, <1>3 DEF FreeRows

\* A run leaves no pending receipt beside a free row that fits it, and spends no row by
\* amount while a pending receipt carries its identifier (I5 and I7), in every run of
\* every history (SettlementPool.MatchesComplete).
THEOREM MatchesAlwaysComplete ==
  ASSUME PoolTerms
  PROVE  PoolSpec => MatchesComplete
<1>1. PoolInv /\ [PoolNext]_poolVars =>
        [Settle => \A p \in Pending', k \in FreeRows' :
                     Matcher!Eligible(k) =>
                       ~ Matcher!SameE2E(p, k) /\ ~ Matcher!SameAmount(p, k)]_poolVars
  BY SettleLeavesNone
<1>2. PoolInv /\ [PoolNext]_poolVars =>
        [Settle => \A p, q \in Pending, k \in FreeRows :
           (pairing'[q] = k /\ Matcher!SameE2E(p, k) /\ ~ Matcher!SameE2E(q, k))
             => /\ pairing'[p] \in Incoming \ {k}
                /\ Matcher!SameE2E(p, pairing'[p])]_poolVars
  BY SettleRespectsE2E
<1>3. PoolSpec => NothingLeftBehind
  BY <1>1, PoolAlways, PTL DEF PoolSpec, NothingLeftBehind
<1>4. PoolSpec => E2EHasPriority
  BY <1>2, PoolAlways, PTL DEF PoolSpec, E2EHasPriority
<1> QED
  BY <1>3, <1>4 DEF MatchesComplete

-----------------------------------------------------------------------------
(* The records of the borrowers.                                           *)

\* The shape of what is stored and of what is typed.
LEMMA PatchFacts ==
  ASSUME NEW patch \in Patches
  PROVE  /\ DOMAIN patch \subseteq Fields
         /\ "nationalId" \in DOMAIN patch => patch.nationalId \in Spellings
         /\ "phone" \in DOMAIN patch => patch.phone \in Phones
         /\ "limit" \in DOMAIN patch => patch.limit \in Limits
<1>1. CASE patch \in {[nationalId |-> s] : s \in Spellings}
  BY <1>1 DEF Fields
<1>2. CASE patch \in {[phone |-> p] : p \in Phones}
  BY <1>2 DEF Fields
<1>3. CASE patch \in {[nationalId |-> s, phone |-> p] : s \in Spellings, p \in Phones}
  BY <1>3 DEF Fields
<1>4. CASE patch \in {[limit |-> l] : l \in Limits}
  BY <1>4 DEF Fields
<1> QED
  BY <1>1, <1>2, <1>3, <1>4 DEF Patches, Changes

LEMMA NormalizedFacts ==
  ASSUME NEW typed \in Patches
  PROVE  /\ NormalizedIn(typed) \in Patches
         /\ "nationalId" \in DOMAIN NormalizedIn(typed) =>
              NormalizedIn(typed).nationalId.plain
<1>0. \A s \in Spellings : Normalized(s) \in Spellings /\ Normalized(s).plain
  BY DEF Spellings, Normalized
<1>1. CASE "nationalId" \notin DOMAIN typed
  BY <1>1 DEF NormalizedIn
<1>2. CASE \E s \in Spellings : typed = [nationalId |-> s]
  <2>1. PICK s \in Spellings : typed = [nationalId |-> s]
    BY <1>2
  <2>2. NormalizedIn(typed) = [nationalId |-> Normalized(s)]
    BY <2>1 DEF NormalizedIn
  <2> QED
    BY <1>0, <2>2 DEF Patches, Changes
<1>3. CASE \E s \in Spellings, p \in Phones : typed = [nationalId |-> s, phone |-> p]
  <2>1. PICK s \in Spellings, p \in Phones : typed = [nationalId |-> s, phone |-> p]
    BY <1>3
  <2>2. NormalizedIn(typed) = [nationalId |-> Normalized(s), phone |-> p]
    BY <2>1 DEF NormalizedIn
  <2> QED
    BY <1>0, <2>2 DEF Patches, Changes
<1> QED
  BY <1>1, <1>2, <1>3 DEF Patches, Changes

\* A row after a patch has what the patch has, and what it had.
LEMMA PresentFacts ==
  ASSUME NEW row \in Rows, NEW patch \in Patches
  PROVE  /\ PresentColumns(row, patch) \in Rows
         /\ \A f \in Fields : PresentColumns(row, patch)[f]
                                = IF f \in DOMAIN patch THEN patch[f] ELSE row[f]
         /\ PresentColumns(row, patch).nationalId
              = IF "nationalId" \in DOMAIN patch THEN patch.nationalId ELSE row.nationalId
<1> DEFINE n == IF "nationalId" \in DOMAIN patch THEN patch.nationalId ELSE row.nationalId
           p == IF "phone" \in DOMAIN patch THEN patch.phone ELSE row.phone
           l == IF "limit" \in DOMAIN patch THEN patch.limit ELSE row.limit
<1>1. n \in Spellings /\ p \in Phones /\ l \in Limits
  BY PatchFacts DEF Rows
<1>2. PresentColumns(row, patch) = [nationalId |-> n, phone |-> p, limit |-> l]
  BY DEF PresentColumns, Fields
<1> HIDE DEF n, p, l
<1>3. [nationalId |-> n, phone |-> p, limit |-> l] \in Rows
  BY <1>1 DEF Rows
<1>4. PresentColumns(row, patch).nationalId = n
  BY <1>2
<1> QED
  BY <1>2, <1>3, <1>4 DEF n, PresentColumns

LEMMA SpellingsDiffer ==
  ASSUME NEW s \in Spellings, NEW t \in Spellings, s.id = t.id, s.plain, t.plain
  PROVE  s = t
BY DEF Spellings

\* A row that is written takes no identifier of another, spelled as it is; one spelled
\* as it was typed comes with a proposal that was applied to its borrower.
LEMMA WriteKeeps ==
  ASSUME RecordInv, NEW b \in Borrowers, NEW row \in Rows, NEW patch,
         Write(b, row, patch),
         Unique(b, row.nationalId),
         \A f \in Fields : row[f] = IF f \in DOMAIN patch THEN patch[f] ELSE last[b][f],
         applied \subseteq applied', \A r \in applied' : request'[r] = request[r],
         ~ row.nationalId.plain => \E r \in applied' : request[r].borrower = b
  PROVE  /\ borrower' \in [Borrowers -> Rows \cup {Null}] /\ DOMAIN last' = Borrowers
         /\ PlainUnlessApplied' /\ NoFieldIsLost' /\ OneBorrowerPerId'
<1>1. /\ borrower \in [Borrowers -> Rows \cup {Null}] /\ DOMAIN last = Borrowers
      /\ NoFieldIsLost /\ OneBorrowerPerId /\ PlainUnlessApplied
  BY DEF RecordInv, RecordTypeOK
<1>2. /\ borrower' = [borrower EXCEPT ![b] = row]
      /\ \A c \in Borrowers : c # b => borrower'[c] = borrower[c]
      /\ borrower'[b] = row
  BY <1>1 DEF Write
<1>3. /\ DOMAIN last' = Borrowers
      /\ \A c \in Borrowers : c # b => last'[c] = last[c]
      /\ \A f \in Fields : last'[b][f] = IF f \in DOMAIN patch THEN patch[f] ELSE last[b][f]
  BY <1>1 DEF Write
<1>t. borrower' \in [Borrowers -> Rows \cup {Null}]
  BY <1>1, <1>2
<1>p. PlainUnlessApplied'
  <2> SUFFICES ASSUME NEW c \in Borrowers, borrower'[c] # Null,
                      ~ borrower'[c].nationalId.plain
               PROVE  \E r \in applied' : request'[r].borrower = c
    BY DEF PlainUnlessApplied
  <2>1. CASE c = b
    BY <1>2, <2>1
  <2>2. CASE c # b
    <3>1. PICK r \in applied : request[r].borrower = c
      BY <1>1, <1>2, <2>2 DEF PlainUnlessApplied
    <3>2. r \in applied' /\ request'[r] = request[r]
      OBVIOUS
    <3> QED
      BY <3>1, <3>2
  <2> QED
    BY <2>1, <2>2
<1>n. NoFieldIsLost'
  <2> SUFFICES ASSUME NEW c \in Borrowers, borrower'[c] # Null, NEW f \in Fields
               PROVE  borrower'[c][f] = last'[c][f]
    BY DEF NoFieldIsLost
  <2>1. CASE c = b
    BY <1>2, <1>3, <2>1
  <2>2. CASE c # b
    BY <1>1, <1>2, <1>3, <2>2 DEF NoFieldIsLost
  <2> QED
    BY <2>1, <2>2
<1>4. \A c \in Borrowers \ {b} : borrower'[c] # Null =>
        /\ borrower'[c].nationalId # row.nationalId
        /\ borrower'[c].nationalId \in Spellings /\ row.nationalId \in Spellings
  BY <1>1, <1>2 DEF Unique, Rows
<1>5. \A c, d \in Borrowers : c # d /\ borrower'[c] # Null /\ borrower'[d] # Null
        => borrower'[c].nationalId # borrower'[d].nationalId
  <2> SUFFICES ASSUME NEW c \in Borrowers, NEW d \in Borrowers, c # d,
                      borrower'[c] # Null, borrower'[d] # Null
               PROVE  borrower'[c].nationalId # borrower'[d].nationalId
    OBVIOUS
  <2>1. CASE c = b
    BY <1>2, <1>4, <2>1
  <2>2. CASE d = b
    BY <1>2, <1>4, <2>2
  <2>3. CASE c # b /\ d # b
    BY <1>1, <1>2, <2>3 DEF OneBorrowerPerId
  <2> QED
    BY <2>1, <2>2, <2>3
<1>6. \A c \in Borrowers : borrower'[c] # Null => borrower'[c].nationalId \in Spellings
  BY <1>t DEF Rows
<1>o. OneBorrowerPerId'
  <2> SUFFICES ASSUME NEW c \in Borrowers, NEW d \in Borrowers, c # d,
                      borrower'[c] # Null, borrower'[d] # Null,
                      borrower'[c].nationalId.id = borrower'[d].nationalId.id
               PROVE  \E r \in applied' : request'[r].borrower \in {c, d}
    BY <1>5 DEF OneBorrowerPerId
  <2>1. CASE borrower'[c].nationalId.plain /\ borrower'[d].nationalId.plain
    BY <1>5, <1>6, <2>1, SpellingsDiffer
  <2>2. CASE ~ borrower'[c].nationalId.plain
    BY <1>p, <2>2 DEF PlainUnlessApplied
  <2>3. CASE ~ borrower'[d].nationalId.plain
    BY <1>p, <2>3 DEF PlainUnlessApplied
  <2> QED
    BY <2>1, <2>2, <2>3
<1> QED
  BY <1>3, <1>t, <1>p, <1>n, <1>o

\* What a step leaves alone keeps what is said of it.
LEMMA RowsKept ==
  ASSUME RecordInv, UNCHANGED <<borrower, last>>, applied \subseteq applied',
         \A r \in applied : request'[r] # Null /\ request'[r].borrower = request[r].borrower
  PROVE  /\ borrower' \in [Borrowers -> Rows \cup {Null}] /\ DOMAIN last' = Borrowers
         /\ PlainUnlessApplied' /\ NoFieldIsLost' /\ OneBorrowerPerId'
<1>1. PlainUnlessApplied'
  BY DEF RecordInv, PlainUnlessApplied
<1>2. NoFieldIsLost'
  BY DEF RecordInv, NoFieldIsLost
<1>3. OneBorrowerPerId'
  <2> SUFFICES ASSUME NEW c \in Borrowers, NEW d \in Borrowers, c # d,
                      borrower'[c] # Null, borrower'[d] # Null
               PROVE  /\ borrower'[c].nationalId # borrower'[d].nationalId
                      /\ borrower'[c].nationalId.id = borrower'[d].nationalId.id =>
                           \E r \in applied' : request'[r].borrower \in {c, d}
    BY DEF OneBorrowerPerId
  <2>1. /\ borrower[c].nationalId # borrower[d].nationalId
        /\ borrower[c].nationalId.id = borrower[d].nationalId.id =>
             \E r \in applied : request[r].borrower \in {c, d}
    BY DEF RecordInv, OneBorrowerPerId
  <2> QED
    BY <2>1
<1> QED
  BY <1>1, <1>2, <1>3 DEF RecordInv, RecordTypeOK

LEMMA ReviewsKept ==
  ASSUME RecordInv, UNCHANGED <<request, review, applied, raced>>
  PROVE  /\ request' \in [Requests -> Proposals \cup {Null}]
         /\ review' \in [Reviewers -> Reviews \cup {Resting}]
         /\ ReviewsKnow' /\ AppliedExist' /\ DecisionsHold'
BY DEF RecordInv, RecordTypeOK, ReviewsKnow, UnderReview, AppliedExist, DecisionsHold

LEMMA CreateKeeps ==
  ASSUME RecordInv, NEW b \in Borrowers, Create(b)
  PROVE  RecordInv'
<1>1. PICK s \in Spellings, p \in Phones, l \in Limits :
        LET row == [nationalId |-> Normalized(s), phone |-> p, limit |-> l]
        IN Unique(b, row.nationalId) /\ Write(b, row, row)
           /\ UNCHANGED <<request, review, updates, applied, raced>>
  BY DEF Create
<1> DEFINE row == [nationalId |-> Normalized(s), phone |-> p, limit |-> l]
<1>2. Normalized(s) \in Spellings /\ Normalized(s).plain
  BY DEF Spellings, Normalized
<1>3. /\ row \in Rows /\ row.nationalId.plain /\ DOMAIN row = Fields
  BY <1>2 DEF Rows, Fields
<1>4. /\ Unique(b, row.nationalId) /\ Write(b, row, row)
      /\ UNCHANGED <<request, review, applied, raced>>
  BY <1>1
<1> HIDE DEF row
<1>5. /\ borrower' \in [Borrowers -> Rows \cup {Null}] /\ DOMAIN last' = Borrowers
      /\ PlainUnlessApplied' /\ NoFieldIsLost' /\ OneBorrowerPerId'
  BY <1>3, <1>4, WriteKeeps
<1> QED
  BY <1>4, <1>5, ReviewsKept DEF RecordInv, RecordTypeOK

LEMMA UpdateKeeps ==
  ASSUME RecordInv, NEW b \in Borrowers, Update(b)
  PROVE  RecordInv'
<1>1. PICK typed \in Patches :
        /\ borrower[b] # Null /\ Accepted(b, NormalizedIn(typed))
        /\ Write(b, PresentColumns(borrower[b], NormalizedIn(typed)), NormalizedIn(typed))
        /\ UNCHANGED <<request, review, applied, raced>>
  BY DEF Update
<1> DEFINE patch == NormalizedIn(typed)
           row == PresentColumns(borrower[b], patch)
<1>2. /\ patch \in Patches
      /\ "nationalId" \in DOMAIN patch => patch.nationalId.plain
  BY NormalizedFacts
<1>3. /\ borrower[b] \in Rows
      /\ \A f \in Fields : borrower[b][f] = last[b][f]
  BY <1>1 DEF RecordInv, RecordTypeOK, NoFieldIsLost
<1> HIDE DEF patch
<1>4. /\ row \in Rows
      /\ \A f \in Fields : row[f] = IF f \in DOMAIN patch THEN patch[f] ELSE borrower[b][f]
      /\ row.nationalId
           = IF "nationalId" \in DOMAIN patch THEN patch.nationalId ELSE borrower[b].nationalId
  BY <1>2, <1>3, PresentFacts
<1>5. Unique(b, row.nationalId)
  <2>1. CASE "nationalId" \in DOMAIN patch
    BY <1>1, <1>4, <2>1 DEF Accepted, patch
  <2>2. CASE "nationalId" \notin DOMAIN patch
    BY <1>1, <1>4, <2>2 DEF Unique, RecordInv, OneBorrowerPerId
  <2> QED
    BY <2>1, <2>2
<1>6. ~ row.nationalId.plain => \E r \in applied' : request[r].borrower = b
  BY <1>1, <1>2, <1>4 DEF RecordInv, PlainUnlessApplied
<1>7. Write(b, row, patch) /\ UNCHANGED <<request, review, applied, raced>>
  BY <1>1 DEF patch
<1> HIDE DEF row
<1>8. /\ borrower' \in [Borrowers -> Rows \cup {Null}] /\ DOMAIN last' = Borrowers
      /\ PlainUnlessApplied' /\ NoFieldIsLost' /\ OneBorrowerPerId'
  BY <1>3, <1>4, <1>5, <1>6, <1>7, WriteKeeps
<1> QED
  BY <1>7, <1>8, ReviewsKept DEF RecordInv, RecordTypeOK

LEMMA ProposeKeeps ==
  ASSUME RecordTerms, RecordInv, NEW r \in Requests, Propose(r)
  PROVE  RecordInv'
<1>1. PICK b \in Borrowers, c \in Changes :
        /\ request[r] = Null
        /\ request' = [request EXCEPT ![r] =
                         [borrower |-> b, changes |-> c, status |-> "PENDING"]]
        /\ UNCHANGED <<borrower, review, updates, applied, raced, last>>
  BY DEF Propose
<1>2. /\ request \in [Requests -> Proposals \cup {Null}]
      /\ review \in [Reviewers -> Reviews \cup {Resting}]
      /\ ReviewsKnow /\ AppliedExist /\ DecisionsHold
  BY DEF RecordInv, RecordTypeOK
<1>3. [borrower |-> b, changes |-> c, status |-> "PENDING"] \in Proposals
  BY DEF Proposals
<1>4. /\ request' \in [Requests -> Proposals \cup {Null}]
      /\ \A q \in Requests : q # r => request'[q] = request[q]
      /\ request'[r] # Null /\ request'[r].status = "PENDING"
  BY <1>1, <1>2, <1>3 DEF RecordTerms
<1>5. r \notin applied
  BY <1>1, <1>2 DEF AppliedExist
<1>6. \A q \in applied : request'[q] = request[q] /\ request'[q] # Null
  BY <1>2, <1>4, <1>5 DEF AppliedExist
<1>7. AppliedExist'
  BY <1>1, <1>2, <1>6 DEF AppliedExist
<1>8. ReviewsKnow'
  <2>1. \A v \in Reviewers, q \in Requests : UnderReview(v, q)' <=> UnderReview(v, q)
    BY <1>1 DEF UnderReview
  <2>2. \A v \in Reviewers, q \in Requests : UnderReview(v, q) => request'[q] = request[q]
    BY <1>1, <1>2, <1>4 DEF ReviewsKnow
  <2>3. UNCHANGED <<review, applied, raced>>
    BY <1>1
  <2> SUFFICES ASSUME NEW v \in Reviewers, NEW q \in Requests, UnderReview(v, q)
               PROVE  /\ request'[q] # Null /\ request'[q].borrower = review'[v].borrower
                      /\ review'[v].at = "apply" => review'[v].status = "APPROVED"
                      /\ review'[v].at = "mark" /\ review'[v].status = "APPROVED"
                           => q \in applied'
                      /\ q \notin raced' =>
                           /\ \A w \in Reviewers \ {v} : ~ UnderReview(w, q)'
                           /\ review'[v].status = "REJECTED" => q \notin applied'
    BY <2>1 DEF ReviewsKnow
  <2>4. request'[q] = request[q]
    BY <2>2
  <2> QED
    BY <1>2, <2>1, <2>3, <2>4 DEF ReviewsKnow
<1>9. DecisionsHold'
  <2> SUFFICES ASSUME NEW q \in Requests, request'[q] # Null
               PROVE  /\ request'[q].status = "APPROVED" => q \in applied'
                      /\ q \notin raced' /\ q \in applied' =>
                           \/ request'[q].status = "APPROVED"
                           \/ \E v \in Reviewers :
                                review'[v].at = "mark" /\ review'[v].request = q
    BY DEF DecisionsHold
  <2>1. CASE q = r
    BY <1>1, <1>4, <1>5, <2>1
  <2>2. CASE q # r
    BY <1>1, <1>2, <1>4, <2>2 DEF DecisionsHold
  <2> QED
    BY <2>1, <2>2
<1>10. /\ borrower' \in [Borrowers -> Rows \cup {Null}] /\ DOMAIN last' = Borrowers
       /\ PlainUnlessApplied' /\ NoFieldIsLost' /\ OneBorrowerPerId'
  BY <1>1, <1>6, RowsKept
<1> QED
  BY <1>1, <1>2, <1>4, <1>7, <1>8, <1>9, <1>10 DEF RecordInv, RecordTypeOK

LEMMA ReviewKeeps ==
  ASSUME RecordInv, NEW v \in Reviewers, NEW r \in Requests, Review(v, r)
  PROVE  RecordInv'
<1>1. PICK approve \in BOOLEAN :
        /\ review[v].at = "idle" /\ MayReview(r)
        /\ review' = [review EXCEPT ![v] =
             [at |-> IF approve THEN "apply" ELSE "mark", request |-> r,
              borrower |-> request[r].borrower, changes |-> request[r].changes,
              status |-> IF approve THEN "APPROVED" ELSE "REJECTED"]]
        /\ raced' = IF \E w \in Reviewers : review[w].at # "idle" /\ review[w].request = r
                    THEN raced \cup {r} ELSE raced
        /\ UNCHANGED <<borrower, request, updates, applied, last>>
  BY DEF Review
<1> DEFINE mine == [at |-> IF approve THEN "apply" ELSE "mark", request |-> r,
                    borrower |-> request[r].borrower, changes |-> request[r].changes,
                    status |-> IF approve THEN "APPROVED" ELSE "REJECTED"]
<1>2. /\ request \in [Requests -> Proposals \cup {Null}]
      /\ review \in [Reviewers -> Reviews \cup {Resting}]
      /\ ReviewsKnow /\ AppliedExist /\ DecisionsHold
  BY DEF RecordInv, RecordTypeOK
<1>3. request[r] # Null /\ request[r].status = "PENDING" /\ request[r] \in Proposals
  BY <1>1, <1>2 DEF MayReview
<1>4. /\ mine \in Reviews
      /\ mine.at # "idle" /\ mine.request = r /\ mine.borrower = request[r].borrower
      /\ mine.at = "apply" <=> mine.status = "APPROVED"
      /\ mine.at = "mark" <=> mine.status = "REJECTED"
  BY <1>3 DEF Proposals, Reviews
<1>5. /\ review' = [review EXCEPT ![v] = mine]
      /\ UNCHANGED <<borrower, request, applied, last>>
      /\ raced' = IF \E w \in Reviewers : UnderReview(w, r) THEN raced \cup {r} ELSE raced
  BY <1>1 DEF UnderReview
<1> HIDE DEF mine
<1>6. /\ review' \in [Reviewers -> Reviews \cup {Resting}]
      /\ \A w \in Reviewers : w # v => review'[w] = review[w]
      /\ review'[v] = mine
  BY <1>2, <1>4, <1>5
<1>7. \A w \in Reviewers, q \in Requests :
        UnderReview(w, q)' <=> IF w = v THEN q = r ELSE UnderReview(w, q)
  BY <1>4, <1>6 DEF UnderReview
<1>8. \A q \in Requests : ~ UnderReview(v, q)
  BY <1>1 DEF UnderReview
<1>9. r \notin raced' => r \notin applied /\ \A w \in Reviewers : ~ UnderReview(w, r)
  BY <1>2, <1>3, <1>5 DEF DecisionsHold, UnderReview
<1>10. ReviewsKnow'
  <2> SUFFICES ASSUME NEW w \in Reviewers, NEW q \in Requests, UnderReview(w, q)'
               PROVE  /\ request'[q] # Null /\ request'[q].borrower = review'[w].borrower
                      /\ review'[w].at = "apply" => review'[w].status = "APPROVED"
                      /\ review'[w].at = "mark" /\ review'[w].status = "APPROVED"
                           => q \in applied'
                      /\ q \notin raced' =>
                           /\ \A u \in Reviewers \ {w} : ~ UnderReview(u, q)'
                           /\ review'[w].status = "REJECTED" => q \notin applied'
    BY DEF ReviewsKnow
  <2>1. CASE w = v
    <3>1. q = r
      BY <1>7, <2>1
    <3>2. r \notin raced' => \A u \in Reviewers \ {w} : ~ UnderReview(u, r)'
      BY <1>7, <1>9, <2>1
    <3> QED
      BY <1>3, <1>4, <1>5, <1>6, <1>9, <2>1, <3>1, <3>2
  <2>2. CASE w # v
    <3>1. UnderReview(w, q) /\ review'[w] = review[w]
      BY <1>6, <1>7, <2>2
    <3>2. q \notin raced' => q \notin raced /\ q # r
      BY <1>5, <3>1
    <3>3. q \notin raced' => \A u \in Reviewers \ {w} : ~ UnderReview(u, q)'
      BY <1>2, <1>7, <3>1, <3>2 DEF ReviewsKnow
    <3> QED
      BY <1>2, <1>5, <3>1, <3>2, <3>3 DEF ReviewsKnow
  <2> QED
    BY <2>1, <2>2
<1>11. DecisionsHold'
  <2> SUFFICES ASSUME NEW q \in Requests, request'[q] # Null
               PROVE  /\ request'[q].status = "APPROVED" => q \in applied'
                      /\ q \notin raced' /\ q \in applied' =>
                           \/ request'[q].status = "APPROVED"
                           \/ \E u \in Reviewers :
                                review'[u].at = "mark" /\ review'[u].request = q
    BY DEF DecisionsHold
  <2>1. raced \subseteq raced'
    BY <1>5
  <2>2. \A u \in Reviewers : review[u].at = "mark" => review'[u] = review[u]
    BY <1>1, <1>6
  <2> QED
    BY <1>2, <1>5, <2>1, <2>2 DEF DecisionsHold
<1>12. AppliedExist'
  BY <1>2, <1>5 DEF AppliedExist
<1>13. /\ borrower' \in [Borrowers -> Rows \cup {Null}] /\ DOMAIN last' = Borrowers
       /\ PlainUnlessApplied' /\ NoFieldIsLost' /\ OneBorrowerPerId'
  BY <1>2, <1>5, RowsKept DEF AppliedExist
<1> QED
  BY <1>2, <1>5, <1>6, <1>10, <1>11, <1>12, <1>13 DEF RecordInv, RecordTypeOK

\* A review that ends, or is cut, leaves those of the others.
LEMMA RestingKeeps ==
  ASSUME RecordInv, NEW v \in Reviewers, review' = [review EXCEPT ![v] = Resting],
         UNCHANGED <<borrower, last, applied>>,
         DOMAIN request' = Requests, request' \in [Requests -> Proposals \cup {Null}],
         \A q \in Requests : request[q] # Null =>
           request'[q] # Null /\ request'[q].borrower = request[q].borrower,
         raced \subseteq raced'
  PROVE  /\ RecordTypeOK' /\ ReviewsKnow' /\ AppliedExist'
         /\ PlainUnlessApplied' /\ NoFieldIsLost' /\ OneBorrowerPerId'
<1>1. /\ review \in [Reviewers -> Reviews \cup {Resting}]
      /\ ReviewsKnow /\ AppliedExist
  BY DEF RecordInv, RecordTypeOK
<1>2. /\ review' \in [Reviewers -> Reviews \cup {Resting}]
      /\ \A w \in Reviewers : w # v => review'[w] = review[w]
      /\ review'[v].at = "idle"
  BY <1>1 DEF Resting
<1>3. \A w \in Reviewers, q \in Requests :
        UnderReview(w, q)' => w # v /\ UnderReview(w, q) /\ review'[w] = review[w]
  BY <1>2 DEF UnderReview
<1>4. ReviewsKnow'
  <2> SUFFICES ASSUME NEW w \in Reviewers, NEW q \in Requests, UnderReview(w, q)'
               PROVE  /\ request'[q] # Null /\ request'[q].borrower = review'[w].borrower
                      /\ review'[w].at = "apply" => review'[w].status = "APPROVED"
                      /\ review'[w].at = "mark" /\ review'[w].status = "APPROVED"
                           => q \in applied'
                      /\ q \notin raced' =>
                           /\ \A u \in Reviewers \ {w} : ~ UnderReview(u, q)'
                           /\ review'[w].status = "REJECTED" => q \notin applied'
    BY DEF ReviewsKnow
  <2>1. UnderReview(w, q) /\ review'[w] = review[w]
    BY <1>3
  <2>2. q \notin raced' => \A u \in Reviewers \ {w} : ~ UnderReview(u, q)'
    BY <1>1, <1>3, <2>1 DEF ReviewsKnow
  <2> QED
    BY <1>1, <2>1, <2>2 DEF ReviewsKnow
<1>5. AppliedExist'
  BY <1>1 DEF AppliedExist
<1>6. /\ borrower' \in [Borrowers -> Rows \cup {Null}] /\ DOMAIN last' = Borrowers
      /\ PlainUnlessApplied' /\ NoFieldIsLost' /\ OneBorrowerPerId'
  BY <1>1, RowsKept DEF AppliedExist
<1> QED
  BY <1>2, <1>4, <1>5, <1>6 DEF RecordTypeOK

LEMMA MarkKeeps ==
  ASSUME RecordTerms, RecordInv, NEW v \in Reviewers, Mark(v)
  PROVE  RecordInv'
<1> DEFINE r == review[v].request
<1>1. /\ request \in [Requests -> Proposals \cup {Null}]
      /\ review \in [Reviewers -> Reviews \cup {Resting}]
      /\ ReviewsKnow /\ AppliedExist /\ DecisionsHold
  BY DEF RecordInv, RecordTypeOK
<1>2. /\ review[v].at = "mark" /\ review[v] \in Reviews
      /\ request' = [request EXCEPT ![r].status = review[v].status]
      /\ review' = [review EXCEPT ![v] = Resting]
      /\ UNCHANGED <<borrower, updates, applied, raced, last>>
  BY <1>1 DEF Mark, Resting
<1>3. /\ r \in Requests /\ UnderReview(v, r)
      /\ review[v].status \in {"APPROVED", "REJECTED"}
  BY <1>2 DEF Reviews, UnderReview
<1>4. /\ request[r] # Null
      /\ review[v].status = "APPROVED" => r \in applied
      /\ r \notin raced /\ review[v].status = "REJECTED" => r \notin applied
  BY <1>1, <1>2, <1>3 DEF ReviewsKnow
<1> HIDE DEF r
<1> DEFINE marked == [request[r] EXCEPT !.status = review[v].status]
<1>5. request' = [request EXCEPT ![r] = marked]
  BY <1>2
<1>6. /\ marked \in Proposals /\ marked.borrower = request[r].borrower
      /\ marked.status = review[v].status
  BY <1>1, <1>3, <1>4 DEF Proposals
<1> HIDE DEF marked
<1>7. /\ request' \in [Requests -> Proposals \cup {Null}]
      /\ \A q \in Requests : q # r => request'[q] = request[q]
      /\ request'[r] = marked /\ request'[r] # Null
  BY <1>1, <1>3, <1>5, <1>6 DEF RecordTerms
<1>8. /\ RecordTypeOK' /\ ReviewsKnow' /\ AppliedExist'
      /\ PlainUnlessApplied' /\ NoFieldIsLost' /\ OneBorrowerPerId'
  <2>1. \A q \in Requests : request[q] # Null =>
          request'[q] # Null /\ request'[q].borrower = request[q].borrower
    BY <1>6, <1>7
  <2> QED
    BY <1>2, <1>7, <2>1, RestingKeeps
<1>9. DecisionsHold'
  <2> SUFFICES ASSUME NEW q \in Requests, request'[q] # Null
               PROVE  /\ request'[q].status = "APPROVED" => q \in applied'
                      /\ q \notin raced' /\ q \in applied' =>
                           \/ request'[q].status = "APPROVED"
                           \/ \E u \in Reviewers :
                                review'[u].at = "mark" /\ review'[u].request = q
    BY DEF DecisionsHold
  <2>1. CASE q = r
    BY <1>2, <1>3, <1>4, <1>6, <1>7, <2>1
  <2>2. CASE q # r
    <3>1. request'[q] = request[q]
      BY <1>7, <2>2
    <3>2. \A u \in Reviewers : review[u].at = "mark" /\ review[u].request = q
            => review'[u] = review[u]
      BY <1>1, <1>2, <2>2 DEF r
    <3> QED
      BY <1>1, <1>2, <3>1, <3>2 DEF DecisionsHold
  <2> QED
    BY <2>1, <2>2
<1> QED
  BY <1>8, <1>9 DEF RecordInv

LEMMA CutKeeps ==
  ASSUME RecordInv, NEW v \in Reviewers, Cut(v)
  PROVE  RecordInv'
<1>1. /\ request \in [Requests -> Proposals \cup {Null}]
      /\ review \in [Reviewers -> Reviews \cup {Resting}]
      /\ DecisionsHold
  BY DEF RecordInv, RecordTypeOK
<1>2. /\ raced' = raced \cup {review[v].request}
      /\ review' = [review EXCEPT ![v] = Resting]
      /\ UNCHANGED <<borrower, request, updates, applied, last>>
  BY DEF Cut
<1>3. /\ RecordTypeOK' /\ ReviewsKnow' /\ AppliedExist'
      /\ PlainUnlessApplied' /\ NoFieldIsLost' /\ OneBorrowerPerId'
  BY <1>1, <1>2, RestingKeeps
<1>4. DecisionsHold'
  <2> SUFFICES ASSUME NEW q \in Requests, request'[q] # Null
               PROVE  /\ request'[q].status = "APPROVED" => q \in applied'
                      /\ q \notin raced' /\ q \in applied' =>
                           \/ request'[q].status = "APPROVED"
                           \/ \E u \in Reviewers :
                                review'[u].at = "mark" /\ review'[u].request = q
    BY DEF DecisionsHold
  <2>1. q \notin raced' => q \notin raced /\ q # review[v].request
    BY <1>2
  <2>2. \A u \in Reviewers : review[u].request # review[v].request => review'[u] = review[u]
    BY <1>1, <1>2
  <2> QED
    BY <1>1, <1>2, <2>1, <2>2 DEF DecisionsHold
<1> QED
  BY <1>3, <1>4 DEF RecordInv

\* The changes of a request are in and its review goes on to mark it.
LEMMA ApplyWrites ==
  ASSUME RecordTerms, RecordInv, NEW v \in Reviewers, NEW b, b = review[v].borrower,
         review[v].at = "apply", Accepted(b, review[v].changes),
         Write(b, PresentColumns(borrower[b], review[v].changes), review[v].changes),
         applied' = applied \cup {review[v].request},
         review' = [review EXCEPT ![v].at = "mark"],
         UNCHANGED <<request, updates, raced>>,
         borrower[b] # Null
  PROVE  RecordInv'
<1> DEFINE r == review[v].request
           patch == review[v].changes
           row == PresentColumns(borrower[b], patch)
           next == [review[v] EXCEPT !.at = "mark"]
<1>1. /\ request \in [Requests -> Proposals \cup {Null}]
      /\ review \in [Reviewers -> Reviews \cup {Resting}]
      /\ borrower \in [Borrowers -> Rows \cup {Null}] /\ DOMAIN last = Borrowers
      /\ ReviewsKnow /\ AppliedExist /\ DecisionsHold
  BY DEF RecordInv, RecordTypeOK
<1>2. review[v] \in Reviews
  BY <1>1 DEF Resting
<1>3. /\ r \in Requests /\ b \in Borrowers /\ patch \in Patches /\ UnderReview(v, r)
  BY <1>2 DEF Reviews, UnderReview, Patches
<1>4. /\ request[r] # Null /\ request[r].borrower = b /\ review[v].status = "APPROVED"
      /\ r \notin raced => \A w \in Reviewers \ {v} : ~ UnderReview(w, r)
  BY <1>1, <1>3 DEF ReviewsKnow
<1>5. /\ next \in Reviews /\ next.at = "mark" /\ next.request = r /\ next.borrower = b
      /\ next.status = "APPROVED"
  BY <1>2, <1>4 DEF Reviews
<1>6. review' = [review EXCEPT ![v] = next]
  OBVIOUS
<1> HIDE DEF next
<1>7. /\ review' \in [Reviewers -> Reviews \cup {Resting}]
      /\ \A w \in Reviewers : w # v => review'[w] = review[w]
      /\ review'[v] = next
  BY <1>1, <1>5, <1>6
<1>8. /\ borrower[b] \in Rows /\ \A f \in Fields : borrower[b][f] = last[b][f]
  BY <1>1, <1>3 DEF RecordInv, NoFieldIsLost
<1>9. Write(b, row, patch) /\ Accepted(b, patch) /\ applied' = applied \cup {r}
  OBVIOUS
<1> HIDE DEF patch, r
<1>10. /\ row \in Rows
       /\ \A f \in Fields : row[f] = IF f \in DOMAIN patch THEN patch[f] ELSE borrower[b][f]
       /\ row.nationalId
            = IF "nationalId" \in DOMAIN patch THEN patch.nationalId ELSE borrower[b].nationalId
  BY <1>3, <1>8, PresentFacts
<1>11. Unique(b, row.nationalId)
  <2>1. CASE "nationalId" \in DOMAIN patch
    BY <1>9, <1>10, <2>1 DEF Accepted
  <2>2. CASE "nationalId" \notin DOMAIN patch
    BY <1>3, <1>10, <2>2 DEF Unique, RecordInv, OneBorrowerPerId
  <2> QED
    BY <2>1, <2>2
<1> HIDE DEF row
<1>12. /\ borrower' \in [Borrowers -> Rows \cup {Null}] /\ DOMAIN last' = Borrowers
       /\ PlainUnlessApplied' /\ NoFieldIsLost' /\ OneBorrowerPerId'
  <2>1. r \in applied' /\ applied \subseteq applied' /\ \A q \in applied' : request'[q] = request[q]
    BY <1>9
  <2>2. \E q \in applied' : request[q].borrower = b
    BY <1>4, <2>1
  <2>3. \A f \in Fields : row[f] = IF f \in DOMAIN patch THEN patch[f] ELSE last[b][f]
    BY <1>8, <1>10
  <2> QED
    BY <1>3, <1>9, <1>10, <1>11, <2>1, <2>2, <2>3, WriteKeeps
<1>13. \A w \in Reviewers, q \in Requests : UnderReview(w, q)' <=> UnderReview(w, q)
  BY <1>3, <1>5, <1>7 DEF UnderReview
<1>14. ReviewsKnow'
  <2> SUFFICES ASSUME NEW w \in Reviewers, NEW q \in Requests, UnderReview(w, q)
               PROVE  /\ request'[q] # Null /\ request'[q].borrower = review'[w].borrower
                      /\ review'[w].at = "apply" => review'[w].status = "APPROVED"
                      /\ review'[w].at = "mark" /\ review'[w].status = "APPROVED"
                           => q \in applied'
                      /\ q \notin raced' =>
                           /\ \A u \in Reviewers \ {w} : ~ UnderReview(u, q)'
                           /\ review'[w].status = "REJECTED" => q \notin applied'
    BY <1>13 DEF ReviewsKnow
  <2>1. q \notin raced' => \A u \in Reviewers \ {w} : ~ UnderReview(u, q)'
    BY <1>1, <1>13 DEF ReviewsKnow
  <2>2. CASE w = v
    <3>1. q = r
      BY <2>2 DEF UnderReview, r
    <3> QED
      BY <1>4, <1>5, <1>7, <1>9, <2>1, <2>2, <3>1
  <2>3. CASE w # v
    <3>1. review'[w] = review[w]
      BY <1>7, <2>3
    <3>2. q \notin raced' => q # r
      BY <1>4, <2>3
    <3> QED
      BY <1>1, <1>9, <2>1, <3>1, <3>2 DEF ReviewsKnow
  <2> QED
    BY <2>2, <2>3
<1>15. AppliedExist'
  BY <1>1, <1>3, <1>4, <1>9 DEF AppliedExist
<1>16. DecisionsHold'
  <2> SUFFICES ASSUME NEW q \in Requests, request[q] # Null
               PROVE  /\ request[q].status = "APPROVED" => q \in applied'
                      /\ q \notin raced /\ q \in applied' =>
                           \/ request[q].status = "APPROVED"
                           \/ \E u \in Reviewers :
                                review'[u].at = "mark" /\ review'[u].request = q
    BY DEF DecisionsHold
  <2>1. CASE q = r
    BY <1>5, <1>7, <1>9, <2>1
  <2>2. CASE q # r
    <3>1. \A u \in Reviewers : review[u].at = "mark" => review'[u] = review[u]
      BY <1>7
    <3> QED
      BY <1>1, <1>9, <2>2, <3>1 DEF DecisionsHold
  <2> QED
    BY <2>1, <2>2
<1> QED
  BY <1>1, <1>7, <1>12, <1>14, <1>15, <1>16 DEF RecordInv, RecordTypeOK

LEMMA ApplyKeeps ==
  ASSUME RecordTerms, RecordInv, BorrowersStay, NEW v \in Reviewers, Apply(v)
  PROVE  RecordInv'
<1>1. CASE Accepted(review[v].borrower, review[v].changes)
  <2>1. /\ review[v].at = "apply"
        /\ Write(review[v].borrower,
                 PresentColumns(borrower[review[v].borrower], review[v].changes),
                 review[v].changes)
        /\ applied' = applied \cup {review[v].request}
        /\ review' = [review EXCEPT ![v].at = "mark"]
        /\ UNCHANGED <<request, updates, raced>>
    BY <1>1 DEF Apply
  <2>2. review[v] \in Reviews
    BY <2>1 DEF RecordInv, RecordTypeOK, Resting
  <2>3. review[v].request \in Requests /\ UnderReview(v, review[v].request)
    BY <2>1, <2>2 DEF Reviews, UnderReview
  <2>4. /\ request[review[v].request] # Null
        /\ request[review[v].request].borrower = review[v].borrower
    BY <2>3 DEF RecordInv, ReviewsKnow
  <2>5. borrower[review[v].borrower] # Null
    BY <2>3, <2>4 DEF BorrowersStay
  <2> QED
    BY <1>1, <2>1, <2>5, ApplyWrites
<1>2. CASE ~ Accepted(review[v].borrower, review[v].changes)
  <2>1. /\ review[v].at = "apply"
        /\ review' = [review EXCEPT ![v] = Resting]
        /\ UNCHANGED <<borrower, applied, last, request, updates, raced>>
    BY <1>2 DEF Apply
  <2>2. /\ request \in [Requests -> Proposals \cup {Null}]
        /\ review \in [Reviewers -> Reviews \cup {Resting}]
        /\ DecisionsHold
    BY DEF RecordInv, RecordTypeOK
  <2>3. /\ RecordTypeOK' /\ ReviewsKnow' /\ AppliedExist'
        /\ PlainUnlessApplied' /\ NoFieldIsLost' /\ OneBorrowerPerId'
    BY <2>1, <2>2, RestingKeeps
  <2>4. \A u \in Reviewers : review[u].at = "mark" => review'[u] = review[u]
    BY <2>1, <2>2
  <2>5. DecisionsHold'
    BY <2>1, <2>2, <2>4 DEF DecisionsHold
  <2> QED
    BY <2>3, <2>5 DEF RecordInv
<1> QED
  BY <1>1, <1>2

LEMMA RecordStep ==
  ASSUME RecordTerms, RecordInv, BorrowersStay, BorrowersNext
  PROVE  RecordInv'
<1>1. CASE \E b \in Borrowers : Create(b) \/ Update(b)
  BY <1>1, CreateKeeps, UpdateKeeps
<1>2. CASE \E r \in Requests : Propose(r)
  BY <1>2, ProposeKeeps
<1>3. CASE \E v \in Reviewers : Apply(v) \/ Mark(v) \/ Cut(v)
  BY <1>3, ApplyKeeps, MarkKeeps, CutKeeps
<1>4. CASE \E v \in Reviewers, r \in Requests : Review(v, r)
  BY <1>4, ReviewKeeps
<1> QED
  BY <1>1, <1>2, <1>3, <1>4 DEF BorrowersNext

\* A borrower is never deleted, and a request is always about one.
LEMMA StayStep ==
  ASSUME RecordTerms, RecordInv, BorrowersStay, BorrowersNext
  PROVE  BorrowersStay'
<1>1. /\ request \in [Requests -> Proposals \cup {Null}]
      /\ borrower' \in [Borrowers -> Rows \cup {Null}]
      /\ borrower \in [Borrowers -> Rows \cup {Null}]
  BY RecordStep DEF RecordInv, RecordTypeOK
<1>2. \A r \in Requests : request[r] # Null => request[r].borrower \in Borrowers
  BY <1>1 DEF Proposals
<1>3. ASSUME NEW b, NEW row, NEW patch, Write(b, row, patch), row # Null,
             UNCHANGED request
      PROVE  BorrowersStay'
  <2>1. \A c \in Borrowers : borrower[c] # Null => borrower'[c] # Null
    BY <1>1, <1>3 DEF Write
  <2> QED
    BY <1>2, <1>3, <2>1 DEF BorrowersStay
<1>4. ASSUME UNCHANGED <<borrower, request>>
      PROVE  BorrowersStay'
  BY <1>4 DEF BorrowersStay
<1>5. ASSUME NEW b \in Borrowers, NEW row \in Rows, NEW patch \in Patches
      PROVE  row # Null /\ PresentColumns(row, patch) # Null
  <2>1. PresentColumns(row, patch) \in Rows
    BY <1>5, PresentFacts
  <2> QED
    BY <1>5, <2>1 DEF RecordTerms
<1>6. ASSUME NEW b \in Borrowers, Create(b)
      PROVE  BorrowersStay'
  <2>1. PICK s \in Spellings, p \in Phones, l \in Limits :
          LET row == [nationalId |-> Normalized(s), phone |-> p, limit |-> l]
          IN Write(b, row, row) /\ UNCHANGED request
    BY <1>6 DEF Create
  <2> DEFINE row == [nationalId |-> Normalized(s), phone |-> p, limit |-> l]
  <2>2. Normalized(s) \in Spellings
    BY DEF Spellings, Normalized
  <2>3. row \in Rows
    BY <2>2 DEF Rows
  <2>4. Write(b, row, row) /\ UNCHANGED request
    BY <2>1
  <2> HIDE DEF row
  <2>5. row # Null
    BY <2>3 DEF RecordTerms
  <2> QED
    BY <1>3, <2>4, <2>5
<1>7. ASSUME NEW b \in Borrowers, Update(b)
      PROVE  BorrowersStay'
  <2>1. PICK typed \in Patches :
          /\ borrower[b] # Null
          /\ Write(b, PresentColumns(borrower[b], NormalizedIn(typed)), NormalizedIn(typed))
          /\ UNCHANGED request
    BY <1>7 DEF Update
  <2>2. NormalizedIn(typed) \in Patches /\ borrower[b] \in Rows
    BY <1>1, <2>1, NormalizedFacts
  <2>3. PresentColumns(borrower[b], NormalizedIn(typed)) # Null
    BY <1>5, <2>2
  <2> QED
    BY <1>3, <2>1, <2>3
<1>8. ASSUME NEW r \in Requests, Propose(r)
      PROVE  BorrowersStay'
  <2>1. PICK b \in Borrowers, c \in Changes :
          /\ borrower[b] # Null /\ UNCHANGED borrower
          /\ request' = [request EXCEPT ![r] =
                           [borrower |-> b, changes |-> c, status |-> "PENDING"]]
    BY <1>8 DEF Propose
  <2>2. \A q \in Requests : request'[q] # Null =>
          \/ request[q] # Null /\ request'[q] = request[q]
          \/ request'[q].borrower = b
    BY <1>1, <2>1
  <2> QED
    BY <2>1, <2>2 DEF BorrowersStay
<1>9. ASSUME NEW v \in Reviewers, Mark(v)
      PROVE  BorrowersStay'
  <2>1. /\ request' = [request EXCEPT ![review[v].request].status = review[v].status]
        /\ UNCHANGED borrower /\ review[v].at = "mark"
    BY <1>9 DEF Mark
  <2>2. review[v] \in Reviews
    BY <2>1 DEF RecordInv, RecordTypeOK, Resting
  <2>3. review[v].request \in Requests /\ UnderReview(v, review[v].request)
    BY <2>1, <2>2 DEF Reviews, UnderReview
  <2>4. request[review[v].request] # Null
    BY <2>3 DEF RecordInv, ReviewsKnow
  <2> DEFINE r == review[v].request
             marked == [request[r] EXCEPT !.status = review[v].status]
  <2>5. marked.borrower = request[r].borrower
    BY <1>1, <2>3, <2>4 DEF Proposals
  <2>6. request' = [request EXCEPT ![r] = marked]
    BY <2>1
  <2> HIDE DEF marked
  <2>7. \A q \in Requests : request'[q] # Null =>
          request[q] # Null /\ request'[q].borrower = request[q].borrower
    BY <1>1, <2>4, <2>5, <2>6
  <2> QED
    BY <2>1, <2>7 DEF BorrowersStay
<1>10. ASSUME NEW v \in Reviewers, Apply(v)
       PROVE  BorrowersStay'
  <2>1. CASE UNCHANGED borrower
    BY <1>4, <1>10, <2>1 DEF Apply
  <2>2. CASE Write(review[v].borrower,
                   PresentColumns(borrower[review[v].borrower], review[v].changes),
                   review[v].changes)
    <3>1. review[v].at = "apply" /\ UNCHANGED request
      BY <1>10 DEF Apply
    <3>2. review[v] \in Reviews
      BY <3>1 DEF RecordInv, RecordTypeOK, Resting
    <3>3. /\ review[v].request \in Requests /\ UnderReview(v, review[v].request)
          /\ review[v].changes \in Patches
      BY <3>1, <3>2 DEF Reviews, UnderReview, Patches
    <3>4. borrower[review[v].borrower] # Null /\ review[v].borrower \in Borrowers
      BY <3>2, <3>3 DEF Reviews, RecordInv, ReviewsKnow, BorrowersStay
    <3>5. PresentColumns(borrower[review[v].borrower], review[v].changes) # Null
      BY <1>1, <1>5, <3>3, <3>4
    <3> QED
      BY <1>3, <2>2, <3>1, <3>5
  <2> QED
    BY <1>10, <2>1, <2>2 DEF Apply
<1>11. ASSUME NEW v \in Reviewers, Cut(v)
       PROVE  BorrowersStay'
  BY <1>4, <1>11 DEF Cut
<1>12. ASSUME NEW v \in Reviewers, NEW r \in Requests, Review(v, r)
       PROVE  BorrowersStay'
  BY <1>4, <1>12 DEF Review
<1> QED
  BY <1>6, <1>7, <1>8, <1>9, <1>10, <1>11, <1>12 DEF BorrowersNext

LEMMA RecordStart ==
  ASSUME RecordTerms, BorrowersInit
  PROVE  RecordInv /\ BorrowersStay
<1>1. \A v \in Reviewers : review[v] = Resting /\ review[v].at = "idle"
  BY DEF BorrowersInit, Resting
<1> QED
  BY <1>1 DEF BorrowersInit, RecordInv, RecordTypeOK, ReviewsKnow, UnderReview,
              AppliedExist, PlainUnlessApplied, DecisionsHold, NoFieldIsLost,
              OneBorrowerPerId, BorrowersStay

\* Who is told that a change was approved finds it made and one that was rejected was
\* not, updates and approvals undo no other field, and two borrowers have one
\* identifier only by a proposal: for any borrowers, proposals, reviewers and updates
\* (borrowers.repository.ts, change-requests.ts and their transactions).
THEOREM BorrowersAlwaysSafe ==
  ASSUME RecordTerms
  PROVE  BorrowersSpec => []BorrowersSafe
<1> DEFINE Inv == RecordInv /\ BorrowersStay
<1>1. BorrowersInit => Inv
  BY RecordStart
<1>2. Inv /\ [BorrowersNext]_recordVars => Inv'
  <2>1. ASSUME Inv, BorrowersNext PROVE Inv'
    BY <2>1, RecordStep, StayStep
  <2>2. ASSUME Inv, UNCHANGED recordVars PROVE Inv'
    <3>1. UNCHANGED <<borrower, request, review, applied, raced, last>>
      BY <2>2 DEF recordVars
    <3>2. BorrowersStay'
      BY <2>2, <3>1 DEF BorrowersStay
    <3>3. RecordInv'
      BY <2>2, <3>1, RowsKept, ReviewsKept DEF RecordInv, RecordTypeOK, AppliedExist
    <3> QED
      BY <3>2, <3>3
  <2> QED
    BY <2>1, <2>2
<1>3. Inv => BorrowersSafe
  BY DEF RecordInv, BorrowersSafe
<1> HIDE DEF Inv
<1> QED
  BY <1>1, <1>2, <1>3, PTL DEF BorrowersSpec

-----------------------------------------------------------------------------
(* DocumentValidation: what an outage does to a report.                     *)

\* Two sequences in a row have the elements of both.
LEMMA InARow ==
  ASSUME NEW S, NEW a \in Seq(S), NEW b \in Seq(S)
  PROVE  /\ a \o b \in Seq(S) /\ ToSet(a \o b) = ToSet(a) \cup ToSet(b)
         /\ Len(a \o b) = Len(a) + Len(b)
         /\ a \o b = <<>> <=> a = <<>> /\ b = <<>>
<1>1. /\ a \o b \in Seq(S) /\ Len(a \o b) = Len(a) + Len(b)
      /\ Len(a) \in Nat /\ Len(b) \in Nat
      /\ DOMAIN a = 1..Len(a) /\ DOMAIN b = 1..Len(b)
      /\ DOMAIN (a \o b) = 1..(Len(a) + Len(b))
      /\ \A i \in 1..Len(a) : (a \o b)[i] = a[i]
      /\ \A i \in 1..Len(b) : (a \o b)[i + Len(a)] = b[i]
  BY ConcatProperties, LenProperties
<1>2. ToSet(a \o b) = ToSet(a) \cup ToSet(b)
  <2> DEFINE c == a \o b
             m == Len(a)
             n == Len(b)
  <2>1. \A i \in 1..(m + n) : i \in 1..m \/ (i - m \in 1..n /\ i = (i - m) + m)
    BY <1>1
  <2>2. \A i \in 1..n : i + m \in 1..(m + n)
    BY <1>1
  <2>3. \A i \in 1..m : i \in 1..(m + n)
    BY <1>1
  <2>4. /\ DOMAIN a = 1..m /\ DOMAIN b = 1..n /\ DOMAIN c = 1..(m + n)
        /\ \A i \in 1..m : c[i] = a[i]
        /\ \A i \in 1..n : c[i + m] = b[i]
    BY <1>1
  <2> HIDE DEF c, m, n
  <2>5. ASSUME NEW x \in ToSet(c) PROVE x \in ToSet(a) \cup ToSet(b)
    <3>1. PICK i \in 1..(m + n) : x = c[i]
      BY <2>4, <2>5 DEF ToSet
    <3>2. CASE i \in 1..m
      BY <2>4, <3>1, <3>2 DEF ToSet
    <3>3. CASE i - m \in 1..n /\ i = (i - m) + m
      BY <2>4, <3>1, <3>3 DEF ToSet
    <3> QED
      BY <2>1, <3>2, <3>3
  <2>6. \A x \in ToSet(a) : x \in ToSet(c)
    BY <2>3, <2>4 DEF ToSet
  <2>7. \A x \in ToSet(b) : x \in ToSet(c)
    BY <2>2, <2>4 DEF ToSet
  <2>8. ToSet(c) = ToSet(a) \cup ToSet(b)
    BY <2>5, <2>6, <2>7
  <2> QED
    BY <2>8 DEF c
<1>3. a \o b = <<>> <=> a = <<>> /\ b = <<>>
  <2>1. \A s \in Seq(S) : s = <<>> <=> Len(s) = 0
    BY EmptySeq
  <2> QED
    BY <1>1, <2>1
<1> QED
  BY <1>1, <1>2, <1>3

\* The first k of some sequences one after the other.
Flat(f, s, k, S) ==
  /\ f \in Seq(S) /\ ToSet(f) = UNION {ToSet(s[j]) : j \in 1..k}
  /\ (f = <<>>) <=> \A j \in 1..k : s[j] = <<>>
  /\ (\A j \in 1..k : Len(s[j]) <= 1) => Len(f) <= k

LEMMA FlatStep ==
  ASSUME NEW S, NEW n \in Nat, NEW s \in [1..n -> Seq(S)], NEW k \in 1..n, k + 1 <= n,
         NEW f, Flat(f, s, k, S)
  PROVE  Flat(f \o s[k + 1], s, k + 1, S)
<1> DEFINE g == f \o s[k + 1]
<1>1. k + 1 \in 1..n /\ \A j \in 1..(k + 1) : j \in 1..k \/ j = k + 1
  OBVIOUS
<1>2. \A j \in 1..k : j \in 1..(k + 1)
  OBVIOUS
<1>3. f \in Seq(S) /\ s[k + 1] \in Seq(S)
  BY <1>1 DEF Flat
<1>4. /\ g \in Seq(S) /\ ToSet(g) = ToSet(f) \cup ToSet(s[k + 1])
      /\ Len(g) = Len(f) + Len(s[k + 1])
      /\ g = <<>> <=> f = <<>> /\ s[k + 1] = <<>>
  BY <1>3, InARow
<1>5. Len(f) \in Nat /\ Len(s[k + 1]) \in Nat
  BY <1>3, LenProperties
<1> HIDE DEF g
<1>6. ToSet(g) = UNION {ToSet(s[j]) : j \in 1..(k + 1)}
  BY <1>1, <1>2, <1>4 DEF Flat
<1>7. (g = <<>>) <=> \A j \in 1..(k + 1) : s[j] = <<>>
  BY <1>1, <1>2, <1>4 DEF Flat
<1>8. (\A j \in 1..(k + 1) : Len(s[j]) <= 1) => Len(g) <= k + 1
  <2> SUFFICES ASSUME \A j \in 1..(k + 1) : Len(s[j]) <= 1 PROVE Len(g) <= k + 1
    OBVIOUS
  <2>1. Len(f) <= k
    BY <1>2 DEF Flat
  <2>2. Len(s[k + 1]) <= 1
    BY <1>1
  <2> QED
    BY <1>4, <1>5, <2>1, <2>2
<1>9. Flat(g, s, k + 1, S)
  BY <1>4, <1>6, <1>7, <1>8 DEF Flat
<1> QED
  BY <1>9 DEF g

\* Up to five sequences flattened: FlattenSeq is defined by recursion, and this is what
\* satisfies its equation.
LEMMA Flattened ==
  ASSUME NEW S, NEW n \in 1..5, NEW s \in [1..n -> Seq(S)]
  PROVE  Flat(FlattenSeq(s), s, n, S)
<1> DEFINE two == s[1] \o s[2]
           three == two \o s[3]
           four == three \o s[4]
           five == four \o s[5]
           Body(h, i) == IF i = 1 THEN s[i] ELSE h[i - 1] \o s[i]
           w == [i \in 1..n |-> IF i = 1 THEN s[1] ELSE IF i = 2 THEN two
                                ELSE IF i = 3 THEN three ELSE IF i = 4 THEN four ELSE five]
           flatten == CHOOSE h : h = [i \in 1..n |-> Body(h, i)]
<1>1. s \in Seq(Seq(S)) /\ Len(s) = n /\ n # 0
  BY LenProperties
<1>2. w = [i \in 1..n |-> Body(w, i)]
  <2>1. 1 \in 1..n => w[1] = Body(w, 1)
    OBVIOUS
  <2>2. 2 \in 1..n => w[1] = s[1] /\ w[2] = two
    OBVIOUS
  <2>3. 3 \in 1..n => w[2] = two /\ w[3] = three
    <3> HIDE DEF two, three
    <3> QED
      OBVIOUS
  <2>4. 4 \in 1..n => w[3] = three /\ w[4] = four
    <3> HIDE DEF two, three, four
    <3> QED
      OBVIOUS
  <2>5. 5 \in 1..n => w[4] = four /\ w[5] = five
    <3> HIDE DEF two, three, four, five
    <3> QED
      OBVIOUS
  <2>6. /\ 2 \in 1..n => w[2] = Body(w, 2)
        /\ 3 \in 1..n => w[3] = Body(w, 3)
        /\ 4 \in 1..n => w[4] = Body(w, 4)
        /\ 5 \in 1..n => w[5] = Body(w, 5)
    <3>1. /\ Body(w, 2) = w[1] \o s[2] /\ Body(w, 3) = w[2] \o s[3]
          /\ Body(w, 4) = w[3] \o s[4] /\ Body(w, 5) = w[4] \o s[5]
      <4> HIDE DEF w
      <4>1. 2 - 1 = 1 /\ 3 - 1 = 2 /\ 4 - 1 = 3 /\ 5 - 1 = 4
        OBVIOUS
      <4>2. \A h : /\ Body(h, 2) = h[2 - 1] \o s[2] /\ Body(h, 3) = h[3 - 1] \o s[3]
                   /\ Body(h, 4) = h[4 - 1] \o s[4] /\ Body(h, 5) = h[5 - 1] \o s[5]
        OBVIOUS
      <4> HIDE DEF Body
      <4> QED
        BY <4>1, <4>2
    <3> HIDE DEF w, Body
    <3>2. 2 \in 1..n => w[2] = Body(w, 2)
      BY <2>2, <3>1
    <3>3. 3 \in 1..n => w[3] = Body(w, 3)
      BY <2>3, <3>1
    <3>4. 4 \in 1..n => w[4] = Body(w, 4)
      BY <2>4, <3>1
    <3>5. 5 \in 1..n => w[5] = Body(w, 5)
      BY <2>5, <3>1
    <3> QED
      BY <3>2, <3>3, <3>4, <3>5
  <2>7. \A i \in 1..n : i = 1 \/ i = 2 \/ i = 3 \/ i = 4 \/ i = 5
    OBVIOUS
  <2>8. w = [i \in 1..n |-> w[i]]
    OBVIOUS
  <2> HIDE DEF Body, w
  <2>9. \A i \in 1..n : w[i] = Body(w, i)
    BY <2>1, <2>6, <2>7
  <2> QED
    BY <2>8, <2>9
<1>3. flatten = [i \in 1..n |-> Body(flatten, i)]
  <2> HIDE DEF w, Body
  <2> QED
    BY <1>2
<1>4. FlattenSeq(s) = flatten[n]
  BY <1>1, Zenon DEF FlattenSeq
<1>5. flatten[1] = s[1] /\ \A i \in 2..n : flatten[i] = flatten[i - 1] \o s[i]
  <2>1. \A i \in 1..n : flatten[i] = Body(flatten, i)
    <3> HIDE DEF flatten, Body
    <3> QED
      BY <1>3
  <2> HIDE DEF flatten
  <2>2. 1 \in 1..n /\ \A i \in 2..n : i \in 1..n /\ i # 1
    OBVIOUS
  <2> QED
    BY <2>1, <2>2
<1> HIDE DEF flatten, w
<1>6. Flat(flatten[1], s, 1, S)
  <2>1. s[1] \in Seq(S) /\ 1..1 = {1}
    OBVIOUS
  <2> QED
    BY <1>5, <2>1 DEF Flat
<1>7. ASSUME NEW k \in 1..4, k + 1 <= n, Flat(flatten[k], s, k, S)
      PROVE  Flat(flatten[k + 1], s, k + 1, S)
  <2>1. k + 1 \in 2..n /\ (k + 1) - 1 = k
    BY <1>7
  <2>2. flatten[k + 1] = flatten[(k + 1) - 1] \o s[k + 1]
    BY <1>5, <2>1
  <2>3. flatten[k + 1] = flatten[k] \o s[k + 1]
    BY <2>1, <2>2
  <2>4. k \in 1..n /\ n \in Nat
    BY <1>7
  <2> QED
    BY <1>7, <2>3, <2>4, FlatStep
<1>8. /\ 2 <= n => Flat(flatten[2], s, 2, S)
      /\ 3 <= n => Flat(flatten[3], s, 3, S)
      /\ 4 <= n => Flat(flatten[4], s, 4, S)
      /\ 5 <= n => Flat(flatten[5], s, 5, S)
  <2>2. 2 <= n => Flat(flatten[2], s, 2, S)
    BY <1>6, <1>7
  <2>3. 3 <= n => Flat(flatten[3], s, 3, S)
    BY <1>7, <2>2
  <2>4. 4 <= n => Flat(flatten[4], s, 4, S)
    BY <1>7, <2>3
  <2>5. 5 <= n => Flat(flatten[5], s, 5, S)
    BY <1>7, <2>4
  <2> QED
    BY <2>2, <2>3, <2>4, <2>5
<1>9. Flat(flatten[n], s, n, S)
  <2>1. n = 1 \/ n = 2 \/ n = 3 \/ n = 4 \/ n = 5
    OBVIOUS
  <2> QED
    BY <1>6, <1>8, <2>1
<1> QED
  BY <1>4, <1>9

Severities == {"CRITICA", "ALTA", "MEDIA", "BAJA"}

\* One alert, or none.
LEMMA OneAlert ==
  /\ <<>> \in Seq(Severities) /\ ToSet(<<>>) = {} /\ Len(<<>>) = 0
  /\ \A severity \in Severities :
       /\ <<severity>> \in Seq(Severities) /\ ToSet(<<severity>>) = {severity}
       /\ Len(<<severity>>) = 1 /\ <<severity>> # <<>>
<1>1. ToSet(<<>>) = {}
  BY DEF ToSet
<1>2. ASSUME NEW severity \in Severities PROVE ToSet(<<severity>>) = {severity}
  BY DEF ToSet
<1> QED
  BY <1>1, <1>2

\* Alerts in a row are alerts.
LEMMA Joined ==
  /\ <<>> \in Seq(Severities)
  /\ <<"CRITICA">> \in Seq(Severities) /\ <<"ALTA">> \in Seq(Severities)
  /\ <<"MEDIA">> \in Seq(Severities) /\ <<"BAJA">> \in Seq(Severities)
  /\ \A a, b \in Seq(Severities) : a \o b \in Seq(Severities)
<1>1. \A a, b \in Seq(Severities) : a \o b \in Seq(Severities)
  BY InARow
<1> QED
  BY <1>1, OneAlert DEF Severities

\* The answers of the sources are alerts.
LEMMA AnswersAreAlerts ==
  ASSUME NEW docs, NEW l \in Lookups
  PROVE  Answer(docs, l) \in Seq(Severities)
<1>1. \A b, rec : CrossBusiness(b, rec) \in Seq(Severities)
  BY Joined DEF CrossBusiness, Alert
<1>2. \A rec : CrossIssuer(rec) \in Seq(Severities)
  BY Joined DEF CrossIssuer, Alert
<1>3. \A u, rec : CrossAddress(u, rec) \in Seq(Severities)
  BY Joined DEF CrossAddress, Alert
<1>4. \A i, rec : CrossIdentity(i, rec) \in Seq(Severities)
  BY Joined DEF CrossIdentity, Alert
<1>5. CASE l = "business"
  BY <1>1, <1>5, Joined DEF Answer
<1>6. CASE l = "issuer"
  BY <1>2, <1>6, Joined DEF Answer
<1>7. CASE l = "cep"
  BY <1>3, <1>7, Joined DEF Answer
<1>8. CASE l = "ddd"
  BY <1>8, Joined DEF Answer, Alert
<1>9. CASE l = "cpf"
  BY <1>4, <1>9, Joined DEF Answer
<1> QED
  BY <1>5, <1>6, <1>7, <1>8, <1>9 DEF Lookups

\* Nobody is rejected for what the documents say of each other.
LEMMA CoherenceIsMild ==
  ASSUME NEW docs, NEW partners
  PROVE  /\ Coherence(docs, partners) \in Seq(Severities)
         /\ "CRITICA" \notin ToSet(Coherence(docs, partners))
<1>1. \A a, b : /\ a \in {<<>>, <<"ALTA">>} /\ b \in {<<>>, <<"MEDIA">>}
                => a \o b \in Seq(Severities) /\ "CRITICA" \notin ToSet(a \o b)
  <2> SUFFICES ASSUME NEW a \in {<<>>, <<"ALTA">>}, NEW b \in {<<>>, <<"MEDIA">>}
               PROVE  a \o b \in Seq(Severities) /\ "CRITICA" \notin ToSet(a \o b)
    OBVIOUS
  <2>1. a \in Seq(Severities) /\ b \in Seq(Severities)
    BY Joined
  <2>2. "CRITICA" \notin ToSet(a) /\ "CRITICA" \notin ToSet(b)
    BY OneAlert DEF Severities
  <2> QED
    BY <2>1, <2>2, InARow
<1>2. PICK a, b : /\ a \in {<<>>, <<"ALTA">>} /\ b \in {<<>>, <<"MEDIA">>}
                  /\ Coherence(docs, partners) = a \o b
  BY DEF Coherence, Alert
<1> QED
  BY <1>1, <1>2

\* What each document says alone.
LEMMA LocalIsAlerts ==
  ASSUME ValidationTerms, NEW docs, AreDocuments(docs)
  PROVE  Local(docs) \in Seq(Severities)
<1>1. \A i : ReviewIdentity(i) \in Seq(Severities)
  BY Joined DEF ReviewIdentity, Alert
<1>2. \A b : ReviewBusiness(b) \in Seq(Severities)
  BY Joined DEF ReviewBusiness, Alert
<1>3. \A line, amount : ReviewLine(line, amount) \in Seq(Severities)
  BY Joined DEF ReviewLine, Alert
<1>4. \A u : ReviewUtility(u) \in Seq(Severities)
  BY <1>3, Joined DEF ReviewUtility, Alert
<1>5. \A t \in Documents \ {"photo"} :
        Told(docs[t]) => ReviewMetadata(docs[t].file) \in Seq(Severities)
  <2> SUFFICES ASSUME NEW t \in Documents \ {"photo"}, Told(docs[t])
               PROVE  ReviewMetadata(docs[t].file) \in Seq(Severities)
    OBVIOUS
  <2> DEFINE file == docs[t].file
             marks == [k \in 1..file.editors |-> "ALTA"]
  <2>1. Told(file) => file.editors \in Nat
    BY DEF AreDocuments, ValidationTerms, Told, Documents
  <2>2. Told(file) => marks \in Seq(Severities)
    BY <2>1 DEF Severities
  <2> HIDE DEF file, marks
  <2>3. ~ Told(file) => ReviewMetadata(file) = <<>>
    BY DEF ReviewMetadata
  <2>4. Told(file) => ReviewMetadata(file) = marks \o Alert("MEDIA", file.touched)
    BY DEF ReviewMetadata, marks
  <2>5. Told(file) => ReviewMetadata(file) \in {marks \o <<>>, marks \o <<"MEDIA">>}
    BY <2>4 DEF Alert
  <2>6. ReviewMetadata(file) \in Seq(Severities)
    BY <2>2, <2>3, <2>5, Joined
  <2> QED
    BY <2>6 DEF file
<1> DEFINE order == <<"identity", "business", "photo", "utility">>
           Of(t) == IF ~ Told(docs[t]) THEN <<"MEDIA">>
                    ELSE CASE t = "identity" -> ReviewIdentity(docs[t]) \o ReviewMetadata(docs[t].file)
                           [] t = "business" -> ReviewBusiness(docs[t]) \o ReviewMetadata(docs[t].file)
                           [] t = "photo" -> <<>>
                           [] t = "utility" -> ReviewUtility(docs[t]) \o ReviewMetadata(docs[t].file)
           s == [k \in 1..4 |-> Of(order[k])]
<1>6. \A t \in Documents : Of(t) \in Seq(Severities)
  <2>1. Of("identity") \in Seq(Severities)
    BY <1>1, <1>5, Joined DEF Documents
  <2>2. Of("business") \in Seq(Severities)
    BY <1>2, <1>5, Joined DEF Documents
  <2>3. Of("photo") \in Seq(Severities)
    BY Joined
  <2>4. Of("utility") \in Seq(Severities)
    BY <1>4, <1>5, Joined DEF Documents
  <2> HIDE DEF Of
  <2> QED
    BY <2>1, <2>2, <2>3, <2>4 DEF Documents
<1>7. \A k \in 1..4 : order[k] \in Documents
  BY DEF Documents
<1>8. Local(docs) = FlattenSeq(s)
  BY DEF Local
<1> HIDE DEF Of, order
<1>9. s \in [1..4 -> Seq(Severities)]
  BY <1>6, <1>7
<1> HIDE DEF s
<1>10. Flat(FlattenSeq(s), s, 4, Severities)
  BY <1>9, Flattened
<1> QED
  BY <1>8, <1>10 DEF Flat

\* A critical alert rejects, and nothing else.
LEMMA RejectedIff ==
  ASSUME NEW alerts
  PROVE  (Verdict(alerts) = "rejected") <=> "CRITICA" \in ToSet(alerts)
BY DEF Verdict

\* What the sources add to a report.
Says(docs, down, l) ==
  IF l \notin Asked(docs) THEN <<>>
  ELSE IF l \in down THEN Unavailable(docs, l) ELSE Answer(docs, l)

\* The alerts of a report, by where they come from.
LEMMA AlertsAre ==
  ASSUME ValidationTerms, NEW docs, AreDocuments(docs), NEW down
  PROVE  \E middle \in Seq(Severities) :
           LET local == Local(docs)
               coherence == Coherence(docs, Partners(docs, down))
           IN /\ Alerts(docs, down) = (local \o middle) \o coherence
              /\ local \in Seq(Severities) /\ coherence \in Seq(Severities)
              /\ ToSet(middle) = UNION {ToSet(Says(docs, down, l)) : l \in Lookups}
              /\ (middle = <<>>) <=> \A l \in Lookups : Says(docs, down, l) = <<>>
              /\ (\A l \in Lookups : Len(Says(docs, down, l)) <= 1) => Len(middle) <= 5
<1> DEFINE order == <<"business", "issuer", "cep", "ddd", "cpf">>
           s == [k \in 1..5 |-> Says(docs, down, order[k])]
           middle == FlattenSeq(s)
<1>1. /\ \A k \in 1..5 : order[k] \in Lookups
      /\ \A l \in Lookups : \E k \in 1..5 : order[k] = l
  <2>1. \A k \in 1..5 : k = 1 \/ k = 2 \/ k = 3 \/ k = 4 \/ k = 5
    OBVIOUS
  <2>2. /\ order[1] = "business" /\ order[2] = "issuer" /\ order[3] = "cep"
        /\ order[4] = "ddd" /\ order[5] = "cpf"
    OBVIOUS
  <2>3. 1 \in 1..5 /\ 2 \in 1..5 /\ 3 \in 1..5 /\ 4 \in 1..5 /\ 5 \in 1..5
    OBVIOUS
  <2> HIDE DEF order
  <2> QED
    BY <2>1, <2>2, <2>3 DEF Lookups
<1>2. \A l \in Lookups : Says(docs, down, l) \in Seq(Severities)
  BY AnswersAreAlerts, Joined DEF Says, Unavailable
<1>3. Alerts(docs, down)
        = (Local(docs) \o middle) \o Coherence(docs, Partners(docs, down))
  BY DEF Alerts, Says
<1> HIDE DEF order
<1>4. s \in [1..5 -> Seq(Severities)] /\ \A k \in 1..5 : s[k] = Says(docs, down, order[k])
  BY <1>1, <1>2
<1>5. Flat(FlattenSeq(s), s, 5, Severities)
  BY <1>4, Flattened
<1> HIDE DEF s
<1>6. Flat(middle, s, 5, Severities)
  BY <1>5
<1> HIDE DEF middle
<1>7. ToSet(middle) = UNION {ToSet(Says(docs, down, l)) : l \in Lookups}
  <2>1. ToSet(middle) = UNION {ToSet(s[k]) : k \in 1..5}
    BY <1>6 DEF Flat
  <2>2. ASSUME NEW x \in ToSet(middle)
        PROVE  x \in UNION {ToSet(Says(docs, down, l)) : l \in Lookups}
    <3>1. PICK k \in 1..5 : x \in ToSet(s[k])
      BY <2>1
    <3>2. order[k] \in Lookups /\ x \in ToSet(Says(docs, down, order[k]))
      BY <1>1, <1>4, <3>1
    <3> QED
      BY <3>2
  <2>3. ASSUME NEW l \in Lookups, NEW x \in ToSet(Says(docs, down, l))
        PROVE  x \in ToSet(middle)
    <3>1. PICK k \in 1..5 : order[k] = l
      BY <1>1
    <3>2. x \in ToSet(s[k])
      BY <1>4, <2>3, <3>1
    <3> QED
      BY <2>1, <3>2
  <2> QED
    BY <2>2, <2>3
<1>8. (middle = <<>>) <=> \A l \in Lookups : Says(docs, down, l) = <<>>
  BY <1>1, <1>4, <1>6 DEF Flat
<1>9. (\A l \in Lookups : Len(Says(docs, down, l)) <= 1) => Len(middle) <= 5
  BY <1>1, <1>4, <1>6 DEF Flat
<1>10. middle \in Seq(Severities)
  BY <1>6 DEF Flat
<1> QED
  BY <1>3, <1>7, <1>8, <1>9, <1>10, LocalIsAlerts, CoherenceIsMild

\* A report has a critical alert exactly when its documents have one by themselves or
\* one of the sources that answered has.
LEMMA CriticalIff ==
  ASSUME ValidationTerms, NEW docs, AreDocuments(docs), NEW down
  PROVE  /\ Alerts(docs, down) \in Seq(Severities)
         /\ "CRITICA" \in ToSet(Alerts(docs, down))
              <=> \/ "CRITICA" \in ToSet(Local(docs))
                  \/ \E l \in Asked(docs) \ down : "CRITICA" \in ToSet(Answer(docs, l))
<1> DEFINE local == Local(docs)
           coherence == Coherence(docs, Partners(docs, down))
<1>1. PICK middle \in Seq(Severities) :
        /\ Alerts(docs, down) = (local \o middle) \o coherence
        /\ local \in Seq(Severities) /\ coherence \in Seq(Severities)
        /\ ToSet(middle) = UNION {ToSet(Says(docs, down, l)) : l \in Lookups}
  BY AlertsAre
<1>2. "CRITICA" \notin ToSet(coherence)
  BY CoherenceIsMild
<1> HIDE DEF local, coherence
<1>3. local \o middle \in Seq(Severities)
      /\ ToSet(local \o middle) = ToSet(local) \cup ToSet(middle)
  BY <1>1, InARow
<1>4. /\ Alerts(docs, down) \in Seq(Severities)
      /\ ToSet(Alerts(docs, down)) = (ToSet(local) \cup ToSet(middle)) \cup ToSet(coherence)
  <2> DEFINE front == local \o middle
  <2>1. front \in Seq(Severities) /\ coherence \in Seq(Severities)
    BY <1>1, <1>3
  <2>2. ToSet(front) = ToSet(local) \cup ToSet(middle) /\ Alerts(docs, down) = front \o coherence
    BY <1>1, <1>3
  <2> HIDE DEF front
  <2>3. /\ front \o coherence \in Seq(Severities)
        /\ ToSet(front \o coherence) = ToSet(front) \cup ToSet(coherence)
    BY <2>1, InARow
  <2> QED
    BY <2>2, <2>3
<1>5. Asked(docs) \subseteq Lookups
  BY DEF Asked
<1>6. "CRITICA" \notin ToSet(<<>>) /\ "CRITICA" \notin ToSet(<<"BAJA">>)
  BY OneAlert DEF Severities
<1>7. \A l \in Lookups : ("CRITICA" \in ToSet(Says(docs, down, l)))
                           <=> l \in Asked(docs) \ down /\ "CRITICA" \in ToSet(Answer(docs, l))
  BY <1>6 DEF Says, Unavailable
<1>8. ("CRITICA" \in ToSet(middle))
        <=> \E l \in Asked(docs) \ down : "CRITICA" \in ToSet(Answer(docs, l))
  BY <1>1, <1>5, <1>7
<1>9. ("CRITICA" \in ToSet(Alerts(docs, down)))
        <=> \/ "CRITICA" \in ToSet(local)
            \/ \E l \in Asked(docs) \ down : "CRITICA" \in ToSet(Answer(docs, l))
  BY <1>2, <1>4, <1>8
<1> QED
  BY <1>4, <1>9 DEF local

\* A score is a percentage.
LEMMA ScoreOf ==
  ASSUME NEW alerts \in Seq(Severities)
  PROVE  /\ Score(alerts) \in 0..100
         /\ ToSet(alerts) \subseteq {"BAJA"} /\ Len(alerts) <= 5 => Score(alerts) <= 25
<1> DEFINE f == [k \in DOMAIN alerts |-> Weight[alerts[k]]]
           total == Total(f)
<1>1. /\ DOMAIN alerts = 1..Len(alerts) /\ Len(alerts) \in Nat
      /\ \A k \in DOMAIN alerts : alerts[k] \in Severities
  BY LenProperties, ElementOfSeq
<1>2. f \in [DOMAIN alerts -> Nat] /\ IsFiniteSet(DOMAIN alerts)
  <2>1. \A v \in Severities : Weight[v] \in Nat
    BY DEF Severities, Weight
  <2>2. IsFiniteSet(1..Len(alerts))
    BY <1>1, FS_Interval
  <2> QED
    BY <1>1, <2>1, <2>2
<1>3. total \in Nat
  <2>1. SumOver(f, DOMAIN alerts) \in Nat
    BY <1>2, SumNat
  <2> QED
    BY <1>2, <2>1 DEF Total
<1>4. Score(alerts) = IF total < 100 THEN total ELSE 100
  BY DEF Score
<1>5. ASSUME ToSet(alerts) \subseteq {"BAJA"}, Len(alerts) <= 5 PROVE total <= 25
  <2>1. \A k \in DOMAIN alerts : alerts[k] = "BAJA"
    BY <1>5 DEF ToSet
  <2>2. \A k \in DOMAIN alerts : f[k] = 5
    BY <2>1 DEF Weight
  <2>3. Cardinality(DOMAIN alerts) = Len(alerts)
    <3>1. Cardinality(1..Len(alerts)) = Len(alerts)
      BY <1>1, FS_Interval
    <3> QED
      BY <1>1, <3>1
  <2> HIDE DEF f
  <2>4. SumOver(f, DOMAIN alerts) = 5 * Len(alerts)
    BY <1>2, <2>2, <2>3, SumConst
  <2>5. total = 5 * Len(alerts)
    BY <1>2, <2>4 DEF Total
  <2> HIDE DEF total
  <2> QED
    BY <1>1, <1>5, <2>5
<1> HIDE DEF total
<1> QED
  BY <1>3, <1>4, <1>5

\* What is rejected with some sources down is rejected with every source answering.
LEMMA OutageRejectsNobody ==
  ASSUME ValidationTerms, NEW docs, AreDocuments(docs), NEW down,
         Verdict(Alerts(docs, down)) = "rejected"
  PROVE  Verdict(Alerts(docs, {})) = "rejected"
<1>1. \/ "CRITICA" \in ToSet(Local(docs))
      \/ \E l \in Asked(docs) \ down : "CRITICA" \in ToSet(Answer(docs, l))
  BY CriticalIff, RejectedIff
<1>2. "CRITICA" \in ToSet(Alerts(docs, {}))
        <=> \/ "CRITICA" \in ToSet(Local(docs))
            \/ \E l \in Asked(docs) \ {} : "CRITICA" \in ToSet(Answer(docs, l))
  BY CriticalIff
<1>3. "CRITICA" \in ToSet(Alerts(docs, {}))
  BY <1>1, <1>2
<1> QED
  BY <1>3, RejectedIff

\* A report rejects exactly when the local rules do, or a source that answered would on
\* its own.
LEMMA EachSourceRejects ==
  ASSUME ValidationTerms, NEW docs, AreDocuments(docs), NEW down
  PROVE  Verdict(Alerts(docs, down)) = "rejected"
           <=> \/ Verdict(Local(docs)) = "rejected"
               \/ \E l \in Asked(docs) \ down :
                    Verdict(Alerts(docs, Lookups \ {l})) = "rejected"
<1>1. ASSUME NEW l \in Asked(docs)
      PROVE  Verdict(Alerts(docs, Lookups \ {l})) = "rejected"
               <=> \/ "CRITICA" \in ToSet(Local(docs))
                   \/ "CRITICA" \in ToSet(Answer(docs, l))
  <2>1. Asked(docs) \ (Lookups \ {l}) = {l}
    BY DEF Asked
  <2>2. "CRITICA" \in ToSet(Alerts(docs, Lookups \ {l}))
          <=> \/ "CRITICA" \in ToSet(Local(docs))
              \/ \E k \in Asked(docs) \ (Lookups \ {l}) : "CRITICA" \in ToSet(Answer(docs, k))
    BY CriticalIff
  <2>3. "CRITICA" \in ToSet(Alerts(docs, Lookups \ {l}))
          <=> \/ "CRITICA" \in ToSet(Local(docs))
              \/ "CRITICA" \in ToSet(Answer(docs, l))
    BY <2>1, <2>2
  <2> QED
    BY <2>3, RejectedIff
<1>2. "CRITICA" \in ToSet(Alerts(docs, down))
        <=> \/ "CRITICA" \in ToSet(Local(docs))
            \/ \E l \in Asked(docs) \ down : "CRITICA" \in ToSet(Answer(docs, l))
  BY CriticalIff
<1>3. Verdict(Local(docs)) = "rejected" <=> "CRITICA" \in ToSet(Local(docs))
  BY RejectedIff
<1>4. Verdict(Alerts(docs, down)) = "rejected" <=> "CRITICA" \in ToSet(Alerts(docs, down))
  BY RejectedIff
<1> QED
  BY <1>1, <1>2, <1>3, <1>4

\* Documents without an alert are approved whatever is down: five outages add 25.
LEMMA CleanIsApproved ==
  ASSUME ValidationTerms, NEW docs, AreDocuments(docs), NEW down,
         Alerts(docs, {}) = <<>>, Coherence(docs, docs["business"].partners) = <<>>
  PROVE  Verdict(Alerts(docs, down)) = "approved"
<1>1. /\ Local(docs) = <<>>
      /\ \A l \in Lookups : Says(docs, {}, l) = <<>>
      /\ Coherence(docs, Partners(docs, {})) = <<>>
  <2> DEFINE local == Local(docs)
             coherence == Coherence(docs, Partners(docs, {}))
  <2>1. PICK middle \in Seq(Severities) :
          /\ Alerts(docs, {}) = (local \o middle) \o coherence
          /\ local \in Seq(Severities) /\ coherence \in Seq(Severities)
          /\ (middle = <<>>) <=> \A l \in Lookups : Says(docs, {}, l) = <<>>
    BY AlertsAre
  <2> HIDE DEF local, coherence
  <2> DEFINE front == local \o middle
  <2>2. front \in Seq(Severities) /\ (front = <<>> <=> local = <<>> /\ middle = <<>>)
    BY <2>1, InARow
  <2>3. Alerts(docs, {}) = front \o coherence /\ coherence \in Seq(Severities)
    BY <2>1
  <2> HIDE DEF front
  <2>4. front \o coherence = <<>> <=> front = <<>> /\ coherence = <<>>
    BY <2>2, <2>3, InARow
  <2>5. local = <<>> /\ middle = <<>> /\ coherence = <<>>
    BY <2>2, <2>3, <2>4
  <2> QED
    BY <2>1, <2>5 DEF local, coherence
<1>2. Coherence(docs, Partners(docs, down)) = <<>>
  <2>1. Partners(docs, down) \in {Partners(docs, {}), docs["business"].partners}
    BY DEF Partners
  <2> QED
    BY <1>1, <2>1
<1>3. \A l \in Lookups : Says(docs, down, l) \in {<<>>, <<"BAJA">>}
  BY <1>1 DEF Says, Unavailable
<1>4. \A l \in Lookups : /\ ToSet(Says(docs, down, l)) \subseteq {"BAJA"}
                         /\ Len(Says(docs, down, l)) <= 1
  <2>1. \A a \in {<<>>, <<"BAJA">>} : ToSet(a) \subseteq {"BAJA"} /\ Len(a) <= 1
    <3>1. ToSet(<<>>) = {} /\ ToSet(<<"BAJA">>) = {"BAJA"} /\ Len(<<>>) = 0 /\ Len(<<"BAJA">>) = 1
      BY OneAlert DEF Severities
    <3>2. ASSUME NEW a \in {<<>>, <<"BAJA">>} PROVE ToSet(a) \subseteq {"BAJA"} /\ Len(a) <= 1
      <4>1. CASE a = <<>>
        BY <3>1, <4>1
      <4>2. CASE a = <<"BAJA">>
        BY <3>1, <4>2
      <4> QED
        BY <4>1, <4>2
    <3> QED
      BY <3>2
  <2> QED
    BY <1>3, <2>1
<1>5. PICK middle \in Seq(Severities) :
        /\ Alerts(docs, down) = (<<>> \o middle) \o <<>>
        /\ ToSet(middle) = UNION {ToSet(Says(docs, down, l)) : l \in Lookups}
        /\ (\A l \in Lookups : Len(Says(docs, down, l)) <= 1) => Len(middle) <= 5
  BY <1>1, <1>2, AlertsAre
<1>6. Alerts(docs, down) = middle
  BY <1>5, ConcatEmptySeq
<1>7. ToSet(middle) \subseteq {"BAJA"} /\ Len(middle) <= 5
  BY <1>4, <1>5
<1>8. Score(middle) <= 25 /\ Score(middle) \in 0..100
  BY <1>7, ScoreOf
<1>9. "CRITICA" \notin ToSet(middle) /\ "ALTA" \notin ToSet(middle)
  BY <1>7
<1>10. ~ (Score(middle) >= SuspiciousFrom)
  <2> DEFINE n == Score(middle)
  <2>1. n <= 25 /\ n \in 0..100
    BY <1>8
  <2> HIDE DEF n
  <2>2. ~ (n >= SuspiciousFrom)
    BY <2>1 DEF SuspiciousFrom
  <2> QED
    BY <2>2 DEF n
<1>11. Verdict(middle) = "approved"
  BY <1>9, <1>10 DEF Verdict
<1> QED
  BY <1>6, <1>11

\* A report has one of the three verdicts.
LEMMA VerdictIs ==
  \A alerts : Verdict(alerts) \in {"approved", "suspicious", "rejected"}
BY DEF Verdict

\* What the inductive invariant says of the reports and of who goes on.
LEMMA ReportsAreRight ==
  ASSUME ValidationTerms, ValidationInv
  PROVE  /\ ReportsTyped /\ OutageNeverRejects /\ RejectionsStand /\ CleanStaysApproved
         /\ LastReadingJudged
<1>1. ASSUME NEW report \in LastReport
      PROVE  \E down : /\ report.down = down /\ AreDocuments(report.docs)
                       /\ report.status = Verdict(Alerts(report.docs, down))
                       /\ report.score = Score(Alerts(report.docs, down))
  BY DEF LastReport, ValidationInv, ReportsTrue
<1>2. ReportsTyped
  <2> SUFFICES ASSUME NEW report \in LastReport
               PROVE  /\ report.status \in {"approved", "suspicious", "rejected"}
                      /\ report.score \in 0..100
    BY DEF ReportsTyped
  <2>1. PICK down : /\ AreDocuments(report.docs)
                    /\ report.status = Verdict(Alerts(report.docs, down))
                    /\ report.score = Score(Alerts(report.docs, down))
    BY <1>1
  <2>2. Alerts(report.docs, down) \in Seq(Severities)
    BY <2>1, CriticalIff
  <2>3. Score(Alerts(report.docs, down)) \in 0..100
    BY <2>2, ScoreOf
  <2> QED
    BY <2>1, <2>3, VerdictIs
<1>3. OutageNeverRejects
  <2> SUFFICES ASSUME NEW report \in LastReport, report.status = "rejected"
               PROVE  Verdict(Alerts(report.docs, {})) = "rejected"
    BY DEF OutageNeverRejects
  <2> QED
    BY <1>1, OutageRejectsNobody
<1>4. RejectionsStand
  <2> SUFFICES ASSUME NEW report \in LastReport
               PROVE  report.status = "rejected"
                        <=> \/ Verdict(Local(report.docs)) = "rejected"
                            \/ \E l \in Asked(report.docs) \ report.down :
                                 Verdict(Alerts(report.docs, Lookups \ {l})) = "rejected"
    BY DEF RejectionsStand
  <2>1. PICK down : /\ report.down = down /\ AreDocuments(report.docs)
                    /\ report.status = Verdict(Alerts(report.docs, down))
    BY <1>1
  <2>2. Verdict(Alerts(report.docs, down)) = "rejected"
          <=> \/ Verdict(Local(report.docs)) = "rejected"
              \/ \E l \in Asked(report.docs) \ down :
                   Verdict(Alerts(report.docs, Lookups \ {l})) = "rejected"
    BY <2>1, EachSourceRejects
  <2> QED
    BY <2>1, <2>2
<1>5. CleanStaysApproved
  <2> SUFFICES ASSUME NEW report \in LastReport, Alerts(report.docs, {}) = <<>>,
                      Coherence(report.docs, report.docs["business"].partners) = <<>>
               PROVE  report.status = "approved"
    BY DEF CleanStaysApproved
  <2> QED
    BY <1>1, CleanIsApproved
<1>6. LastReadingJudged
  <2> SUFFICES ASSUME \A r \in Runs : run[r] = Waiting, ~ failed
               PROVE  \E i \in DOMAIN reports :
                        \A t \in Documents \ {"photo"} : reports[i].seen[t] = Seen[t]
    BY DEF LastReadingJudged
  <2>1. Waiting.at = "waiting"
    BY DEF Waiting
  <2> QED
    BY <2>1 DEF ValidationInv, JudgedOrGoing, AllSeen
<1> QED
  BY <1>2, <1>3, <1>4, <1>5, <1>6

\* The last readings are readings that the intake or the AI may give.
LEMMA LatestIs ==
  ASSUME ValidationInv
  PROVE  /\ AreDocuments(Latest)
         /\ Latest \in Papers
         /\ Seen \in [Documents -> Nat]
<1>1. ASSUME NEW t \in Documents
      PROVE  Latest[t] \in Read(t) \cup {Absent} /\ Seen[t] \in Nat
  <2>1. readings[t] \in Seq(Read(t))
    BY DEF ValidationInv
  <2>2. Len(readings[t]) \in Nat /\ (readings[t] # <<>> => Len(readings[t]) \in Nat \ {0})
    BY <2>1, EmptySeq, LenProperties
  <2>3. readings[t] # <<>> => readings[t][Len(readings[t])] \in Read(t)
    BY <2>1, <2>2, ElementOfSeq
  <2> QED
    BY <2>2, <2>3 DEF Latest, Seen, Last
<1>2. AreDocuments(Latest)
  BY <1>1 DEF AreDocuments
<1>3. Seen \in [Documents -> Nat]
  BY <1>1 DEF Seen
<1>4. Latest \in Papers
  <2>1. Latest = [t \in Documents |-> Latest[t]]
    BY DEF Latest
  <2>2. \A t \in Documents : Latest[t] \in (UNION {Read(d) : d \in Documents}) \cup {Absent}
    BY <1>1
  <2> HIDE DEF Latest
  <2> QED
    BY <2>1, <2>2 DEF Papers
<1> QED
  BY <1>2, <1>3, <1>4

LEMMA ValidationStarts ==
  ASSUME ValidationInit
  PROVE  ValidationInv
<1>1. PICK folder \in Folders :
        readings = [t \in Documents |-> IF Told(folder[t]) THEN <<folder[t]>> ELSE <<>>]
  BY DEF ValidationInit
<1>2. PICK r \in Runs : run = [q \in Runs |-> IF q = r THEN [at |-> "read"] ELSE Waiting]
  BY DEF ValidationInit
<1>3. reports = <<>> /\ failed = FALSE
  BY DEF ValidationInit
<1>4. DOMAIN readings = Documents /\ \A t \in Documents : readings[t] \in Seq(Read(t))
  <2>1. \A t : folder[t] \in Read(t)
    BY DEF Read
  <2> QED
    BY <1>1, <2>1
<1>5. DOMAIN run = Runs /\ RunsKnow
  BY <1>2 DEF RunsKnow
<1>6. reports \in Seq(Reports) /\ ReportsTrue
  BY <1>3, EmptySeq DEF ReportsTrue
<1>7. JudgedOrGoing
  BY <1>2 DEF JudgedOrGoing
<1> QED
  BY <1>3, <1>4, <1>5, <1>6, <1>7 DEF ValidationInv

\* What the sources say does not change, and so no report does.
LEMMA SameAnswers ==
  ASSUME world' = world
  PROVE  \A docs, down : Alerts(docs, down)' = Alerts(docs, down)
BY DEF Alerts, Answer, Partners, Asked, Local, Coherence, Unavailable

LEMMA SameReports ==
  ASSUME world' = world, reports' = reports, ReportsTrue
  PROVE  ReportsTrue'
<1>1. \A i \in DOMAIN reports' :
        /\ AreDocuments(reports'[i].docs)
        /\ reports'[i].status = Verdict(Alerts(reports'[i].docs, reports'[i].down))
        /\ reports'[i].score = Score(Alerts(reports'[i].docs, reports'[i].down))
  BY DEF ReportsTrue
<1> QED
  BY <1>1, SameAnswers DEF ReportsTrue

\* Who reads a document again validates it.
LEMMA ReExtractKeeps ==
  ASSUME ValidationInv, NEW r \in Runs, NEW t \in Documents \ {"photo"},
         NEW reading \in Files[t] \cup {Absent}, ReExtract(r, t, reading)
  PROVE  ValidationInv'
<1>1. /\ run[r] = Waiting
      /\ readings' = IF Told(reading) THEN [readings EXCEPT ![t] = Append(@, reading)]
                     ELSE readings
      /\ run' = [run EXCEPT ![r] = [at |-> "read"]]
      /\ world' = world /\ reports' = reports /\ failed' = failed
  BY DEF ReExtract
<1>2. /\ DOMAIN readings = Documents /\ \A d \in Documents : readings[d] \in Seq(Read(d))
      /\ DOMAIN run = Runs /\ reports \in Seq(Reports)
      /\ failed \in BOOLEAN /\ RunsKnow /\ ReportsTrue
  BY DEF ValidationInv
<1>3. DOMAIN readings' = Documents /\ \A d \in Documents : readings'[d] \in Seq(Read(d))
  <2>1. Told(reading) => reading \in Read(t)
    BY DEF Told, Read
  <2> QED
    BY <1>1, <1>2, <2>1
<1>4. DOMAIN run' = Runs /\ run'[r] = [at |-> "read"]
      /\ \A q \in Runs \ {r} : run'[q] = run[q]
  BY <1>1, <1>2
<1>5. RunsKnow'
  BY <1>2, <1>4 DEF RunsKnow, AreDocuments
<1>6. ReportsTrue'
  BY <1>1, <1>2, SameReports
<1>7. JudgedOrGoing'
  BY <1>4 DEF JudgedOrGoing
<1> QED
  BY <1>1, <1>2, <1>3, <1>4, <1>5, <1>6, <1>7 DEF ValidationInv

\* The photo is studied again, and nothing of what a report looks at changes.
LEMMA StudyPhotoKeeps ==
  ASSUME ValidationInv, NEW reading \in Files["photo"], StudyPhoto(reading)
  PROVE  ValidationInv'
<1>1. /\ readings' = [readings EXCEPT !["photo"] = Append(@, reading)]
      /\ world' = world /\ run' = run /\ reports' = reports /\ failed' = failed
  BY DEF StudyPhoto
<1>2. /\ DOMAIN readings = Documents /\ \A d \in Documents : readings[d] \in Seq(Read(d))
      /\ DOMAIN run = Runs /\ reports \in Seq(Reports)
      /\ failed \in BOOLEAN /\ RunsKnow /\ ReportsTrue /\ JudgedOrGoing
  BY DEF ValidationInv
<1>3. DOMAIN readings' = Documents /\ \A d \in Documents : readings'[d] \in Seq(Read(d))
  <2>1. reading \in Read("photo")
    BY DEF Read
  <2> QED
    BY <1>1, <1>2, <2>1
<1>4. \A d \in Documents \ {"photo"} : readings'[d] = readings[d]
  BY <1>1, <1>2
<1>5. RunsKnow'
  BY <1>1, <1>2 DEF RunsKnow, AreDocuments
<1>6. ReportsTrue'
  BY <1>1, <1>2, SameReports
<1>7. \A seen : AllSeen(seen)' <=> AllSeen(seen)
  BY <1>4 DEF AllSeen, Seen
<1>8. JudgedOrGoing'
  BY <1>1, <1>2, <1>7 DEF JudgedOrGoing
<1> QED
  BY <1>1, <1>2, <1>3, <1>5, <1>6, <1>8 DEF ValidationInv

\* A run takes the last readings.
LEMMA TakeReadingsKeeps ==
  ASSUME ValidationInv, NEW r \in Runs, TakeReadings(r)
  PROVE  ValidationInv'
<1> DEFINE taken == [at |-> "asking", docs |-> Latest, seen |-> Seen]
<1>1. /\ run' = [run EXCEPT ![r] = taken]
      /\ readings' = readings /\ world' = world /\ reports' = reports /\ failed' = failed
  BY DEF TakeReadings
<1>2. /\ DOMAIN readings = Documents /\ \A d \in Documents : readings[d] \in Seq(Read(d))
      /\ DOMAIN run = Runs /\ reports \in Seq(Reports)
      /\ failed \in BOOLEAN /\ RunsKnow /\ ReportsTrue
  BY DEF ValidationInv
<1>3. /\ taken.at = "asking" /\ AreDocuments(taken.docs) /\ taken.docs \in Papers
      /\ taken.seen \in [Documents -> Nat] /\ taken.seen = Seen
  BY LatestIs
<1> HIDE DEF taken
<1>4. DOMAIN run' = Runs /\ run'[r] = taken /\ \A q \in Runs \ {r} : run'[q] = run[q]
  BY <1>1, <1>2
<1>5. RunsKnow'
  BY <1>2, <1>3, <1>4 DEF RunsKnow, AreDocuments
<1>6. ReportsTrue'
  BY <1>1, <1>2, SameReports
<1>7. Seen' = Seen
  BY <1>1 DEF Seen
<1>8. JudgedOrGoing'
  BY <1>3, <1>4, <1>7 DEF JudgedOrGoing, AllSeen
<1> QED
  BY <1>1, <1>2, <1>4, <1>5, <1>6, <1>8 DEF ValidationInv

\* A report says what its readings and the sources do, and is of what was read.
LEMMA ReportKeeps ==
  ASSUME ValidationTerms, ValidationInv, NEW r \in Runs, NEW down \in SUBSET Lookups,
         Report(r, down)
  PROVE  ValidationInv'
<1> DEFINE docs == run[r].docs
           alerts == Alerts(docs, down)
           report == [docs |-> docs, seen |-> run[r].seen, down |-> down,
                      status |-> Verdict(alerts), score |-> Score(alerts)]
<1>1. /\ run[r].at = "asking" /\ run' = [run EXCEPT ![r] = Waiting]
      /\ reports' = Append(reports, report)
      /\ readings' = readings /\ world' = world /\ failed' = failed
  BY DEF Report
<1>2. /\ DOMAIN readings = Documents /\ \A d \in Documents : readings[d] \in Seq(Read(d))
      /\ DOMAIN run = Runs /\ reports \in Seq(Reports)
      /\ failed \in BOOLEAN /\ RunsKnow /\ ReportsTrue /\ JudgedOrGoing
  BY DEF ValidationInv
<1>3. AreDocuments(docs) /\ docs \in Papers /\ run[r].seen \in [Documents -> Nat]
  <2>1. run[r] \notin {Waiting, [at |-> "read"]}
    BY <1>1 DEF Waiting
  <2> QED
    BY <1>2, <2>1 DEF RunsKnow
<1>4. alerts \in Seq(Severities)
  BY <1>3, CriticalIff
<1>5. Score(alerts) \in 0..100 /\ Verdict(alerts) \in {"approved", "suspicious", "rejected"}
  BY <1>4, ScoreOf, VerdictIs
<1>6. /\ report \in Reports /\ report.docs = docs /\ report.down = down
      /\ report.seen = run[r].seen
      /\ report.status = Verdict(alerts) /\ report.score = Score(alerts)
  BY <1>3, <1>5 DEF Reports
<1> HIDE DEF report
<1>7. /\ reports' \in Seq(Reports) /\ DOMAIN reports' = 1..(Len(reports) + 1)
      /\ Len(reports) \in Nat /\ DOMAIN reports = 1..Len(reports)
      /\ \A i \in DOMAIN reports : reports'[i] = reports[i]
      /\ reports'[Len(reports) + 1] = report
  BY <1>1, <1>2, <1>6, AppendProperties, LenProperties
<1>8. DOMAIN run' = Runs /\ run'[r] = Waiting /\ \A q \in Runs \ {r} : run'[q] = run[q]
  BY <1>1, <1>2
<1>9. RunsKnow'
  BY <1>2, <1>8 DEF RunsKnow, AreDocuments
<1>10. ReportsTrue'
  <2>1. ASSUME NEW i \in DOMAIN reports'
        PROVE  /\ AreDocuments(reports'[i].docs)
               /\ reports'[i].status = Verdict(Alerts(reports'[i].docs, reports'[i].down))
               /\ reports'[i].score = Score(Alerts(reports'[i].docs, reports'[i].down))
    <3>1. CASE i \in DOMAIN reports
      BY <1>2, <1>7, <3>1 DEF ReportsTrue
    <3>2. CASE i = Len(reports) + 1
      BY <1>3, <1>6, <1>7, <3>2
    <3> QED
      BY <1>7, <3>1, <3>2
  <2> QED
    BY <1>1, <2>1, SameAnswers DEF ReportsTrue
<1>11. Seen' = Seen
  BY <1>1 DEF Seen
<1>12. JudgedOrGoing'
  <2> HIDE DEF docs, alerts
  <2>1. CASE failed
    BY <1>1, <2>1 DEF JudgedOrGoing
  <2>2. ASSUME NEW i \in DOMAIN reports, AllSeen(reports[i].seen)
        PROVE  JudgedOrGoing'
    <3>1. i \in DOMAIN reports' /\ reports'[i] = reports[i]
      BY <1>7, <2>2
    <3> QED
      BY <1>11, <2>2, <3>1 DEF JudgedOrGoing, AllSeen
  <2>3. CASE AllSeen(run[r].seen)
    <3> DEFINE i == Len(reports) + 1
    <3>1. i \in DOMAIN reports' /\ reports'[i] = report
      BY <1>7
    <3> HIDE DEF i
    <3> QED
      BY <1>6, <1>11, <2>3, <3>1 DEF JudgedOrGoing, AllSeen
  <2>4. ASSUME NEW q \in Runs \ {r},
               \/ run[q].at = "read"
               \/ run[q].at = "asking" /\ AllSeen(run[q].seen)
        PROVE  JudgedOrGoing'
    BY <1>8, <1>11, <2>4 DEF JudgedOrGoing, AllSeen
  <2> QED
    BY <1>1, <1>2, <2>1, <2>2, <2>3, <2>4 DEF JudgedOrGoing
<1> QED
  BY <1>1, <1>2, <1>7, <1>8, <1>9, <1>10, <1>12 DEF ValidationInv

LEMMA GiveUpKeeps ==
  ASSUME ValidationInv, NEW r \in Runs, GiveUp(r)
  PROVE  ValidationInv'
<1>1. /\ run' = [run EXCEPT ![r] = Waiting] /\ failed' = TRUE
      /\ readings' = readings /\ world' = world /\ reports' = reports
  BY DEF GiveUp
<1>2. /\ DOMAIN readings = Documents /\ \A d \in Documents : readings[d] \in Seq(Read(d))
      /\ DOMAIN run = Runs /\ reports \in Seq(Reports) /\ RunsKnow /\ ReportsTrue
  BY DEF ValidationInv
<1>3. DOMAIN run' = Runs /\ run'[r] = Waiting /\ \A q \in Runs \ {r} : run'[q] = run[q]
  BY <1>1, <1>2
<1>4. RunsKnow'
  BY <1>2, <1>3 DEF RunsKnow, AreDocuments
<1>5. ReportsTrue'
  BY <1>1, <1>2, SameReports
<1>6. JudgedOrGoing'
  BY <1>1 DEF JudgedOrGoing
<1> QED
  BY <1>1, <1>2, <1>3, <1>4, <1>5, <1>6 DEF ValidationInv

\* An outage of the sources rejects nobody, saves nobody and worries nobody, and the
\* last reading of every document is judged unless a run says that it failed, whatever
\* is read, however many runs go on at once (validate-application-documents.ts,
\* re-extract-document.service.ts).
THEOREM ValidationAlwaysSafe ==
  ASSUME ValidationTerms
  PROVE  ValidationSpec => []ValidationSafe
<1>1. ASSUME ValidationInv, [ValidationNext]_validationVars PROVE ValidationInv'
  <2>1. CASE UNCHANGED validationVars
    <3>1. /\ readings' = readings /\ world' = world /\ run' = run
          /\ reports' = reports /\ failed' = failed
      BY <2>1 DEF validationVars
    <3>2. ReportsTrue'
      BY <1>1, <3>1, SameReports DEF ValidationInv
    <3> QED
      BY <1>1, <3>1, <3>2
      DEF ValidationInv, RunsKnow, AreDocuments, JudgedOrGoing, AllSeen, Seen
  <2>2. CASE ValidationNext
    <3>1. ASSUME NEW reading \in Files["photo"], StudyPhoto(reading) PROVE ValidationInv'
      BY <1>1, <3>1, StudyPhotoKeeps
    <3>2. ASSUME NEW r \in Runs, NEW t \in Documents \ {"photo"},
                 NEW reading \in Files[t] \cup {Absent}, ReExtract(r, t, reading)
          PROVE  ValidationInv'
      BY <1>1, <3>2, ReExtractKeeps
    <3>3. ASSUME NEW r \in Runs, TakeReadings(r) PROVE ValidationInv'
      BY <1>1, <3>3, TakeReadingsKeeps
    <3>4. ASSUME NEW r \in Runs, NEW down \in SUBSET Lookups, Report(r, down)
          PROVE  ValidationInv'
      BY <1>1, <3>4, ReportKeeps
    <3>5. ASSUME NEW r \in Runs, GiveUp(r) PROVE ValidationInv'
      BY <1>1, <3>5, GiveUpKeeps
    <3> QED
      BY <2>2, <3>1, <3>2, <3>3, <3>4, <3>5 DEF ValidationNext
  <2> QED
    BY <1>1, <2>1, <2>2
<1>2. ASSUME ValidationInv PROVE ValidationSafe
  BY <1>2, ReportsAreRight DEF ValidationSafe
<1>3. ValidationInit => ValidationInv
  BY ValidationStarts
<1> QED
  BY <1>1, <1>2, <1>3, PTL DEF ValidationSpec

-----------------------------------------------------------------------------
(* MigratedCredit: payments in the order of their days.                     *)

\* Ranks number the payments: by their days, each number once.
LEMMA RanksNumber ==
  ASSUME NEW n \in Nat, NEW p, DOMAIN p = 1..n, \A i \in 1..n : p[i].on \in Nat
  PROVE  /\ \A i \in 1..n : Rank(p, i) \in 1..n
         /\ \A i, j \in 1..n : Earlier(p, i, j) => Rank(p, i) < Rank(p, j)
         /\ \A i, j \in 1..n : Rank(p, i) = Rank(p, j) => i = j
         /\ \A k \in 1..n : \E i \in 1..n : Rank(p, i) = k
<1> DEFINE Before(i) == {j \in 1..n : Earlier(p, j, i)}
<1>1. IsFiniteSet(1..n) /\ Cardinality(1..n) = n
  BY FS_Interval
<1>2. \A i, j, k \in 1..n :
        /\ ~ Earlier(p, i, i)
        /\ (Earlier(p, i, j) /\ Earlier(p, j, k)) => Earlier(p, i, k)
        /\ i = j \/ Earlier(p, i, j) \/ Earlier(p, j, i)
  BY DEF Earlier
<1>3. \A i \in 1..n : /\ IsFiniteSet(Before(i)) /\ Cardinality(Before(i)) \in Nat
                      /\ Rank(p, i) = 1 + Cardinality(Before(i))
  <2>1. \A i \in 1..n : Before(i) \in SUBSET (1..n)
    OBVIOUS
  <2>2. \A i \in 1..n : Rank(p, i) = 1 + Cardinality(Before(i))
    BY DEF Rank
  <2> HIDE DEF Before
  <2> QED
    BY <1>1, <2>1, <2>2, FS_Subset, FS_CardinalityType
<1>4. ASSUME NEW S, IsFiniteSet(S), NEW T \in SUBSET S, S # T
      PROVE  Cardinality(T) < Cardinality(S)
  <2>1. /\ Cardinality(T) <= Cardinality(S)
        /\ Cardinality(S) # Cardinality(T) /\ IsFiniteSet(T)
    BY <1>4, FS_Subset
  <2>2. Cardinality(T) \in Nat /\ Cardinality(S) \in Nat
    BY <1>4, <2>1, FS_CardinalityType
  <2> QED
    BY <2>1, <2>2
<1>5. ASSUME NEW i \in 1..n PROVE Rank(p, i) \in 1..n
  <2>1. Before(i) \in SUBSET (1..n) /\ 1..n # Before(i)
    BY <1>2
  <2>2. Cardinality(Before(i)) < n
    BY <1>1, <1>4, <2>1
  <2> HIDE DEF Before
  <2> QED
    BY <1>3, <2>2
<1>6. ASSUME NEW i \in 1..n, NEW j \in 1..n, Earlier(p, i, j)
      PROVE  Rank(p, i) < Rank(p, j)
  <2>1. Before(i) \in SUBSET Before(j) /\ Before(j) # Before(i)
    BY <1>2, <1>6
  <2>2. Cardinality(Before(i)) < Cardinality(Before(j))
    BY <1>3, <1>4, <2>1
  <2> HIDE DEF Before
  <2> QED
    BY <1>3, <2>2
<1>7. \A i, j \in 1..n : Rank(p, i) = Rank(p, j) => i = j
  <2> SUFFICES ASSUME NEW i \in 1..n, NEW j \in 1..n, Rank(p, i) = Rank(p, j), i # j
               PROVE  FALSE
    OBVIOUS
  <2>1. Rank(p, i) < Rank(p, j) \/ Rank(p, j) < Rank(p, i)
    BY <1>2, <1>6
  <2>2. Rank(p, i) \in Int /\ Rank(p, j) \in Int
    BY <1>5
  <2> QED
    BY <2>1, <2>2
<1>8. \A k \in 1..n : \E i \in 1..n : Rank(p, i) = k
  <2> DEFINE f == [i \in 1..n |-> Rank(p, i)]
  <2>1. f \in Injection(1..n, 1..n)
    BY <1>5, <1>7 DEF Injection, IsInjective
  <2>2. f \in Surjection(1..n, 1..n)
    BY <1>1, <2>1, FS_Injection
  <2>3. \A k \in 1..n : \E i \in 1..n : f[i] = k
    BY <2>2 DEF Surjection
  <2> QED
    BY <2>3
<1> QED
  BY <1>5, <1>6, <1>7, <1>8

\* The payments by their days are the payments, in the order of their days.
LEMMA ByDateFacts ==
  ASSUME NEW p \in Seq([on : Nat, amount : Int])
  PROVE  LET q == ByDate(p) IN
         /\ q \in Seq([on : Nat, amount : Int]) /\ Len(q) = Len(p)
         /\ \A k \in 1..Len(p) : \E i \in 1..Len(p) : q[k] = p[i]
         /\ \A j, k \in 1..Len(p) : j < k => q[j].on <= q[k].on
         /\ SumOf(q) = SumOf(p)
<1> DEFINE n == Len(p)
           q == ByDate(p)
           Of(k) == CHOOSE i \in 1..n : Rank(p, i) = k
<1>1. /\ n \in Nat /\ DOMAIN p = 1..n
      /\ \A i \in 1..n : p[i] \in [on : Nat, amount : Int]
  BY LenProperties, ElementOfSeq
<1>2. \A i \in 1..n : p[i].on \in Nat /\ p[i].amount \in Int
  BY <1>1
<1> HIDE DEF n
<1>3. /\ \A i \in 1..n : Rank(p, i) \in 1..n
      /\ \A i, j \in 1..n : Earlier(p, i, j) => Rank(p, i) < Rank(p, j)
      /\ \A i, j \in 1..n : Rank(p, i) = Rank(p, j) => i = j
      /\ \A k \in 1..n : \E i \in 1..n : Rank(p, i) = k
  BY <1>1, <1>2, RanksNumber
<1>4. \A k \in 1..n : Of(k) \in 1..n /\ Rank(p, Of(k)) = k
  BY <1>3
<1>5. q = [k \in 1..n |-> p[Of(k)]]
  BY <1>1 DEF ByDate
<1> HIDE DEF q, Of
<1>6. q \in Seq([on : Nat, amount : Int]) /\ Len(q) = n /\ DOMAIN q = 1..n
  <2> DEFINE X == [on : Nat, amount : Int]
  <2>1. q \in [1..n -> X] /\ n \in Nat
    BY <1>1, <1>4, <1>5
  <2> HIDE DEF X
  <2>2. q \in Seq(X) /\ Len(q) = n /\ DOMAIN q = 1..n
    BY <2>1
  <2> QED
    BY <2>2 DEF X
<1>7. \A k \in 1..n : q[k] = p[Of(k)]
  BY <1>5
<1>8. ASSUME NEW j \in 1..n, NEW k \in 1..n, j < k
      PROVE  q[j].on <= q[k].on
  <2>1. ~ Earlier(p, Of(k), Of(j))
    <3>1. ~ (k < j)
      BY <1>8
    <3> QED
      BY <1>3, <1>4, <3>1
  <2>2. ~ (p[Of(k)].on < p[Of(j)].on)
    BY <2>1 DEF Earlier
  <2>3. p[Of(k)].on \in Nat /\ p[Of(j)].on \in Nat
    BY <1>2, <1>4
  <2>4. q[j].on = p[Of(j)].on /\ q[k].on = p[Of(k)].on
    BY <1>7
  <2> QED
    BY <2>2, <2>3, <2>4
<1>9. SumOf(q) = SumOf(p)
  <2> DEFINE f == AmountsOf(p)
             g == AmountsOf(q)
             rank == [i \in 1..n |-> Rank(p, i)]
  <2>1. /\ DOMAIN f = 1..n /\ DOMAIN g = 1..n
        /\ \A i \in 1..n : f[i] = p[i].amount
        /\ \A k \in 1..n : g[k] = p[Of(k)].amount
        /\ \A i \in 1..n : f[i] \in Int
    BY <1>1, <1>2, <1>6, <1>7 DEF AmountsOf
  <2>2. IsFiniteSet(1..n)
    BY <1>1, FS_Interval
  <2> HIDE DEF f, g
  <2>3. Grouping(f, 1..n, g, 1..n, rank)
    <3>1. \A i \in 1..n : rank[i] \in 1..n
      BY <1>3
    <3>2. ASSUME NEW k \in 1..n PROVE g[k] = SumOver(f, {i \in 1..n : rank[i] = k})
      <4>1. {i \in 1..n : rank[i] = k} = {Of(k)}
        BY <1>3, <1>4
      <4>2. IsFiniteSet({}) /\ Of(k) \in 1..n
        BY <1>4, FS_EmptySet
      <4>3. \A x \in {} \cup {Of(k)} : f[x] \in Int
        BY <2>1, <4>2
      <4>4. SumOver(f, {} \cup {Of(k)}) = SumOver(f, {}) + f[Of(k)]
        BY <4>2, <4>3, SumAdd
      <4>5. SumOver(f, {Of(k)}) = f[Of(k)]
        <5>1. SumOver(f, {}) = 0 /\ {} \cup {Of(k)} = {Of(k)} /\ f[Of(k)] \in Int
          BY <2>1, <4>2, SumEmpty
        <5> QED
          BY <4>4, <5>1
      <4> QED
        BY <2>1, <4>1, <4>2, <4>5
    <3> QED
      BY <3>1, <3>2 DEF Grouping
  <2> HIDE DEF rank
  <2>4. SumOver(g, 1..n) = SumOver(f, 1..n)
    <3> DEFINE S == 1..n
    <3>1. IsFiniteSet(S) /\ Grouping(f, S, g, S, rank)
      BY <2>2, <2>3
    <3>2. \A x \in S : f[x] \in Int
      BY <2>1
    <3> HIDE DEF S
    <3>3. SumOver(g, S) = SumOver(f, S)
      BY <3>1, <3>2, SumGroup
    <3> QED
      BY <3>3 DEF S
  <2> QED
    BY <2>1, <2>4 DEF SumOf, Total, f, g
<1>10. \A k \in 1..n : \E i \in 1..n : q[k] = p[i]
  BY <1>4, <1>7
<1> QED
  BY <1>6, <1>8, <1>9, <1>10 DEF n, q

-----------------------------------------------------------------------------
(* MigratedCredit: the payments of the past in stages.                      *)

\* What the first k payments come to.
LEMMA UntilFacts ==
  ASSUME NEW m \in Nat, NEW q, DOMAIN q = 1..m, \A k \in 1..m : q[k].amount \in Nat
  PROVE  /\ SumOver(AmountsOf(q), 1..0) = 0
         /\ \A k \in 0..m : SumOver(AmountsOf(q), 1..k) \in Nat
         /\ \A k \in 1..m : SumOver(AmountsOf(q), 1..k)
                              = SumOver(AmountsOf(q), 1..(k - 1)) + q[k].amount
         /\ SumOf(q) = SumOver(AmountsOf(q), 1..m)
<1> DEFINE a == AmountsOf(q)
<1>1. a \in [1..m -> Nat] /\ \A k \in 1..m : a[k] = q[k].amount
  BY DEF AmountsOf
<1>2. SumOf(q) = SumOver(a, 1..m)
  BY <1>1 DEF SumOf, Total
<1> HIDE DEF a
<1>3. SumOver(a, 1..0) = 0
  <2>1. 1..0 = {}
    OBVIOUS
  <2> QED
    BY <2>1, SumEmpty
<1>4. \A k \in 0..m : SumOver(a, 1..k) \in Nat
  <2> SUFFICES ASSUME NEW k \in 0..m PROVE SumOver(a, 1..k) \in Nat
    OBVIOUS
  <2>1. k \in Int /\ \A i \in 1..k : i \in 1..m
    OBVIOUS
  <2>2. IsFiniteSet(1..k)
    BY <2>1, FS_Interval
  <2>3. \A i \in 1..k : a[i] \in Nat
    BY <1>1, <2>1
  <2> QED
    BY <2>2, <2>3, SumNat
<1>5. \A k \in 1..m : SumOver(a, 1..k) = SumOver(a, 1..(k - 1)) + a[k]
  <2>1. a \in [1..m -> Int]
    BY <1>1
  <2> QED
    BY <2>1, UpToNext
<1> QED
  BY <1>1, <1>2, <1>3, <1>4, <1>5 DEF a

\* The cascade of two payments, as one fact.
TwoStages(n, due, none, x, y) ==
  \A i \in 1..n :
    Cascade(due, none, x + y)[i]
      = Cascade(due, none, x)[i] + Cascade(due, Cascade(due, none, x), y)[i]

LEMMA TwoStagesHold ==
  ASSUME NEW n \in Nat, NEW due \in [1..n -> Nat], NEW none \in [1..n -> Nat],
         \A i \in 1..n : none[i] = 0, NEW x \in Nat, NEW y \in Nat
  PROVE  TwoStages(n, due, none, x, y)
BY CascadeTwice, ZenonT(60) DEF TwoStages

\* The stages, as one fact.
InStagesOf(n, due, none, m, q) ==
  /\ \A k \in 0..m :
       PaidAfter(due, q)[k] = Cascade(due, none, SumOver(AmountsOf(q), 1..k))
  /\ \A k \in 1..m : \A i \in 1..n :
       PaidAfter(due, q)[k][i]
         = PaidAfter(due, q)[k - 1][i]
             + Cascade(due, PaidAfter(due, q)[k - 1], q[k].amount)[i]

\* Payments one by one leave what their sum leaves at once.
LEMMA InStages ==
  ASSUME NEW n \in Nat, NEW due \in [1..n -> Nat], NEW none \in [1..n -> Nat],
         \A i \in 1..n : none[i] = 0, NEW m \in Nat, NEW q, DOMAIN q = 1..m, Len(q) = m,
         \A k \in 1..m : q[k].amount \in Nat
  PROVE  InStagesOf(n, due, none, m, q)
<1> DEFINE until(k) == SumOver(AmountsOf(q), 1..k)
           After(g, k) == [i \in 1..n |->
                             g[k - 1][i] + Cascade(due, g[k - 1], q[k].amount)[i]]
           Is(g) == g = [k \in 0..m |-> IF k = 0 THEN none ELSE After(g, k)]
           w == [k \in 0..m |-> Cascade(due, none, until(k))]
           sofar == PaidAfter(due, q)
<1>1. sofar = CHOOSE g : Is(g)
  <2>1. none = [i \in 1..n |-> 0] /\ DOMAIN due = 1..n
    OBVIOUS
  <2> QED
    BY <2>1, Zenon DEF PaidAfter
<1>2. /\ until(0) = 0
      /\ \A k \in 0..m : until(k) \in Nat
      /\ \A k \in 1..m : until(k) = until(k - 1) + q[k].amount
  BY UntilFacts
<1> HIDE DEF sofar, until
<1>3. none \in [1..n -> Nat] /\ (\A i \in 1..n : none[i] = 0)
      /\ \A i \in 1..n : none[i] <= due[i]
  OBVIOUS
<1>4. \A x \in Nat : Cascade(due, none, x) \in [1..n -> Nat]
  <2> SUFFICES ASSUME NEW x \in Nat PROVE Cascade(due, none, x) \in [1..n -> Nat]
    OBVIOUS
  <2> QED
    BY <1>3, LeftFacts
<1>13. ASSUME NEW x \in Nat, NEW y \in Nat
       PROVE  \A i \in 1..n :
                Cascade(due, none, x + y)[i]
                  = Cascade(due, none, x)[i] + Cascade(due, Cascade(due, none, x), y)[i]
  <2>1. TwoStages(n, due, none, x, y)
    BY TwoStagesHold
  <2> QED
    BY <2>1 DEF TwoStages
<1>5. w[0] = none
  <2>1. Cascade(due, none, 0) = none
    BY <1>3, CascadeOfNothing
  <2> QED
    BY <1>2, <2>1
<1>6. ASSUME NEW k \in 1..m PROVE w[k] = After(w, k)
  <2> DEFINE x == until(k - 1)
             y == q[k].amount
  <2>1. /\ x \in Nat /\ y \in Nat /\ until(k) = x + y /\ x + y \in Nat
        /\ k \in 0..m /\ k - 1 \in 0..m
    BY <1>2
  <2> HIDE DEF x, y
  <2>2. \A i \in 1..n : Cascade(due, none, x + y)[i]
             = Cascade(due, none, x)[i] + Cascade(due, Cascade(due, none, x), y)[i]
    BY <2>1, <1>13
  <2>3. Cascade(due, none, x + y) \in [1..n -> Nat]
    BY <1>4, <2>1
  <2>4. Cascade(due, none, x + y)
          = [i \in 1..n |-> Cascade(due, none, x)[i] + Cascade(due, Cascade(due, none, x), y)[i]]
    BY <2>2, <2>3
  <2>5. w[k - 1] = Cascade(due, none, x) /\ w[k] = Cascade(due, none, x + y)
    BY <2>1 DEF x
  <2> QED
    BY <2>4, <2>5 DEF y
<1>7. Is(w)
  <2>1. w = [k \in 0..m |-> w[k]]
    OBVIOUS
  <2>2. \A k \in 0..m : k # 0 => k \in 1..m
    OBVIOUS
  <2> HIDE DEF w, After
  <2> QED
    BY <1>5, <1>6, <2>1, <2>2
<1> DEFINE B == {k \in 0..m : sofar[k] = w[k]}
<1>8. Is(sofar)
  <2> HIDE DEF Is, w
  <2> QED
    BY <1>1, <1>7
<1>9. sofar[0] = none /\ \A k \in 1..m : sofar[k] = After(sofar, k)
  <2>1. 0 \in 0..m /\ \A k \in 1..m : k \in 0..m /\ k # 0
    OBVIOUS
  <2> HIDE DEF After
  <2> QED
    BY <1>8, <2>1
<1>10. 0..m \subseteq B
  <2>1. 0 \in B
    BY <1>5, <1>9
  <2>2. ASSUME NEW k \in 1..m, k - 1 \in B PROVE k \in B
    <3>1. sofar[k - 1] = w[k - 1] /\ k \in 0..m
      BY <2>2
    <3>2. sofar[k] = After(sofar, k) /\ w[k] = After(w, k)
      BY <1>6, <1>9
    <3>3. After(sofar, k) = After(w, k)
      <4> HIDE DEF w
      <4> QED
        BY <3>1
    <3> HIDE DEF w, After
    <3> QED
      BY <3>1, <3>2, <3>3
  <2>3. B \in SUBSET Nat
    OBVIOUS
  <2> HIDE DEF B
  <2> QED
    BY <2>1, <2>2, <2>3, CountTo
<1>11. \A k \in 0..m : sofar[k] = Cascade(due, none, until(k))
  BY <1>10
<1>12. \A k \in 1..m : \A i \in 1..n :
         sofar[k][i] = sofar[k - 1][i] + Cascade(due, sofar[k - 1], q[k].amount)[i]
  <2> SUFFICES ASSUME NEW k \in 1..m, NEW i \in 1..n
               PROVE  sofar[k][i] = sofar[k - 1][i]
                                     + Cascade(due, sofar[k - 1], q[k].amount)[i]
    OBVIOUS
  <2>1. sofar[k] = After(sofar, k)
    BY <1>9
  <2> DEFINE before == sofar[k - 1]
             taken == Cascade(due, before, q[k].amount)
  <2>2. After(sofar, k) = [j \in 1..n |-> before[j] + taken[j]]
    OBVIOUS
  <2> HIDE DEF After, before, taken
  <2>3. sofar[k][i] = before[i] + taken[i]
    BY <2>1, <2>2
  <2> QED
    BY <2>3 DEF before, taken
<1> QED
  BY <1>11, <1>12 DEF InStagesOf, sofar, until

-----------------------------------------------------------------------------
(* MigratedCredit: what is owed, and when.                                  *)

\* Interest is added, never taken.
LEMMA InterestAdds ==
  ASSUME NEW P \in Nat, NEW i \in Nat, Scale \in Nat \ {0}
  PROVE  WithInterest(P, i) \in Nat /\ WithInterest(P, i) >= P
<1> DEFINE x == P * (Scale + i)
           q == x \div Scale
<1>1. x \in Nat /\ x >= P * Scale /\ P * Scale \in Nat
  <2>1. x = P * Scale + P * i
    OBVIOUS
  <2>2. P * Scale \in Nat /\ P * i \in Nat
    OBVIOUS
  <2> HIDE DEF x
  <2> QED
    BY <2>1, <2>2
<1> HIDE DEF x
<1>2. q \in Nat /\ q * Scale <= x /\ x < (q + 1) * Scale
  BY <1>1
<1> HIDE DEF q
<1>3. q >= P
  <2> SUFFICES ASSUME q + 1 <= P PROVE FALSE
    BY <1>2
  <2>1. (q + 1) * Scale <= P * Scale
    BY <1>2
  <2>2. (q + 1) * Scale \in Int
    BY <1>2
  <2> QED
    BY <1>1, <1>2, <2>1, <2>2
<1> QED
  BY <1>2, <1>3 DEF WithInterest, q, x

\* A schedule owes what was agreed, nothing less than nothing.
LEMMA ScheduleAddsUp ==
  ASSUME NEW total \in Nat, NEW n \in Nat \ {0}
  PROVE  /\ BuildSchedule(total, n) \in [1..n -> Nat]
         /\ Total(BuildSchedule(total, n)) = total
<1> DEFINE q == total \div n
           z == (n - 1) * q
           a == BuildSchedule(total, n)
<1>1. q \in Nat /\ q * n <= total
  OBVIOUS
<1> HIDE DEF q
<1>2. z = q * n - q /\ q * n \in Nat
  BY <1>1
<1>3. z \in Int /\ total - z >= q
  <2> DEFINE y == q * n
  <2>1. y \in Nat /\ y <= total /\ z = y - q
    BY <1>1, <1>2
  <2> HIDE DEF y, z
  <2> QED
    BY <1>1, <2>1
<1> HIDE DEF z
<1>4. a = [i \in 1..n |-> IF i = n THEN total - z ELSE q]
  BY DEF BuildSchedule, z, q
<1> HIDE DEF a
<1>5. a \in [1..n -> Nat] /\ a[n] = total - z /\ \A i \in 1..(n - 1) : a[i] = q
  BY <1>1, <1>3, <1>4
<1>6. SumOver(a, 1..(n - 1)) = q * (n - 1)
  <2>1. IsFiniteSet(1..(n - 1)) /\ Cardinality(1..(n - 1)) = n - 1
    BY FS_Interval
  <2> DEFINE S == 1..(n - 1)
  <2>2. IsFiniteSet(S) /\ Cardinality(S) = n - 1 /\ q \in Int /\ \A i \in S : a[i] = q
    BY <1>1, <1>5, <2>1
  <2> HIDE DEF S
  <2>3. SumOver(a, S) = q * Cardinality(S)
    BY <2>2, SumConst
  <2>4. SumOver(a, S) = q * (n - 1)
    BY <2>2, <2>3
  <2> QED
    BY <2>4 DEF S
<1>7. SumOver(a, 1..n) = a[n] + SumOver(a, 1..(n - 1))
  <2>1. a \in [1..n -> Int] /\ n \in 1..n
    BY <1>5
  <2>2. /\ SumOver(a, 1..(n - 1)) \in Int /\ SumOver(a, 1..n) \in Int
        /\ SumOver(a, 1..n) = SumOver(a, 1..(n - 1)) + a[n]
    BY <2>1, UpToNext
  <2>3. a[n] \in Int
    BY <1>5
  <2> QED
    BY <2>2, <2>3
<1>8. q * (n - 1) = z
  BY <1>1 DEF z
<1>9. SumOver(a, 1..n) = total
  BY <1>3, <1>5, <1>6, <1>7, <1>8
<1> QED
  BY <1>5, <1>9 DEF Total, a

\* A month begins where the one before it ends.
LEMMA Months ==
  ASSUME Length \in Seq(28..31)
  PROVE  /\ \A m \in DOMAIN Length : /\ m \in Nat \ {0} /\ Length[m] \in 28..31
                                     /\ FirstDay(m) \in Nat
                                     /\ FirstDay(m + 1) = FirstDay(m) + Length[m]
         /\ \A j, k \in DOMAIN Length : j < k => FirstDay(j) + Length[j] <= FirstDay(k)
         /\ \A m, k \in Nat \ {0} : m < k /\ k \in DOMAIN Length => m \in DOMAIN Length
<1> DEFINE n == Len(Length)
<1>1. n \in Nat /\ DOMAIN Length = 1..n /\ \A m \in 1..n : Length[m] \in 28..31
  BY LenProperties, ElementOfSeq
<1> HIDE DEF n
<1>2. Length \in [1..n -> Int] /\ \A m \in 1..n : Length[m] \in Nat
  BY <1>1
<1>3. \A m \in 1..n : SumOver(Length, 1..(m - 1)) \in Nat
  <2> SUFFICES ASSUME NEW m \in 1..n PROVE SumOver(Length, 1..(m - 1)) \in Nat
    OBVIOUS
  <2>1. m - 1 \in Int /\ \A i \in 1..(m - 1) : i \in 1..n
    BY <1>1
  <2>2. IsFiniteSet(1..(m - 1))
    BY <2>1, FS_Interval
  <2>3. \A i \in 1..(m - 1) : Length[i] \in Nat
    BY <1>2, <2>1
  <2> QED
    BY <2>2, <2>3, SumNat
<1>4. \A m \in 1..n : SumOver(Length, 1..m) = SumOver(Length, 1..(m - 1)) + Length[m]
  BY <1>1, <1>2, UpToNext
<1>5. \A m \in 1..n : /\ FirstDay(m) \in Nat
                      /\ FirstDay(m + 1) = FirstDay(m) + Length[m]
  <2> SUFFICES ASSUME NEW m \in 1..n
               PROVE  FirstDay(m) \in Nat /\ FirstDay(m + 1) = FirstDay(m) + Length[m]
    OBVIOUS
  <2>1. (m + 1) - 1 = m
    OBVIOUS
  <2>2. FirstDay(m) = 1 + SumOver(Length, 1..(m - 1)) /\ FirstDay(m + 1) = 1 + SumOver(Length, 1..m)
    BY <2>1 DEF FirstDay
  <2> DEFINE x == SumOver(Length, 1..(m - 1))
             y == SumOver(Length, 1..m)
             l == Length[m]
  <2>3. x \in Nat /\ l \in Nat /\ y = x + l
    BY <1>2, <1>3, <1>4
  <2>4. FirstDay(m) = 1 + x /\ FirstDay(m + 1) = 1 + y
    BY <2>2
  <2> HIDE DEF x, y, l
  <2>5. FirstDay(m) \in Nat /\ FirstDay(m + 1) = FirstDay(m) + l
    BY <2>3, <2>4
  <2> QED
    BY <2>5 DEF l
<1>6. ASSUME NEW j \in 1..n, NEW k \in 1..n, j < k
      PROVE  FirstDay(j) + Length[j] <= FirstDay(k)
  <2> DEFINE B == {i \in Nat : i > j /\ i <= n => FirstDay(j) + Length[j] <= FirstDay(i)}
  <2>1. 0 \in B
    OBVIOUS
  <2>2. ASSUME NEW i \in 1..k, i - 1 \in B PROVE i \in B
    <3> SUFFICES ASSUME i > j, i <= n PROVE FirstDay(j) + Length[j] <= FirstDay(i)
      OBVIOUS
    <3>1. CASE i = j + 1
      BY <1>5, <3>1
    <3>2. CASE i # j + 1
      <4>1. i - 1 \in 1..n /\ i - 1 > j /\ (i - 1) + 1 = i
        BY <1>1, <3>2
      <4>2. FirstDay(j) + Length[j] <= FirstDay(i - 1)
        BY <2>2, <4>1
      <4>3. FirstDay(i) = FirstDay(i - 1) + Length[i - 1]
        BY <1>5, <4>1
      <4>4. /\ FirstDay(j) \in Nat /\ Length[j] \in Nat /\ FirstDay(i - 1) \in Nat
            /\ Length[i - 1] \in Nat
        BY <1>2, <1>5, <4>1
      <4> QED
        BY <4>2, <4>3, <4>4
    <3> QED
      BY <3>1, <3>2
  <2>3. 0..k \subseteq B
    <3>1. B \in SUBSET Nat /\ k \in Nat
      OBVIOUS
    <3> HIDE DEF B
    <3> QED
      BY <2>1, <2>2, <3>1, CountTo
  <2>4. k \in B
    BY <2>3
  <2> QED
    BY <1>6, <2>4
<1> QED
  BY <1>1, <1>5, <1>6

\* The month of a day is the only one that has it.
LEMMA MonthIs ==
  ASSUME Length \in Seq(28..31), NEW m \in DOMAIN Length, NEW day, InMonth(m, day)
  PROVE  MonthOf(day) = m
<1>0. /\ \A k \in DOMAIN Length : /\ k \in Nat \ {0} /\ Length[k] \in 28..31
                                   /\ FirstDay(k) \in Nat
      /\ \A j, k \in DOMAIN Length : j < k => FirstDay(j) + Length[j] <= FirstDay(k)
  BY Months
<1>1. \A k \in DOMAIN Length : InMonth(k, day) => k = m
  <2> SUFFICES ASSUME NEW k \in DOMAIN Length, InMonth(k, day), k # m PROVE FALSE
    OBVIOUS
  <2>1. /\ FirstDay(k) \in Nat /\ FirstDay(m) \in Nat /\ Length[k] \in Nat /\ Length[m] \in Nat
        /\ k \in Nat /\ m \in Nat
    BY <1>0
  <2>2. FirstDay(k) + Length[k] <= FirstDay(m) \/ FirstDay(m) + Length[m] <= FirstDay(k)
    <3>1. k < m \/ m < k
      BY <2>1
    <3> QED
      BY <1>0, <3>1
  <2>3. \A a, b, x, y \in Nat : \A d :
          /\ d \in a..(a + x - 1) /\ d \in b..(b + y - 1)
          => ~ (a + x <= b \/ b + y <= a)
    OBVIOUS
  <2> QED
    BY <2>1, <2>2, <2>3 DEF InMonth
<1>2. MonthOf(day) = CHOOSE k \in DOMAIN Length : InMonth(k, day)
  BY DEF MonthOf, InMonth
<1> QED
  BY <1>1, <1>2

\* Every instalment falls due after the one before it, a monthly one in its month or in
\* the first three days of the next.
LEMMA DatesAdvance ==
  ASSUME Length \in Seq(28..31), NEW start \in Nat, NEW n \in Nat, NEW f,
         NEW m \in DOMAIN Length, InMonth(m, start),
         f = "MONTHLY" => m + n + 1 \in DOMAIN Length, NEW i \in 1..n
  PROVE  /\ DueDate(start, f, i) > IF i = 1 THEN start ELSE DueDate(start, f, i - 1)
         /\ f = "MONTHLY" =>
              \/ MonthOf(DueDate(start, f, i)) = MonthOf(start) + i
              \/ DueDate(start, f, i) - FirstDay(MonthOf(start) + i + 1) \in 0..2
<1>0. /\ \A k \in DOMAIN Length : /\ k \in Nat \ {0} /\ Length[k] \in 28..31
                                   /\ FirstDay(k) \in Nat
                                   /\ FirstDay(k + 1) = FirstDay(k) + Length[k]
      /\ \A j, k \in Nat \ {0} : j < k /\ k \in DOMAIN Length => j \in DOMAIN Length
  BY Months
<1>1. MonthOf(start) = m
  BY MonthIs
<1>2. CASE f = "MONTHLY"
  <2> DEFINE off == start - FirstDay(m)
             k == m + i
  <2>1. /\ m \in Nat \ {0} /\ k \in Nat \ {0} /\ k - 1 \in Nat \ {0}
        /\ k < m + n + 1 /\ k - 1 < m + n + 1 /\ m + n + 1 \in Nat \ {0}
    BY <1>0
  <2>2. k \in DOMAIN Length /\ k - 1 \in DOMAIN Length /\ (k - 1) + 1 = k
    <3>1. m + n + 1 \in DOMAIN Length
      BY <1>2
    <3>2. k \in DOMAIN Length /\ k - 1 \in DOMAIN Length
      BY <1>0, <2>1, <3>1
    <3> QED
      BY <2>1, <3>2
  <2>3. /\ FirstDay(m) \in Nat /\ FirstDay(k) \in Nat /\ FirstDay(k - 1) \in Nat
        /\ FirstDay(k) = FirstDay(k - 1) + Length[k - 1] /\ Length[k - 1] \in 28..31
        /\ FirstDay(k + 1) = FirstDay(k) + Length[k] /\ Length[k] \in 28..31
        /\ Length[m] \in 28..31
    <3>1. /\ FirstDay(k - 1) \in Nat /\ Length[k - 1] \in 28..31
          /\ FirstDay((k - 1) + 1) = FirstDay(k - 1) + Length[k - 1]
      BY <1>0, <2>2
    <3> QED
      BY <1>0, <2>2, <3>1
  <2>n. /\ \A b \in Nat : \A c \in 28..31 : \A e \in 0..30 :
             /\ e < c => b + e \in b..(b + c - 1)
             /\ ~ (e < c) => (b + e) - (b + c) \in 0..2
        /\ \A b \in Nat : \A c \in 28..31 : \A e \in 0..30 : (b + c) + e > b + e
    OBVIOUS
  <2>4. off \in 0..30 /\ start = FirstDay(m) + off
    <3>1. start \in FirstDay(m)..(FirstDay(m) + Length[m] - 1)
      BY DEF InMonth
    <3>2. FirstDay(m) \in Nat /\ Length[m] <= 31 /\ Length[m] \in Nat
      <4>1. \A l \in 28..31 : l <= 31 /\ l \in Nat
        OBVIOUS
      <4>2. FirstDay(m) \in Nat /\ Length[m] \in 28..31
        BY <1>0
      <4> QED
        BY <4>1, <4>2
    <3> DEFINE a == FirstDay(m)
               l == Length[m]
    <3>3. start \in a..(a + l - 1) /\ a \in Nat /\ l <= 31 /\ l \in Nat
      BY <3>1, <3>2
    <3> HIDE DEF a, l
    <3>4. start - a \in 0..30 /\ start = a + (start - a)
      BY <3>3
    <3> QED
      BY <3>4 DEF a
  <2>5. DueDate(start, f, i) = FirstDay(k) + off
    BY <1>1, <1>2 DEF DueDate
  <2>6. (IF i = 1 THEN start ELSE DueDate(start, f, i - 1)) = FirstDay(k - 1) + off
    <3>1. CASE i = 1
      <4>1. k - 1 = m
        BY <3>1, <2>1
      <4> QED
        BY <2>4, <3>1, <4>1
    <3>2. CASE i # 1
      <4>1. m + (i - 1) = k - 1
        BY <2>1
      <4>2. DueDate(start, f, i - 1) = FirstDay(m + (i - 1)) + off
        BY <1>1, <1>2 DEF DueDate
      <4> QED
        BY <3>2, <4>1, <4>2
    <3> QED
      BY <3>1, <3>2
  <2> HIDE DEF off, k
  <2>7. DueDate(start, f, i) > IF i = 1 THEN start ELSE DueDate(start, f, i - 1)
    <3>1. (FirstDay(k - 1) + Length[k - 1]) + off > FirstDay(k - 1) + off
      BY <2>3, <2>4, <2>n
    <3>2. FirstDay(k) + off > FirstDay(k - 1) + off
      BY <2>3, <3>1
    <3> QED
      BY <2>5, <2>6, <3>2
  <2>8. CASE off < Length[k]
    <3>1. InMonth(k, FirstDay(k) + off)
      BY <2>3, <2>4, <2>8, <2>n DEF InMonth
    <3>2. MonthOf(FirstDay(k) + off) = k
      BY <2>2, <3>1, MonthIs
    <3> QED
      BY <1>1, <2>5, <2>7, <3>2 DEF k
  <2>9. CASE ~ (off < Length[k])
    <3>1. (FirstDay(k) + off) - FirstDay(k + 1) \in 0..2
      <4>1. (FirstDay(k) + off) - (FirstDay(k) + Length[k]) \in 0..2
        BY <2>3, <2>4, <2>9, <2>n
      <4> QED
        BY <2>3, <4>1
    <3>2. MonthOf(start) + i + 1 = k + 1
      BY <1>1, <2>1 DEF k
    <3> QED
      BY <2>5, <2>7, <3>1, <3>2
  <2> QED
    BY <2>8, <2>9
<1>3. CASE f = "WEEKLY"
  BY <1>3 DEF DueDate
<1>4. CASE f = "BIWEEKLY"
  BY <1>4 DEF DueDate
<1>5. CASE f \notin {"MONTHLY", "WEEKLY", "BIWEEKLY"}
  BY <1>5 DEF DueDate
<1> QED
  BY <1>2, <1>3, <1>4, <1>5

-----------------------------------------------------------------------------
(* MigratedCredit: what is kept of the past.                                *)

\* If money is left, every instalment is full.
LEMMA AllFilled ==
  ASSUME NEW n \in Nat, NEW due \in [1..n -> Nat], NEW sofar \in [1..n -> Nat],
         \A i \in 1..n : sofar[i] <= due[i], NEW amount \in Nat,
         LeftAfter(due, sofar, amount)[n] > 0
  PROVE  \A i \in 1..n : sofar[i] + Cascade(due, sofar, amount)[i] = due[i]
<1> DEFINE left == LeftAfter(due, sofar, amount)
           a == Cascade(due, sofar, amount)
<1>1. \A j \in 0..n : left[j] > 0 => \A i \in 1..j : sofar[i] + a[i] = due[i]
  BY CascadeOldestFirst
<1>2. n \in 0..n
  OBVIOUS
<1> HIDE DEF left, a
<1>3. left[n] > 0
  BY DEF left
<1>4. \A i \in 1..n : sofar[i] + a[i] = due[i]
  BY <1>1, <1>2, <1>3
<1> QED
  BY <1>4 DEF a

\* A cascade of what fits in the schedule takes all of it.
LEMMA TakesAll ==
  ASSUME NEW n \in Nat \ {0}, NEW due \in [1..n -> Nat], NEW none \in [1..n -> Nat],
         \A i \in 1..n : none[i] = 0, NEW x \in Nat, x <= Total(due)
  PROVE  LET a == Cascade(due, none, x) IN
         /\ a \in [1..n -> Nat] /\ Total(a) = x
         /\ \A i \in 1..n : a[i] <= due[i]
<1> DEFINE a == Cascade(due, none, x)
           left == LeftAfter(due, none, x)
<1>1. \A i \in 1..n : none[i] <= due[i]
  OBVIOUS
<1>2. /\ \A i \in 0..n : left[i] \in Nat
      /\ a \in [1..n -> Nat]
      /\ \A i \in 1..n : none[i] + a[i] <= due[i]
  BY <1>1, LeftFacts
<1>3. Total(a) = x - left[n]
  BY <1>1, CascadeSum
<1>4. left[n] > 0 => \A i \in 1..n : none[i] + a[i] = due[i]
  BY <1>1, AllFilled
<1> HIDE DEF a, left
<1>5. \A i \in 1..n : a[i] <= due[i] /\ none[i] + a[i] = a[i]
  BY <1>2
<1>6. ~ (left[n] > 0)
  <2> SUFFICES ASSUME left[n] > 0 PROVE FALSE
    OBVIOUS
  <2>1. \A i \in 1..n : a[i] = due[i]
    BY <1>4, <1>5
  <2>2. IsFiniteSet(1..n)
    BY FS_Interval
  <2>3. SumOver(a, 1..n) = SumOver(due, 1..n)
    BY <2>1, <2>2, SumEqual
  <2>4. Total(a) = Total(due)
    BY <1>2, <2>3 DEF Total
  <2>5. left[n] \in Nat
    BY <1>2
  <2>6. x - left[n] >= x
    BY <1>3, <2>4
  <2> QED
    BY <2>5, <2>6
<1>7. Total(a) = x
  <2>1. left[n] \in Nat
    BY <1>2
  <2> QED
    BY <1>3, <1>6, <2>1
<1> QED
  BY <1>2, <1>5, <1>7 DEF a

\* Differences add up to the last less the first.
LEMMA Telescope ==
  ASSUME NEW m \in Nat, NEW c, NEW r, \A k \in 0..m : r[k] \in Int,
         \A k \in 1..m : c[k] = r[k] - r[k - 1]
  PROVE  SumOver(c, 1..m) = r[m] - r[0]
<1> DEFINE f == [k \in 1..m |-> c[k]]
           B == {k \in 0..m : SumOver(f, 1..k) = r[k] - r[0]}
<1>1. f \in [1..m -> Int] /\ \A k \in 1..m : f[k] = r[k] - r[k - 1]
  OBVIOUS
<1>2. SumOver(c, 1..m) = SumOver(f, 1..m)
  <2>1. IsFiniteSet(1..m) /\ \A k \in 1..m : c[k] = f[k]
    BY FS_Interval
  <2> HIDE DEF f
  <2> QED
    BY <2>1, SumEqual
<1> HIDE DEF f
<1>3. 0 \in B
  <2>1. 1..0 = {} /\ r[0] \in Int
    OBVIOUS
  <2> QED
    BY <2>1, SumEmpty
<1>4. ASSUME NEW k \in 1..m, k - 1 \in B PROVE k \in B
  <2>1. SumOver(f, 1..k) = SumOver(f, 1..(k - 1)) + f[k]
    BY <1>1, UpToNext
  <2>2. /\ SumOver(f, 1..(k - 1)) = r[k - 1] - r[0] /\ f[k] = r[k] - r[k - 1]
        /\ r[k] \in Int /\ r[k - 1] \in Int /\ r[0] \in Int /\ k \in 0..m
    BY <1>1, <1>4
  <2> QED
    BY <2>1, <2>2
<1>5. 0..m \subseteq B
  <2>1. B \in SUBSET Nat
    OBVIOUS
  <2> HIDE DEF B
  <2> QED
    BY <1>3, <1>4, <2>1, CountTo
<1>6. m \in B
  BY <1>5
<1> QED
  BY <1>2, <1>6

\* An instant of a day of the past is of that day, and is past.
LEMMA Instants ==
  ASSUME NEW t \in Nat, NEW d \in Nat, NEW e \in Nat, d <= Day(t), e <= d
  PROVE  /\ Day(HistoricalInstant(d, t)) = d
         /\ HistoricalInstant(d, t) <= t /\ HistoricalInstant(d, t) \in Nat
         /\ HistoricalInstant(e, t) <= HistoricalInstant(d, t)
<1> DEFINE q == t \div 2
<1>1. q \in Nat /\ 2 * q <= t /\ t <= 2 * q + 1
  OBVIOUS
<1>2. (2 * d + 1) \div 2 = d /\ (2 * d) \div 2 = d
  OBVIOUS
<1>3. d <= q
  BY DEF Day
<1> HIDE DEF q
<1>4. HistoricalInstant(d, t) \in {2 * d, 2 * d + 1}
  BY <1>1, <1>3 DEF HistoricalInstant, Lesser, Noon
<1>5. Day(HistoricalInstant(d, t)) = d
  BY <1>2, <1>4 DEF Day
<1>6. /\ HistoricalInstant(d, t) <= t /\ HistoricalInstant(d, t) \in Nat
      /\ HistoricalInstant(e, t) <= HistoricalInstant(d, t)
  BY DEF HistoricalInstant, Lesser, Noon
<1> QED
  BY <1>5, <1>6

\* The first payments come to no more than all of them.
LEMMA UntilGrows ==
  ASSUME NEW m \in Nat, NEW q, DOMAIN q = 1..m, \A k \in 1..m : q[k].amount \in Nat,
         NEW k \in 0..m
  PROVE  SumOver(AmountsOf(q), 1..k) <= SumOver(AmountsOf(q), 1..m)
<1> DEFINE a == AmountsOf(q)
           S == 1..m
           U == 1..k
           V == S \ U
<1>1. a \in [1..m -> Nat]
  BY DEF AmountsOf
<1>2. IsFiniteSet(S) /\ U \in SUBSET S /\ V \in SUBSET S /\ \A x \in S : a[x] \in Nat
  <2>1. IsFiniteSet(S)
    BY FS_Interval
  <2>2. \A i \in U : i \in S
    OBVIOUS
  <2>3. \A x \in S : a[x] \in Nat
    BY <1>1
  <2> HIDE DEF a, S, U
  <2> QED
    BY <2>1, <2>2, <2>3
<1> HIDE DEF a, S, U
<1>3. SumOver(a, S) = SumOver(a, U) + SumOver(a, V)
  <2>1. \A x \in S : a[x] \in Int
    BY <1>2
  <2>2. V = S \ U
    OBVIOUS
  <2> HIDE DEF V
  <2> QED
    BY <1>2, <2>1, <2>2, SumSplit
<1> HIDE DEF V
<1>4. IsFiniteSet(U) /\ IsFiniteSet(V) /\ (\A x \in U : a[x] \in Nat) /\ \A x \in V : a[x] \in Nat
  BY <1>2, FS_Subset
<1>5. SumOver(a, U) \in Nat /\ SumOver(a, V) \in Nat
  BY <1>4, SumNat
<1>6. SumOver(a, U) <= SumOver(a, S)
  BY <1>3, <1>5
<1> QED
  BY <1>6 DEF a, S, U

\* The payments of the past, each in its stage: c has the schedule due, of which q came to
\* be paid.
StagesOf(n, due, none, m, q) ==
  LET until(k) == SumOver(AmountsOf(q), 1..k)
      sofar == PaidAfter(due, q)
      part(k) == Cascade(due, sofar[k - 1], q[k].amount)
  IN /\ \A k \in 0..m : /\ until(k) \in Nat /\ sofar[k] = Cascade(due, none, until(k))
                        /\ sofar[k] \in [1..n -> Nat] /\ Total(sofar[k]) = until(k)
                        /\ \A i \in 1..n : sofar[k][i] <= due[i]
     /\ \A k \in 1..m : /\ part(k) \in [1..n -> Nat]
                        /\ \A i \in 1..n : sofar[k - 1][i] + part(k)[i] = sofar[k][i]
                        /\ until(k) = until(k - 1) + Total(part(k))
     /\ until(0) = 0

LEMMA Stages ==
  ASSUME NEW n \in Nat \ {0}, NEW due \in [1..n -> Nat], NEW none \in [1..n -> Nat],
         \A i \in 1..n : none[i] = 0, NEW m \in Nat, NEW q, DOMAIN q = 1..m, Len(q) = m,
         \A k \in 1..m : q[k].amount \in Nat, SumOf(q) <= Total(due)
  PROVE  StagesOf(n, due, none, m, q)
<1> DEFINE until(k) == SumOver(AmountsOf(q), 1..k)
           sofar == PaidAfter(due, q)
           part(k) == Cascade(due, sofar[k - 1], q[k].amount)
<1>1. /\ until(0) = 0
      /\ \A k \in 0..m : until(k) \in Nat
      /\ \A k \in 1..m : until(k) = until(k - 1) + q[k].amount
      /\ SumOf(q) = until(m)
  BY UntilFacts
<1>2. \A k \in 0..m : until(k) <= until(m)
  BY UntilGrows
<1>3. /\ \A k \in 0..m : sofar[k] = Cascade(due, none, until(k))
      /\ \A k \in 1..m : \A i \in 1..n : sofar[k][i] = sofar[k - 1][i] + part(k)[i]
  <2>1. /\ n \in Nat /\ due \in [1..n -> Nat] /\ none \in [1..n -> Nat] /\ m \in Nat
        /\ \A i \in 1..n : none[i] = 0
        /\ DOMAIN q = 1..m /\ Len(q) = m /\ \A k \in 1..m : q[k].amount \in Nat
    OBVIOUS
  <2>2. InStagesOf(n, due, none, m, q)
    BY <2>1, InStages
  <2> QED
    BY <2>2 DEF InStagesOf
<1> HIDE DEF until, sofar
<1>4. ASSUME NEW k \in 0..m
      PROVE  /\ until(k) \in Nat /\ sofar[k] = Cascade(due, none, until(k))
             /\ sofar[k] \in [1..n -> Nat] /\ Total(sofar[k]) = until(k)
             /\ \A i \in 1..n : sofar[k][i] <= due[i]
  <2> DEFINE x == until(k)
  <2>1. x \in Nat /\ x <= Total(due)
    <3>1. Total(due) \in Nat
      <4>1. n \in Int /\ \A i \in 1..n : due[i] \in Nat
        OBVIOUS
      <4>2. IsFiniteSet(1..n)
        BY <4>1, FS_Interval
      <4>3. SumOver(due, 1..n) \in Nat
        BY <4>1, <4>2, SumNat
      <4> QED
        BY <4>3 DEF Total
    <3>2. until(m) \in Nat /\ until(k) \in Nat /\ until(k) <= until(m)
      BY <1>1, <1>2
    <3> QED
      BY <1>1, <3>1, <3>2
  <2>2. sofar[k] = Cascade(due, none, x)
    BY <1>3
  <2> HIDE DEF x
  <2>3. /\ Cascade(due, none, x) \in [1..n -> Nat] /\ Total(Cascade(due, none, x)) = x
        /\ \A i \in 1..n : Cascade(due, none, x)[i] <= due[i]
    BY <2>1, TakesAll
  <2> QED
    BY <2>1, <2>2, <2>3 DEF x
<1>5. ASSUME NEW k \in 1..m
      PROVE  /\ part(k) \in [1..n -> Nat]
             /\ \A i \in 1..n : sofar[k - 1][i] + part(k)[i] = sofar[k][i]
             /\ until(k) = until(k - 1) + Total(part(k))
  <2> DEFINE a == part(k)
             f == sofar[k - 1]
             g == sofar[k]
  <2>1. k \in 0..m /\ k - 1 \in 0..m /\ q[k].amount \in Nat
    OBVIOUS
  <2>2. /\ f \in [1..n -> Nat] /\ g \in [1..n -> Nat] /\ \A i \in 1..n : f[i] <= due[i]
        /\ Total(f) = until(k - 1) /\ Total(g) = until(k)
    BY <1>4, <2>1
  <2>3. a \in [1..n -> Nat]
    <3> HIDE DEF f
    <3>1. Cascade(due, f, q[k].amount) \in [1..n -> Nat]
      BY <2>1, <2>2, LeftFacts
    <3> QED
      BY <3>1 DEF f
  <2>4. \A i \in 1..n : g[i] = f[i] + a[i]
    BY <1>3
  <2> HIDE DEF a, f, g
  <2>5. Total(g) = Total(f) + Total(a)
    <3>1. IsFiniteSet(1..n)
      BY FS_Interval
    <3>2. \A i \in 1..n : f[i] \in Int /\ a[i] \in Int /\ g[i] = f[i] + a[i]
      BY <2>2, <2>3, <2>4
    <3>3. SumOver(g, 1..n) = SumOver(f, 1..n) + SumOver(a, 1..n)
      BY <3>1, <3>2, SumPlus
    <3> QED
      BY <2>2, <2>3, <3>3 DEF Total
  <2>6. until(k) = until(k - 1) + Total(a)
    BY <2>2, <2>5
  <2>7. \A i \in 1..n : f[i] + a[i] = g[i]
    BY <2>4
  <2> QED
    BY <2>3, <2>6, <2>7 DEF a, f, g
<1> HIDE DEF part
<1>6. /\ \A k \in 0..m : /\ until(k) \in Nat /\ sofar[k] = Cascade(due, none, until(k))
                         /\ sofar[k] \in [1..n -> Nat] /\ Total(sofar[k]) = until(k)
                         /\ \A i \in 1..n : sofar[k][i] <= due[i]
      /\ \A k \in 1..m : /\ part(k) \in [1..n -> Nat]
                         /\ \A i \in 1..n : sofar[k - 1][i] + part(k)[i] = sofar[k][i]
                         /\ until(k) = until(k - 1) + Total(part(k))
  BY <1>4, <1>5
<1> QED
  BY <1>1, <1>6 DEF StagesOf, until, sofar, part

\* The capital of each payment, by what the earlier ones recovered.
CapitalOf(P, T, due, q, m, c) ==
  \A k \in 1..m : c[k] = Total(SplitPrincipal(P, T, Total(PaidAfter(due, q)[k - 1]),
                            Cascade(due, PaidAfter(due, q)[k - 1], q[k].amount)))

\* The capital of each payment is what it adds to the capital recovered, and all of them
\* that of the sum.
LEMMA CapitalOfStages ==
  ASSUME NEW n \in Nat, NEW due, NEW none, NEW m \in Nat, NEW q, StagesOf(n, due, none, m, q),
         NEW P \in Nat, NEW T \in Nat, T > 0, P <= T, NEW c,
         CapitalOf(P, T, due, q, m, c)
  PROVE  SumOver(c, 1..m) = PrincipalRecovered(P, T, Total(PaidAfter(due, q)[m]))
<1> DEFINE until(k) == SumOver(AmountsOf(q), 1..k)
           sofar == PaidAfter(due, q)
           part(k) == Cascade(due, sofar[k - 1], q[k].amount)
           r == [k \in 0..m |-> PrincipalRecovered(P, T, until(k))]
<1>1. /\ \A k \in 0..m : until(k) \in Nat /\ Total(sofar[k]) = until(k)
      /\ \A k \in 1..m : part(k) \in [1..n -> Nat] /\ until(k) = until(k - 1) + Total(part(k))
      /\ until(0) = 0
  BY DEF StagesOf
<1>2. \A k \in 1..m : c[k] = Total(SplitPrincipal(P, T, Total(sofar[k - 1]), part(k)))
  BY DEF CapitalOf
<1> HIDE DEF until, sofar, part
<1>3. \A k \in 0..m : r[k] \in Int /\ r[k] = PrincipalRecovered(P, T, until(k))
  <2> SUFFICES ASSUME NEW k \in 0..m PROVE PrincipalRecovered(P, T, until(k)) \in Int
    OBVIOUS
  <2>1. until(k) \in Nat /\ 0 \in Nat
    BY <1>1
  <2>2. PrincipalRecovered(P, T, until(k)) \in Nat
    BY <2>1, RecoveredFacts
  <2> QED
    BY <2>2
<1>4. ASSUME NEW k \in 1..m PROVE c[k] = r[k] - r[k - 1]
  <2> DEFINE a == part(k)
             x == until(k - 1)
  <2>1. k \in 0..m /\ k - 1 \in 0..m
    OBVIOUS
  <2>2. a \in [1..n -> Nat] /\ x \in Nat /\ Total(sofar[k - 1]) = x /\ until(k) = x + Total(a)
    BY <1>1, <2>1
  <2>3. c[k] = Total(SplitPrincipal(P, T, x, a))
    BY <1>2, <2>2
  <2>4. r[k] = PrincipalRecovered(P, T, until(k)) /\ r[k - 1] = PrincipalRecovered(P, T, x)
    BY <1>3, <2>1
  <2> HIDE DEF a, x, r
  <2>5. Total(SplitPrincipal(P, T, x, a))
          = PrincipalRecovered(P, T, x + Total(a)) - PrincipalRecovered(P, T, x)
    <3>1. /\ n \in Nat /\ a \in [1..n -> Nat] /\ x \in Nat
          /\ P \in Nat /\ T \in Nat /\ T > 0 /\ P <= T
      BY <2>2
    <3> QED
      BY <3>1, SplitFacts
  <2> QED
    BY <2>2, <2>3, <2>4, <2>5
<1> HIDE DEF r
<1>5. SumOver(c, 1..m) = r[m] - r[0]
  <2>1. m \in Nat /\ \A k \in 0..m : r[k] \in Int
    BY <1>3
  <2>2. \A k \in 1..m : c[k] = r[k] - r[k - 1]
    BY <1>4
  <2> QED
    BY <2>1, <2>2, Telescope
<1>6. r[0] = 0
  <2>1. PrincipalRecovered(P, T, 0) = 0
    BY RecoveredWhole
  <2> QED
    BY <1>1, <1>3, <2>1
<1>7. r[m] = PrincipalRecovered(P, T, Total(sofar[m])) /\ r[m] \in Int
  <2>1. m \in 0..m
    OBVIOUS
  <2> QED
    BY <1>1, <1>3, <2>1
<1>8. SumOver(c, 1..m) = PrincipalRecovered(P, T, Total(sofar[m]))
  BY <1>5, <1>6, <1>7
<1> QED
  BY <1>8 DEF sofar

\* What is paid within the schedule and comes to all of it is the schedule.
LEMMA AllPaid ==
  ASSUME NEW n \in Nat, NEW due \in [1..n -> Nat], NEW sofar \in [1..n -> Nat],
         \A i \in 1..n : sofar[i] <= due[i]
  PROVE  Total(sofar) = Total(due) <=> sofar = due
<1> DEFINE owed == Remaining(due, sofar)
<1>1. /\ IsFiniteSet(1..n) /\ DOMAIN owed = 1..n
      /\ \A i \in 1..n : due[i] \in Int /\ sofar[i] \in Int /\ owed[i] = due[i] - sofar[i]
  <2>1. IsFiniteSet(1..n)
    BY FS_Interval
  <2> QED
    BY <2>1 DEF Remaining
<1>2. Total(owed) = 0 <=> \A i \in 1..n : sofar[i] = due[i]
  BY BalanceZero DEF PortfolioBalance
<1> HIDE DEF owed
<1>3. SumOver(owed, 1..n) = SumOver(due, 1..n) - SumOver(sofar, 1..n)
  BY <1>1, SumMinus
<1>4. Total(owed) = Total(due) - Total(sofar)
  BY <1>1, <1>3 DEF Total
<1>5. Total(due) \in Int /\ Total(sofar) \in Int
  <2>1. SumOver(due, 1..n) \in Int /\ SumOver(sofar, 1..n) \in Int
    BY <1>1, SumInt
  <2> QED
    BY <2>1 DEF Total
<1>6. (\A i \in 1..n : sofar[i] = due[i]) <=> sofar = due
  OBVIOUS
<1> QED
  BY <1>2, <1>4, <1>5, <1>6

\* The plan of a form, with its parts named: total T, schedule due, payments q by their days.
PlanParts(c, form, t, T, due, q, m) ==
  /\ c.start = form.start /\ c.frequency = form.frequency
  /\ c.principal = form.principal /\ c.total = T /\ c.due = due
  /\ c.dates = [i \in 1..form.n |-> DueDate(form.start, form.frequency, i)]
  /\ c.payments = [k \in 1..m |->
       [on |-> q[k].on, amount |-> q[k].amount, at |-> HistoricalInstant(q[k].on, t),
        alloc |-> Cascade(due, PaidAfter(due, q)[k - 1], q[k].amount),
        capital |-> SplitPrincipal(form.principal, T, Total(PaidAfter(due, q)[k - 1]),
                                   Cascade(due, PaidAfter(due, q)[k - 1], q[k].amount))]]
  /\ c.paid = PaidAfter(due, q)[m]
  /\ c.status = IF SumOf(q) = T /\ T > 0 THEN "SETTLED" ELSE "ACTIVE"

LEMMA PlanHasParts ==
  ASSUME NEW form, NEW t, NEW m, DOMAIN ByDate(form.payments) = 1..m,
         Len(ByDate(form.payments)) = m
  PROVE  LET T == WithInterest(form.principal, form.interest)
         IN  PlanParts(PlanOf(form, t), form, t, T, BuildSchedule(T, form.n),
                       ByDate(form.payments), m)
<1> DEFINE T == WithInterest(form.principal, form.interest)
           due == BuildSchedule(T, form.n)
           q == ByDate(form.payments)
           sofar == PaidAfter(due, q)
           part == [k \in 1..m |-> Cascade(due, sofar[k - 1], q[k].amount)]
           c == [ref |-> form.ref, start |-> form.start, frequency |-> form.frequency,
                 principal |-> form.principal, total |-> T, due |-> due,
                 dates |-> [i \in 1..form.n |-> DueDate(form.start, form.frequency, i)],
                 payments |-> [k \in 1..m |->
                      [on |-> q[k].on, amount |-> q[k].amount,
                       at |-> HistoricalInstant(q[k].on, t),
                       alloc |-> part[k],
                       capital |-> SplitPrincipal(form.principal, T,
                                                  Total(sofar[k - 1]), part[k])]],
                 paid |-> sofar[m],
                 status |-> IF SumOf(q) = T /\ T > 0 THEN "SETTLED" ELSE "ACTIVE"]
<1>1. PlanOf(form, t) = c
  BY DEF PlanOf
<1>2. \A k \in 1..m : part[k] = Cascade(due, sofar[k - 1], q[k].amount)
  OBVIOUS
<1> HIDE DEF T, due, q, sofar, part
<1>3. c.payments = [k \in 1..m |->
       [on |-> q[k].on, amount |-> q[k].amount, at |-> HistoricalInstant(q[k].on, t),
        alloc |-> Cascade(due, sofar[k - 1], q[k].amount),
        capital |-> SplitPrincipal(form.principal, T, Total(sofar[k - 1]),
                                   Cascade(due, sofar[k - 1], q[k].amount))]]
  BY <1>2
<1>4. /\ c.start = form.start /\ c.frequency = form.frequency
      /\ c.principal = form.principal /\ c.total = T /\ c.due = due
      /\ c.dates = [i \in 1..form.n |-> DueDate(form.start, form.frequency, i)]
      /\ c.paid = sofar[m]
      /\ c.status = IF SumOf(q) = T /\ T > 0 THEN "SETTLED" ELSE "ACTIVE"
  OBVIOUS
<1> HIDE DEF c
<1> QED
  BY <1>1, <1>3, <1>4 DEF PlanParts, T, due, q, sofar

\* A plan with a schedule that adds up holds.
LEMMA PartsSchedule ==
  ASSUME Length \in Seq(28..31), NEW form, form.start \in Nat, form.n \in Nat \ {0},
         NEW mo \in DOMAIN Length, InMonth(mo, form.start),
         form.frequency = "MONTHLY" => mo + form.n + 1 \in DOMAIN Length,
         NEW t, NEW T \in Nat, form.principal \in Nat, T >= form.principal,
         NEW due \in [1..form.n -> Nat], Total(due) = T,
         NEW c, NEW q, NEW m, PlanParts(c, form, t, T, due, q, m)
  PROVE  ScheduleHolds(c)
<1> DEFINE n == form.n
           start == form.start
           f == form.frequency
<1>1. /\ c.start = start /\ c.frequency = f /\ c.principal = form.principal
      /\ c.total = T /\ c.due = due /\ c.dates = [i \in 1..n |-> DueDate(start, f, i)]
  BY DEF PlanParts
<1>2. DOMAIN c.due = 1..n /\ n \in Nat
  BY <1>1
<1>3. ASSUME NEW i \in 1..n
      PROVE  /\ c.due[i] >= 0
             /\ c.dates[i] > IF i = 1 THEN c.start ELSE c.dates[i - 1]
             /\ c.frequency = "MONTHLY" =>
                  \/ MonthOf(c.dates[i]) = MonthOf(c.start) + i
                  \/ c.dates[i] - FirstDay(MonthOf(c.start) + i + 1) \in 0..2
  <2>1. /\ DueDate(start, f, i) > IF i = 1 THEN start ELSE DueDate(start, f, i - 1)
        /\ f = "MONTHLY" =>
              \/ MonthOf(DueDate(start, f, i)) = MonthOf(start) + i
              \/ DueDate(start, f, i) - FirstDay(MonthOf(start) + i + 1) \in 0..2
    <3> HIDE DEF n, start, f
    <3>1. /\ start \in Nat /\ n \in Nat /\ InMonth(mo, start)
          /\ f = "MONTHLY" => mo + n + 1 \in DOMAIN Length
      BY DEF n, start, f
    <3> QED
      BY <3>1, DatesAdvance
  <2>2. /\ c.dates[i] = DueDate(start, f, i)
        /\ i # 1 => c.dates[i - 1] = DueDate(start, f, i - 1)
    <3>1. i # 1 => i - 1 \in 1..n
      OBVIOUS
    <3> QED
      BY <1>1, <3>1
  <2>3. c.due[i] \in Nat
    BY <1>1
  <2> HIDE DEF n, start, f
  <2> QED
    BY <1>1, <2>1, <2>2, <2>3
<1> QED
  BY <1>1, <1>2, <1>3 DEF ScheduleHolds

\* A plan whose payments are in stages keeps the history.
LEMMA PartsHistory ==
  ASSUME NEW n \in Nat \ {0}, NEW zero, zero = [i \in 1..n |-> 0],
         NEW due \in [1..n -> Nat], NEW T \in Nat, T > 0, Total(due) = T,
         NEW form, form.principal \in Nat, form.principal <= T,
         NEW t \in Nat, NEW m \in Nat, NEW q, DOMAIN q = 1..m, Len(q) = m,
         \A k \in 1..m : q[k].amount \in Nat /\ q[k].on \in Nat /\ q[k].on <= Day(t),
         \A j, k \in 1..m : j < k => q[j].on <= q[k].on,
         StagesOf(n, due, zero, m, q),
         NEW c, PlanParts(c, form, t, T, due, q, m)
  PROVE  HistoryKept(c) /\ \A j \in DOMAIN c.payments : c.payments[j].at \in 0..t
<1> DEFINE until(k) == SumOver(AmountsOf(q), 1..k)
           sofar == PaidAfter(due, q)
           part(k) == Cascade(due, sofar[k - 1], q[k].amount)
           split(k) == SplitPrincipal(form.principal, T, Total(sofar[k - 1]), part(k))
           capital == [j \in DOMAIN c.payments |-> Total(c.payments[j].capital)]
<1>1. /\ c.principal = form.principal /\ c.total = T /\ c.due = due /\ c.paid = sofar[m]
      /\ c.status = (IF SumOf(q) = T /\ T > 0 THEN "SETTLED" ELSE "ACTIVE")
      /\ c.payments = [k \in 1..m |->
           [on |-> q[k].on, amount |-> q[k].amount, at |-> HistoricalInstant(q[k].on, t),
            alloc |-> part(k), capital |-> split(k)]]
  BY DEF PlanParts
<1>2. /\ \A k \in 0..m : /\ until(k) \in Nat /\ sofar[k] = Cascade(due, zero, until(k))
                         /\ sofar[k] \in [1..n -> Nat] /\ Total(sofar[k]) = until(k)
                         /\ \A i \in 1..n : sofar[k][i] <= due[i]
      /\ \A k \in 1..m : /\ part(k) \in [1..n -> Nat]
                         /\ \A i \in 1..n : sofar[k - 1][i] + part(k)[i] = sofar[k][i]
      /\ until(0) = 0
  BY DEF StagesOf
<1>3. SumOver([k \in 1..m |-> Total(split(k))], 1..m)
        = PrincipalRecovered(form.principal, T, Total(sofar[m]))
  <2> DEFINE r == [k \in 1..m |-> Total(split(k))]
             P == form.principal
  <2>1. CapitalOf(P, T, due, q, m, r)
    BY DEF CapitalOf
  <2>2. /\ n \in Nat /\ m \in Nat /\ StagesOf(n, due, zero, m, q)
        /\ P \in Nat /\ T \in Nat /\ T > 0 /\ P <= T
    OBVIOUS
  <2> HIDE DEF r, P
  <2>3. SumOver(r, 1..m) = PrincipalRecovered(P, T, Total(PaidAfter(due, q)[m]))
    BY <2>1, <2>2, CapitalOfStages
  <2> QED
    BY <2>3 DEF r, P
<1>4. SumOf(q) = until(m)
  <2>1. \A k \in 1..m : q[k].amount \in Nat
    OBVIOUS
  <2> QED
    BY <2>1, UntilFacts
<1> HIDE DEF until, sofar, part, split
<1>5. /\ DOMAIN c.payments = 1..m /\ Len(c.payments) = m
      /\ \A k \in 1..m : /\ c.payments[k].on = q[k].on /\ c.payments[k].amount = q[k].amount
                         /\ c.payments[k].at = HistoricalInstant(q[k].on, t)
                         /\ c.payments[k].alloc = part(k) /\ c.payments[k].capital = split(k)
  BY <1>1
<1>6. AmountsOf(c.payments) = AmountsOf(q)
  BY <1>5 DEF AmountsOf
<1>7. \A k : SumOver(AmountsOf(c.payments), 1..k) = until(k)
  BY <1>6 DEF until
<1>8. m \in 0..m /\ \A k \in 1..m : k \in 0..m /\ k - 1 \in 0..m
  OBVIOUS
<1>9. DOMAIN c.due = 1..n /\ zero = [i \in DOMAIN c.due |-> 0]
  BY <1>1
<1>10. Total(capital) = PrincipalRecovered(c.principal, c.total, Total(c.paid))
  <2>1. capital = [k \in 1..m |-> Total(split(k))]
    BY <1>5
  <2>2. DOMAIN capital = 1..m
    BY <1>5
  <2> HIDE DEF capital
  <2>3. SumOver(capital, 1..m) = PrincipalRecovered(form.principal, T, Total(sofar[m]))
    BY <1>3, <2>1
  <2> QED
    BY <1>1, <2>2, <2>3 DEF Total
<1>11. c.status = "SETTLED" <=> c.paid = c.due
  <2> DEFINE p == sofar[m]
  <2>1. /\ p \in [1..n -> Nat] /\ Total(p) = until(m)
        /\ \A i \in 1..n : p[i] <= due[i]
    BY <1>2, <1>8
  <2> HIDE DEF p
  <2>2. Total(p) = Total(due) <=> p = due
    BY <2>1, AllPaid
  <2> QED
    BY <1>1, <1>4, <2>1, <2>2 DEF p
<1>12. ASSUME NEW j \in 1..m
       PROVE  /\ j > 1 => c.payments[j - 1].at <= c.payments[j].at
              /\ Day(c.payments[j].at) = c.payments[j].on
              /\ c.payments[j].at \in 0..t
  <2>1. /\ q[j].on \in Nat /\ q[j].on <= Day(t)
        /\ j > 1 => q[j - 1].on \in Nat /\ q[j - 1].on <= q[j].on /\ j - 1 \in 1..m
    <3>1. j > 1 => j - 1 \in 1..m /\ j - 1 < j
      OBVIOUS
    <3> QED
      BY <3>1
  <2>2. /\ Day(HistoricalInstant(q[j].on, t)) = q[j].on
        /\ HistoricalInstant(q[j].on, t) \in 0..t
        /\ j > 1 => HistoricalInstant(q[j - 1].on, t) <= HistoricalInstant(q[j].on, t)
    <3> DEFINE d == q[j].on
               e == q[j - 1].on
    <3>1. d \in Nat /\ d <= Day(t) /\ (j > 1 => e \in Nat /\ e <= d)
      BY <2>1
    <3> HIDE DEF d, e
    <3>2. d <= d
      BY <3>1
    <3>3. Day(HistoricalInstant(d, t)) = d /\ HistoricalInstant(d, t) \in 0..t
      BY <3>1, <3>2, Instants
    <3>4. j > 1 => HistoricalInstant(e, t) <= HistoricalInstant(d, t)
      BY <3>1, Instants
    <3> QED
      BY <3>3, <3>4 DEF d, e
  <2> QED
    BY <1>5, <2>1, <2>2
<1>13. \A j \in 1..m : \A i \in 1..n :
         Cascade(due, zero, until(j - 1))[i] + c.payments[j].alloc[i]
           = Cascade(due, zero, until(j))[i]
  <2> SUFFICES ASSUME NEW j \in 1..m, NEW i \in 1..n
               PROVE  Cascade(due, zero, until(j - 1))[i] + c.payments[j].alloc[i]
                        = Cascade(due, zero, until(j))[i]
    OBVIOUS
  <2>1. sofar[j - 1] = Cascade(due, zero, until(j - 1)) /\ sofar[j] = Cascade(due, zero, until(j))
    BY <1>2, <1>8
  <2>2. sofar[j - 1][i] + part(j)[i] = sofar[j][i] /\ c.payments[j].alloc = part(j)
    BY <1>2, <1>5
  <2> QED
    BY <2>1, <2>2
<1>14. c.paid = Cascade(due, zero, until(m)) /\ Total(c.paid) = until(m)
  BY <1>1, <1>2, <1>8
<1>15. HistoryKept(c)
  <2> DEFINE u(j) == SumOver(AmountsOf(c.payments), 1..j)
  <2>1. \A k : u(k) = until(k)
    BY <1>7
  <2>2. c.paid = Cascade(c.due, zero, u(Len(c.payments))) /\ Total(c.paid) = u(Len(c.payments))
    BY <1>1, <1>5, <1>14, <2>1
  <2>3. \A j \in DOMAIN c.payments :
          /\ \A i \in DOMAIN c.due :
               Cascade(c.due, zero, u(j - 1))[i] + c.payments[j].alloc[i]
                 = Cascade(c.due, zero, u(j))[i]
          /\ j > 1 => c.payments[j - 1].at <= c.payments[j].at
          /\ Day(c.payments[j].at) = c.payments[j].on
    <3> HIDE DEF u
    <3> QED
      BY <1>1, <1>5, <1>9, <1>12, <1>13, <2>1
  <2> HIDE DEF capital
  <2>4. /\ zero = [i \in DOMAIN c.due |-> 0]
        /\ Total(capital) = PrincipalRecovered(c.principal, c.total, Total(c.paid))
        /\ (c.status = "SETTLED") <=> (c.paid = c.due)
    BY <1>9, <1>10, <1>11
  <2> QED
    BY <2>2, <2>3, <2>4, Zenon DEF HistoryKept, u, capital
<1> QED
  BY <1>5, <1>12, <1>15

\* What an administrator may type gives a plan that holds and keeps the history.
LEMMA PlanKeeps ==
  ASSUME MigrationTerms, NEW form \in Forms, NEW t \in Nat, Acceptable(form, Day(t))
  PROVE  /\ ScheduleHolds(PlanOf(form, t)) /\ HistoryKept(PlanOf(form, t))
         /\ \A j \in DOMAIN PlanOf(form, t).payments : PlanOf(form, t).payments[j].at \in 0..t
<1> DEFINE P == form.principal
           n == form.n
           p == form.payments
           T == WithInterest(P, form.interest)
           due == BuildSchedule(T, n)
           q == ByDate(p)
           m == Len(q)
           zero == [i \in 1..n |-> 0]
           c == PlanOf(form, t)
<1>1. /\ Scale \in Nat \ {0} /\ Length \in Seq(28..31)
      /\ P \in Nat \ {0} /\ form.interest \in Nat /\ n \in Nat \ {0} /\ form.start \in Nat
      /\ p \in Seq([on : Nat, amount : Int])
      /\ \E mo \in DOMAIN Length :
            /\ InMonth(mo, form.start)
            /\ form.frequency = "MONTHLY" => mo + n + 1 \in DOMAIN Length
  BY DEF MigrationTerms
<1>2. /\ \A k \in DOMAIN p : p[k].amount > 0 /\ p[k].on <= Day(t)
      /\ SumOf(p) <= T
  BY DEF Acceptable, Historical
<1>3. T \in Nat /\ T > 0 /\ P <= T
  <2> HIDE DEF P, T
  <2>1. T \in Nat /\ T >= P
    BY <1>1, InterestAdds DEF T
  <2> QED
    BY <1>1, <2>1
<1> HIDE DEF T
<1>4. due \in [1..n -> Nat] /\ Total(due) = T
  <2> HIDE DEF n
  <2> QED
    BY <1>1, <1>3, ScheduleAddsUp
<1> HIDE DEF due, p
<1>5. /\ m \in Nat /\ DOMAIN q = 1..m /\ SumOf(q) <= T
      /\ \A k \in 1..m : q[k].amount \in Nat /\ q[k].on \in Nat /\ q[k].on <= Day(t)
      /\ \A j, k \in 1..m : j < k => q[j].on <= q[k].on
  <2>1. /\ q \in Seq([on : Nat, amount : Int]) /\ Len(q) = Len(p)
        /\ \A k \in 1..Len(p) : \E i \in 1..Len(p) : q[k] = p[i]
        /\ \A j, k \in 1..Len(p) : j < k => q[j].on <= q[k].on
        /\ SumOf(q) = SumOf(p)
    BY <1>1, ByDateFacts
  <2> HIDE DEF q
  <2>2. /\ m \in Nat /\ DOMAIN q = 1..m /\ Len(p) = m /\ DOMAIN p = 1..m
        /\ \A i \in 1..m : p[i] \in [on : Nat, amount : Int]
    BY <1>1, <2>1, LenProperties, ElementOfSeq
  <2>3. \A i \in 1..m : p[i].amount \in Nat /\ p[i].on \in Nat /\ p[i].on <= Day(t)
    BY <1>2, <2>2
  <2> QED
    BY <1>2, <2>1, <2>2, <2>3
<1>6. StagesOf(n, due, zero, m, q)
  <2>1. /\ zero \in [1..n -> Nat] /\ \A i \in 1..n : zero[i] = 0
        /\ Len(q) = m /\ SumOf(q) <= Total(due)
        /\ \A k \in 1..m : q[k].amount \in Nat
    BY <1>4, <1>5
  <2> HIDE DEF n, q, m, zero
  <2> QED
    BY <1>1, <1>4, <1>5, <2>1, Stages
<1>7. PlanParts(c, form, t, T, due, q, m)
  BY <1>5, PlanHasParts DEF T, due, p
<1>8. ScheduleHolds(c)
  <2> PICK mo \in DOMAIN Length :
            /\ InMonth(mo, form.start)
            /\ form.frequency = "MONTHLY" => mo + n + 1 \in DOMAIN Length
    BY <1>1
  <2> HIDE DEF c, q, m
  <2> QED
    BY <1>1, <1>3, <1>4, <1>7, PartsSchedule
<1>9. HistoryKept(c) /\ \A j \in DOMAIN c.payments : c.payments[j].at \in 0..t
  <2>1. Len(q) = m /\ zero = [i \in 1..n |-> 0]
    OBVIOUS
  <2> HIDE DEF c, q, m, n, zero
  <2>2. form.principal \in Nat /\ form.principal <= T
    BY <1>1, <1>3
  <2> QED
    BY <1>1, <1>3, <1>4, <1>5, <1>6, <1>7, <2>1, <2>2, PartsHistory
<1> QED
  BY <1>8, <1>9

\* Each step of the loading keeps what it is believed to keep.
LEMMA MigrationStep ==
  ASSUME MigrationTerms, MigrationInv, [MigrationNext]_migratedVars
  PROVE  MigrationInv'
<1> DEFINE Keeps(plan, t) ==
             /\ ScheduleHolds(plan) /\ HistoryKept(plan)
             /\ \A j \in DOMAIN plan.payments : plan.payments[j].at \in 0..t
           About(g, t) == \A h \in Loaders : g[h].busy => Keeps(g[h].plan, t)
           Saved(s, t) == \A k \in DOMAIN s : Keeps(s[k], t)
           Once(s) == \A j, k \in DOMAIN s : s[j].ref = s[k].ref /\ s[j].ref # NoRef => j = k
           Inv(t, g, s) == /\ t \in Nat /\ DOMAIN g = Loaders /\ s \in Seq(ToSet(s))
                           /\ About(g, t) /\ Saved(s, t) /\ Once(s)
<1>1. Inv(now, load, migrated)
  BY DEF MigrationInv, PastOnly, SchedulesHold, HistoryIsKept, LoadedOnce
<1>2. MigrationInv' <=> Inv(now', load', migrated')
  BY DEF MigrationInv, PastOnly, SchedulesHold, HistoryIsKept, LoadedOnce, ScheduleHolds,
         HistoryKept
<1> HIDE DEF Keeps
<1>3. ASSUME NEW h \in Loaders, NEW f \in Forms, Load(h, f)
      PROVE  Inv(now', load', migrated')
  <2>1. /\ Acceptable(f, Day(now)) /\ UNCHANGED <<now, migrated>>
        /\ load' = [load EXCEPT ![h] = [busy |-> TRUE, plan |-> PlanOf(f, now)]]
    BY <1>3 DEF Load
  <2>2. Keeps(PlanOf(f, now), now)
    BY <1>1, <2>1, PlanKeeps DEF Keeps
  <2> QED
    BY <1>1, <2>1, <2>2
<1>4. ASSUME NEW h \in Loaders, Save(h)
      PROVE  Inv(now', load', migrated')
  <2> DEFINE plan == load[h].plan
             taken == plan.ref # NoRef /\ \E k \in DOMAIN migrated : migrated[k].ref = plan.ref
  <2>1. /\ load[h].busy /\ load' = [load EXCEPT ![h] = Nothing] /\ UNCHANGED now
        /\ migrated' = IF taken THEN migrated ELSE Append(migrated, plan)
    BY <1>4 DEF Save
  <2>2. Keeps(plan, now)
    BY <1>1, <2>1
  <2>3. About(load', now') /\ DOMAIN load' = Loaders
    BY <1>1, <2>1 DEF Nothing
  <2>4. CASE taken
    BY <1>1, <2>1, <2>3, <2>4
  <2>5. CASE ~ taken
    <3> DEFINE s == migrated
               n == Len(migrated)
    <3> HIDE DEF plan
    <3>0. migrated' = Append(s, plan)
      BY <2>1, <2>5
    <3>1. /\ s \in Seq(ToSet(s)) /\ n \in Nat /\ DOMAIN s = 1..n
      BY <1>1
    <3>2. /\ DOMAIN migrated' = 1..(n + 1) /\ migrated'[n + 1] = plan
          /\ \A k \in 1..n : migrated'[k] = migrated[k]
      BY <3>0, <3>1
    <3>3. migrated' \in Seq(ToSet(migrated'))
      BY <3>1, <3>2, <3>0, AppendProperties DEF ToSet
    <3>4. Saved(migrated', now')
      <4>1. \A k \in 1..(n + 1) : k \in 1..n \/ k = n + 1
        BY <3>1
      <4> QED
        BY <1>1, <2>1, <2>2, <3>1, <3>2, <4>1
    <3>5. Once(migrated')
      <4>1. \A k \in 1..(n + 1) : k \in 1..n \/ k = n + 1
        BY <3>1
      <4>2. plan.ref # NoRef => \A k \in 1..n : migrated[k].ref # plan.ref
        BY <2>5, <3>1
      <4>3. Once(migrated)
        BY <1>1
      <4> QED
        BY <3>1, <3>2, <4>1, <4>2, <4>3
    <3> QED
      BY <1>1, <2>1, <2>3, <3>3, <3>4, <3>5
  <2> QED
    BY <2>4, <2>5
<1>5. ASSUME Tick PROVE Inv(now', load', migrated')
  <2>1. /\ now' = now + 1 /\ now \in Nat /\ UNCHANGED <<load, migrated>>
    BY <1>1, <1>5 DEF Tick
  <2>2. \A plan : (\A j \in DOMAIN plan.payments : plan.payments[j].at \in 0..now)
                  => \A j \in DOMAIN plan.payments : plan.payments[j].at \in 0..(now + 1)
    BY <2>1
  <2>3. \A plan : Keeps(plan, now) => Keeps(plan, now')
    BY <2>1, <2>2 DEF Keeps
  <2> QED
    BY <1>1, <2>1, <2>3
<1>6. ASSUME UNCHANGED migratedVars PROVE Inv(now', load', migrated')
  BY <1>1, <1>6 DEF migratedVars
<1> QED
  BY <1>2, <1>3, <1>4, <1>5, <1>6 DEF MigrationNext

\* In every reachable state the schedules of the credits that began elsewhere add up and
\* go forward, their payments of the past are kept to the centavo, none is to come, and a
\* reference is loaded once (register-migrated-credit.ts, migrated-credit.repository.ts).
THEOREM MigrationAlwaysSafe ==
  ASSUME MigrationTerms
  PROVE  MigrationSpec => []MigrationSafe
<1>1. MigrationInit => MigrationInv
  <2> SUFFICES ASSUME MigrationInit PROVE MigrationInv
    OBVIOUS
  <2>1. /\ now = FirstNow /\ FirstNow \in Nat /\ migrated = <<>>
        /\ load = [h \in Loaders |-> Nothing]
    BY DEF MigrationInit, MigrationTerms
  <2>2. migrated \in Seq(ToSet(migrated)) /\ DOMAIN migrated = {}
    BY <2>1
  <2> QED
    BY <2>1, <2>2 DEF MigrationInv, SchedulesHold, HistoryIsKept, LoadedOnce, Nothing
<1>2. MigrationInv /\ [MigrationNext]_migratedVars => MigrationInv'
  BY MigrationStep
<1>3. MigrationInv => MigrationSafe
  BY DEF MigrationInv, MigrationSafe
<1> QED
  BY <1>1, <1>2, <1>3, PTL DEF MigrationSpec
=============================================================================
