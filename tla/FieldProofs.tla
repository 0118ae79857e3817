---------------------------- MODULE FieldProofs ----------------------------
(***************************************************************************)
(* Proofs about FieldMoney and Collections: for every number of boxes,     *)
(* orders, expenses, phones and reviewers the books are what the documents *)
(* say; for every number of credits, keys and threads the stops, reminders *)
(* and stored answers of the street are as the requests made them.         *)
(***************************************************************************)
EXTENDS FieldMoney, Collections, ArithmeticProofs, SequenceTheorems

FieldInv == MoneySafe /\ TrailSafe

OrderType == [status : OrderStatus \cup {"NONE"}, collector : Collectors \cup {None},
              from : RouteBoxes \cup {None}, to : BankBoxes \cup {None},
              amount : Nat, reported : Nat, verified : Nat, receipt : Nat]
EventType == [type : OrderStatus \cup {"COMMENT"}, key : Nat, amount : Nat]
CreditType == [account : BankBoxes \cup {None}, amount : Nat,
               usedBy : Orders \cup {"payment", None}]
-----------------------------------------------------------------------------
(* The sums of the documents.                                               *)

\* One more document joins those of a box, the others stay what they were.
Joins(f, g, S, y) ==
  /\ IsFiniteSet(S) /\ y \notin S /\ g[y] \in Int
  /\ \A x \in S : f[x] \in Int /\ g[x] = f[x]

LEMMA JoinsSum ==
  ASSUME NEW f, NEW g, NEW S, NEW y, Joins(f, g, S, y)
  PROVE  SumOver(f, S) \in Int /\ SumOver(g, S \cup {y}) = SumOver(f, S) + g[y]
  BY SumGrows DEF Joins

\* The documents of a box are finitely many, and of natural amounts.
LEMMA DocumentsFinite ==
  ASSUME FieldInv, NEW b
  PROVE  /\ IsFiniteSet(VerifiedFrom(b)) /\ VerifiedFrom(b) \subseteq Orders
         /\ IsFiniteSet(VerifiedTo(b)) /\ VerifiedTo(b) \subseteq Orders
         /\ IsFiniteSet(PaidFrom(b)) /\ PaidFrom(b) \subseteq Expenses
         /\ \A o \in Orders : Verified[o] = order[o].verified /\ Verified[o] \in Nat
         /\ \A e \in Expenses : Spent[e] = expense[e].amount /\ Spent[e] \in Nat
<1>1. TypeOK /\ FinitelyUsed /\ ReviewsFit
  BY DEF FieldInv, MoneySafe
<1>2. VerifiedFrom(b) \subseteq {o \in Orders : order[o] # NoOrder}
  BY DEF VerifiedFrom, NoOrder
<1>3. VerifiedTo(b) \subseteq {o \in Orders : order[o] # NoOrder}
  BY DEF VerifiedTo, NoOrder
<1>4. PaidFrom(b) \subseteq {e \in Expenses : expense[e] # NoExpense}
  <2> SUFFICES ASSUME NEW e \in Expenses, NEW i \in 1..Len(paid[e]), expense[e] = NoExpense
               PROVE  FALSE
    BY DEF PaidFrom
  <2>1. paid[e] = <<>>
    BY <1>1 DEF ReviewsFit, NoExpense
  <2> QED
    BY <2>1
<1>5. /\ \A o \in Orders : order[o].verified \in Nat
      /\ \A e \in Expenses : expense[e].amount \in Nat
  BY <1>1 DEF TypeOK
<1>6. IsFiniteSet(VerifiedFrom(b)) /\ IsFiniteSet(VerifiedTo(b)) /\ IsFiniteSet(PaidFrom(b))
  BY <1>1, <1>2, <1>3, <1>4, FS_Subset DEF FinitelyUsed
<1> QED
  BY <1>5, <1>6 DEF VerifiedFrom, VerifiedTo, PaidFrom, Verified, Spent

\* A box whose documents stay has the sums it had.
LEMMA SumsStay ==
  ASSUME FieldInv, NEW b,
         VerifiedFrom(b)' = VerifiedFrom(b), VerifiedTo(b)' = VerifiedTo(b),
         PaidFrom(b)' = PaidFrom(b),
         \A o \in Orders : order[o].status = "VERIFIED" => order'[o].verified = order[o].verified,
         \A e \in PaidFrom(b) : expense'[e].amount = expense[e].amount
  PROVE  /\ SumOver(Verified, VerifiedFrom(b))' = SumOver(Verified, VerifiedFrom(b))
         /\ SumOver(Verified, VerifiedTo(b))' = SumOver(Verified, VerifiedTo(b))
         /\ SumOver(Spent, PaidFrom(b))' = SumOver(Spent, PaidFrom(b))
<1> DEFINE V == [o \in Orders |-> order'[o].verified]
           S == [e \in Expenses |-> expense'[e].amount]
<1>1. \A o \in VerifiedFrom(b) \cup VerifiedTo(b) : Verified[o] = V[o]
  BY DEF VerifiedFrom, VerifiedTo, Verified
<1>2. \A e \in PaidFrom(b) : Spent[e] = S[e]
  BY DEF PaidFrom, Spent
<1>3. Verified' = V /\ Spent' = S
  BY DEF Verified, Spent
<1> HIDE DEF V, S
<1>4. /\ SumOver(Verified, VerifiedFrom(b)) = SumOver(V, VerifiedFrom(b))
      /\ SumOver(Verified, VerifiedTo(b)) = SumOver(V, VerifiedTo(b))
      /\ SumOver(Spent, PaidFrom(b)) = SumOver(S, PaidFrom(b))
  BY <1>1, <1>2, DocumentsFinite, SumEqual
<1> QED
  BY <1>3, <1>4

\* The books stay right when a box and its income move alike and no document changes
\* that counts.
LEMMA BooksStay ==
  ASSUME FieldInv, NEW gain,
         \A b \in Boxes : /\ gain[b] \in Int
                          /\ income'[b] = income[b] + gain[b]
                          /\ balance'[b] = balance[b] + gain[b],
         \A o \in Orders : \/ order'[o] = order[o]
                           \/ order[o].status # "VERIFIED" /\ order'[o].status # "VERIFIED",
         paid' = paid,
         \A e \in Expenses : paid[e] # <<>> => expense'[e].amount = expense[e].amount
  PROVE  BooksMatchDocuments'
<1> SUFFICES ASSUME NEW b \in Boxes
             PROVE  balance'[b] = income'[b] - SumOver(Verified, VerifiedFrom(b))'
                                    + SumOver(Verified, VerifiedTo(b))'
                                    - SumOver(Spent, PaidFrom(b))'
  BY DEF BooksMatchDocuments
<1>1. VerifiedFrom(b)' = VerifiedFrom(b) /\ VerifiedTo(b)' = VerifiedTo(b)
  BY DEF VerifiedFrom, VerifiedTo
<1>2. PaidFrom(b)' = PaidFrom(b) /\ \A e \in PaidFrom(b) : paid[e] # <<>> /\ e \in Expenses
  BY DEF PaidFrom
<1>3. /\ SumOver(Verified, VerifiedFrom(b))' = SumOver(Verified, VerifiedFrom(b))
      /\ SumOver(Verified, VerifiedTo(b))' = SumOver(Verified, VerifiedTo(b))
      /\ SumOver(Spent, PaidFrom(b))' = SumOver(Spent, PaidFrom(b))
  BY <1>1, <1>2, SumsStay
<1>4. /\ SumOver(Verified, VerifiedFrom(b)) \in Int
      /\ SumOver(Verified, VerifiedTo(b)) \in Int
      /\ SumOver(Spent, PaidFrom(b)) \in Int
  BY DocumentsFinite, SumInt
<1>5. income[b] \in Int
  BY DEF FieldInv, MoneySafe, TypeOK
<1>6. balance[b] = income[b] - SumOver(Verified, VerifiedFrom(b))
                     + SumOver(Verified, VerifiedTo(b)) - SumOver(Spent, PaidFrom(b))
  BY DEF FieldInv, MoneySafe, BooksMatchDocuments
<1>7. PICK f, t, s : /\ f = SumOver(Verified, VerifiedFrom(b)) /\ t = SumOver(Verified, VerifiedTo(b))
                     /\ s = SumOver(Spent, PaidFrom(b))
  OBVIOUS
<1>8. balance'[b] = income'[b] - f + t - s
  <2>1. f \in Int /\ t \in Int /\ s \in Int /\ balance[b] = income[b] - f + t - s
    BY <1>4, <1>6, <1>7
  <2> QED
    BY <1>5, <2>1
<1> QED
  BY <1>3, <1>7, <1>8
-----------------------------------------------------------------------------
(* The boxes.                                                               *)

USE FieldAssumption

\* Nothing of a document changes.
DocumentsStay == UNCHANGED <<order, log, file, upload, expense, paid, review>>

LEMMA DocumentsStayInv ==
  ASSUME FieldInv, DocumentsStay
  PROVE  /\ ReviewsFit' /\ FinitelyUsed' /\ ApprovedIsPaidOnce' /\ TrailSafe'
         /\ (RowsNamed /\ (\A k \in BankCredits :
               credit'[k] # NoCredit => credit'[k].account \in BankBoxes)) => RowsNamed'
  BY DEF FieldInv, MoneySafe, TrailSafe, DocumentsStay, ReviewsFit, FinitelyUsed,
         ApprovedIsPaidOnce, LogTellsStatus, EvidenceKept, UploadsFit, RowsNamed

LEMMA CollectKeeps ==
  ASSUME FieldInv, NEW b \in Boxes, NEW m \in Amounts, Collect(b, m)
  PROVE  FieldInv'
<1>1. TypeOK /\ m \in Nat
  BY DEF FieldInv, MoneySafe
<1>2. /\ income' = [income EXCEPT ![b] = @ + m] /\ balance' = [balance EXCEPT ![b] = @ + m]
      /\ UNCHANGED <<box, order, log, file, upload, credit, expense, paid, review>>
  BY DEF Collect, orders, expenses
<1>3. DocumentsStay
  BY <1>2 DEF DocumentsStay
<1>4. TypeOK'
  <2>1. income' \in [Boxes -> Nat] /\ balance' \in [Boxes -> Nat]
    BY <1>1, <1>2 DEF TypeOK
  <2> QED
    BY <1>1, <1>2, <2>1 DEF TypeOK
<1>5. BooksMatchDocuments'
  <2> DEFINE gain == [x \in Boxes |-> IF x = b THEN m ELSE 0]
  <2>1. \A x \in Boxes : /\ gain[x] \in Int
                         /\ income'[x] = income[x] + gain[x]
                         /\ balance'[x] = balance[x] + gain[x]
    <3>1. income \in [Boxes -> Nat] /\ balance \in [Boxes -> Nat]
      BY <1>1 DEF TypeOK
    <3> QED
      BY <1>1, <1>2, <3>1
  <2> HIDE DEF gain
  <2> QED
    BY <1>2, <2>1, BooksStay
<1>6. BankCreditEntersOnce' /\ RowsNamed'
  BY <1>2 DEF FieldInv, MoneySafe, BankCreditEntersOnce, RowsNamed
<1> QED
  BY <1>3, <1>4, <1>5, <1>6, DocumentsStayInv DEF FieldInv, MoneySafe

LEMMA SetActiveKeeps ==
  ASSUME FieldInv, NEW b \in Boxes, NEW on \in BOOLEAN, SetActive(b, on)
  PROVE  FieldInv'
<1>1. /\ box' = [box EXCEPT ![b].active = on]
      /\ UNCHANGED <<income, balance, order, log, file, upload, credit, expense, paid, review>>
  BY DEF SetActive, ledger, orders, expenses
<1>2. DocumentsStay
  BY <1>1 DEF DocumentsStay
<1>3. TypeOK'
  <2>1. TypeOK
    BY DEF FieldInv, MoneySafe
  <2>2. box' \in [Boxes -> [owner : Collectors \cup {None}, active : BOOLEAN]]
    <3>1. box \in [Boxes -> [owner : Collectors \cup {None}, active : BOOLEAN]]
      BY <2>1 DEF TypeOK
    <3>2. [box[b] EXCEPT !.active = on] \in [owner : Collectors \cup {None}, active : BOOLEAN]
      BY <3>1
    <3> QED
      BY <1>1, <3>1, <3>2
  <2> QED
    BY <1>1, <2>1, <2>2 DEF TypeOK
<1>4. BooksMatchDocuments' /\ BankCreditEntersOnce' /\ RowsNamed'
  <2>1. BooksMatchDocuments'
    BY <1>1 DEF FieldInv, MoneySafe, BooksMatchDocuments, VerifiedFrom, VerifiedTo, PaidFrom,
                Verified, Spent
  <2> QED
    BY <1>1, <2>1 DEF FieldInv, MoneySafe, BankCreditEntersOnce, RowsNamed
<1> QED
  BY <1>2, <1>3, <1>4, DocumentsStayInv DEF FieldInv, MoneySafe

LEMMA BankReportsKeeps ==
  ASSUME FieldInv, NEW k \in BankCredits, NEW b \in BankBoxes, NEW m \in Amounts,
         BankReports(k, b, m)
  PROVE  FieldInv'
<1> DEFINE row == [account |-> b, amount |-> m, usedBy |-> None]
<1>1. /\ credit[k] = NoCredit /\ credit' = [credit EXCEPT ![k] = row]
      /\ UNCHANGED <<income, balance, box, order, log, file, upload, expense, paid, review>>
  BY DEF BankReports, ledger, orders, expenses
<1>2. DocumentsStay
  BY <1>1 DEF DocumentsStay
<1>3. TypeOK /\ credit \in [BankCredits -> CreditType]
  BY DEF FieldInv, MoneySafe, TypeOK, CreditType
<1>4. row \in CreditType /\ row.account \in BankBoxes /\ row.usedBy \notin Orders
  BY DEF CreditType
<1> HIDE DEF row
<1>5. \A j \in BankCredits : credit'[j] = IF j = k THEN row ELSE credit[j]
  BY <1>1, <1>3
<1>6. TypeOK'
  <2>1. credit' \in [BankCredits -> CreditType]
    BY <1>1, <1>3, <1>4
  <2> QED
    BY <1>1, <1>3, <2>1 DEF TypeOK, CreditType
<1>7. BooksMatchDocuments'
  BY <1>1 DEF FieldInv, MoneySafe, BooksMatchDocuments, VerifiedFrom, VerifiedTo, PaidFrom,
              Verified, Spent
<1>8. BankCreditEntersOnce'
  <2>1. BankCreditEntersOnce
    BY DEF FieldInv, MoneySafe
  <2>2. \A j \in BankCredits : credit'[j].usedBy \in Orders => j # k /\ credit'[j] = credit[j]
    BY <1>4, <1>5
  <2> QED
    BY <1>1, <1>4, <1>5, <2>1, <2>2 DEF BankCreditEntersOnce
<1>9. RowsNamed'
  <2>1. RowsNamed
    BY DEF FieldInv, MoneySafe
  <2> QED
    BY <1>1, <1>4, <1>5, <2>1 DEF RowsNamed
<1> QED
  BY <1>2, <1>6, <1>7, <1>8, <1>9, DocumentsStayInv DEF FieldInv, MoneySafe

LEMMA ConfirmPaymentKeeps ==
  ASSUME FieldInv, NEW k \in BankCredits, ConfirmPayment(k)
  PROVE  FieldInv'
<1> DEFINE b == credit[k].account
           m == credit[k].amount
<1>1. /\ credit[k] # NoCredit /\ credit[k].usedBy = None
      /\ credit' = [credit EXCEPT ![k].usedBy = "payment"]
      /\ income' = [income EXCEPT ![b] = @ + m] /\ balance' = [balance EXCEPT ![b] = @ + m]
      /\ UNCHANGED <<box, order, log, file, upload, expense, paid, review>>
  BY DEF ConfirmPayment, FreeForPayment, orders, expenses
<1>2. DocumentsStay
  BY <1>1 DEF DocumentsStay
<1>3. TypeOK /\ credit \in [BankCredits -> CreditType] /\ RowsNamed
  BY DEF FieldInv, MoneySafe, TypeOK, CreditType
<1>4. b \in Boxes /\ m \in Nat /\ credit[k].account \in BankBoxes
  BY <1>1, <1>3 DEF RowsNamed, CreditType, Boxes
<1>5. \A j \in BankCredits :
        /\ credit'[j].account = credit[j].account /\ credit'[j].amount = credit[j].amount
        /\ credit'[j].usedBy = IF j = k THEN "payment" ELSE credit[j].usedBy
        /\ j # k => credit'[j] = credit[j]
  BY <1>1, <1>3 DEF CreditType
<1> HIDE DEF b, m
<1>6. TypeOK'
  <2>1. income' \in [Boxes -> Nat] /\ balance' \in [Boxes -> Nat]
    BY <1>1, <1>3, <1>4 DEF TypeOK
  <2>2. credit' \in [BankCredits -> CreditType]
    BY <1>1, <1>3 DEF CreditType
  <2> QED
    BY <1>1, <1>3, <2>1, <2>2 DEF TypeOK, CreditType
<1>7. BooksMatchDocuments'
  <2> DEFINE gain == [x \in Boxes |-> IF x = b THEN m ELSE 0]
  <2>1. \A x \in Boxes : /\ gain[x] \in Int
                         /\ income'[x] = income[x] + gain[x]
                         /\ balance'[x] = balance[x] + gain[x]
    <3>1. income \in [Boxes -> Nat] /\ balance \in [Boxes -> Nat]
      BY <1>3 DEF TypeOK
    <3> QED
      BY <1>1, <1>4, <3>1
  <2> HIDE DEF gain
  <2> QED
    BY <1>1, <2>1, BooksStay
<1>8. BankCreditEntersOnce'
  <2>1. BankCreditEntersOnce
    BY DEF FieldInv, MoneySafe
  <2>2. \A j \in BankCredits : credit'[j].usedBy \in Orders => j # k /\ credit'[j] = credit[j]
    BY <1>5
  <2>3. \A i, j \in BankCredits : i # j /\ credit'[i].usedBy \in Orders =>
          credit'[i].usedBy # credit'[j].usedBy
    BY <1>5, <2>1, <2>2 DEF BankCreditEntersOnce
  <2> QED
    BY <1>1, <1>5, <2>1, <2>2, <2>3 DEF BankCreditEntersOnce
<1>9. RowsNamed'
  BY <1>1, <1>3, <1>4, <1>5 DEF RowsNamed
<1> QED
  BY <1>2, <1>6, <1>7, <1>8, <1>9, DocumentsStayInv DEF FieldInv, MoneySafe
-----------------------------------------------------------------------------
(* Deposit orders.                                                          *)

\* A transaction of an order writes its row and appends the event that tells so, or
\* appends a comment; a report it tells of has its receipt.
OrderWrites(o, row, event) ==
  /\ order' = [order EXCEPT ![o] = row]
  /\ log' = [log EXCEPT ![o] = Append(@, event)]
  /\ file' = file
  /\ \A p \in Phones : upload'[p] \in {upload[p], NoUpload}
  /\ row \in OrderType /\ event \in EventType
  /\ row.from \in RouteBoxes /\ row.to \in BankBoxes
  /\ event.type = "REPORTED" =>
       event.key \in 1..Len(file) /\ file[event.key] = [order |-> o, amount |-> event.amount]
  /\ \/ event.type = "COMMENT" /\ row = order[o] /\ order[o] # NoOrder
     \/ /\ event.type \in OrderStatus /\ row.status = event.type
        /\ order[o].status \notin {"VERIFIED", "CANCELLED"}

LEMMA Appended ==
  ASSUME NEW S, NEW s \in Seq(S), NEW e \in S
  PROVE  /\ Append(s, e) \in Seq(S) /\ Len(s) \in Nat /\ Len(Append(s, e)) = Len(s) + 1
         /\ \A i \in 1..Len(s) : Append(s, e)[i] = s[i]
         /\ Append(s, e)[Len(s) + 1] = e
  OBVIOUS

LEMMA OrderRows ==
  ASSUME FieldInv, NEW o \in Orders, NEW row, NEW event, OrderWrites(o, row, event)
  PROVE  /\ order' \in [Orders -> OrderType] /\ log' \in [Orders -> Seq(EventType)]
         /\ \A q \in Orders : q # o => order'[q] = order[q] /\ log'[q] = log[q]
         /\ order'[o] = row /\ row.status # "NONE" /\ order'[o] # NoOrder
         /\ order[o].status = "VERIFIED" => row = order[o]
         /\ log[o] \in Seq(EventType) /\ event \in EventType /\ log'[o] = Append(log[o], event)
<1>1. order \in [Orders -> OrderType] /\ log \in [Orders -> Seq(EventType)]
  BY DEF FieldInv, MoneySafe, TypeOK, OrderType, EventType
<1>2. /\ row \in OrderType /\ event \in EventType
      /\ order' = [order EXCEPT ![o] = row] /\ log' = [log EXCEPT ![o] = Append(@, event)]
  BY DEF OrderWrites
<1>3. Append(log[o], event) \in Seq(EventType) /\ log[o] \in Seq(EventType)
  BY <1>1, <1>2, Appended
<1>4. row.status # "NONE"
  BY DEF OrderWrites, FieldInv, MoneySafe, RowsNamed, OrderStatus
<1>5. order[o].status = "VERIFIED" => row = order[o]
  BY DEF OrderWrites
<1>6. order'[o] = row /\ log'[o] = Append(log[o], event)
  BY <1>1, <1>2
<1>7. order'[o] # NoOrder
  BY <1>4, <1>6 DEF NoOrder
<1> QED
  BY <1>1, <1>2, <1>3, <1>4, <1>5, <1>6, <1>7

\* A comment changes nothing of what a log tells.
LEMMA CommentTells ==
  ASSUME NEW s \in Seq(EventType), NEW e \in EventType, e.type = "COMMENT",
         NEW status, Tells(s, status)
  PROVE  Tells(Append(s, e), status)
<1> DEFINE t == Append(s, e)
           n == Len(s)
<1>1. n \in Nat /\ Len(t) = n + 1 /\ t[n + 1] = e /\ \A i \in 1..n : t[i] = s[i]
  BY Appended
<1>2. PICK k \in 1..n : /\ s[k].type = status /\ status # "COMMENT"
                        /\ \A j \in (k + 1)..n : s[j].type = "COMMENT"
  BY DEF Tells
<1>3. \A i, j \in 1..n :
        i < j /\ s[i].type \in {"VERIFIED", "CANCELLED"} => s[j].type = "COMMENT"
  BY DEF Tells
<1> HIDE DEF t, n
<1>4. \A j \in (k + 1)..(n + 1) : t[j].type = "COMMENT"
  <2>1. \A j \in (k + 1)..(n + 1) : j = n + 1 \/ (j \in (k + 1)..n /\ j \in 1..n)
    BY <1>1
  <2> QED
    BY <1>1, <1>2, <2>1
<1>5. \A i, j \in 1..(n + 1) :
        i < j /\ t[i].type \in {"VERIFIED", "CANCELLED"} => t[j].type = "COMMENT"
  <2> SUFFICES ASSUME NEW i \in 1..(n + 1), NEW j \in 1..(n + 1), i < j,
                      t[i].type \in {"VERIFIED", "CANCELLED"}
               PROVE  t[j].type = "COMMENT"
    OBVIOUS
  <2>1. i \in 1..n /\ (j = n + 1 \/ j \in 1..n)
    BY <1>1
  <2> QED
    BY <1>1, <1>3, <2>1
<1>6. k \in 1..Len(t) /\ t[k].type = status
  BY <1>1, <1>2
<1> QED
  BY <1>1, <1>2, <1>4, <1>5, <1>6 DEF Tells, t

\* An event that is not a comment is the new status, if nothing final came before it.
LEMMA StatusTells ==
  ASSUME NEW s \in Seq(EventType), NEW e \in EventType, e.type # "COMMENT",
         s = <<>> \/ \E status : Tells(s, status) /\ status \notin {"VERIFIED", "CANCELLED"}
  PROVE  Tells(Append(s, e), e.type)
<1> DEFINE t == Append(s, e)
           n == Len(s)
<1>1. n \in Nat /\ Len(t) = n + 1 /\ t[n + 1] = e /\ \A i \in 1..n : t[i] = s[i]
  BY Appended
<1>2. ASSUME NEW i \in 1..n
      PROVE  s[i].type \notin {"VERIFIED", "CANCELLED"}
  <2>1. s # <<>>
    BY <1>1
  <2>2. PICK status : Tells(s, status) /\ status \notin {"VERIFIED", "CANCELLED"}
    BY <2>1
  <2>3. PICK k \in 1..n : /\ s[k].type = status /\ status # "COMMENT"
                          /\ \A j \in (k + 1)..n : s[j].type = "COMMENT"
    BY <2>2 DEF Tells
  <2>4. \A j, l \in 1..n :
          j < l /\ s[j].type \in {"VERIFIED", "CANCELLED"} => s[l].type = "COMMENT"
    BY <2>2 DEF Tells
  <2> HIDE DEF n
  <2>5. CASE k < i
    <3>1. i \in (k + 1)..n
      BY <1>1, <2>5
    <3> QED
      BY <2>3, <3>1
  <2>6. CASE i < k
    BY <2>3, <2>4, <2>6
  <2>7. CASE i = k
    BY <2>2, <2>3, <2>7
  <2> QED
    BY <1>1, <2>5, <2>6, <2>7
<1> HIDE DEF t, n
<1>3. \A i, j \in 1..(n + 1) :
        i < j /\ t[i].type \in {"VERIFIED", "CANCELLED"} => t[j].type = "COMMENT"
  <2> SUFFICES ASSUME NEW i \in 1..(n + 1), NEW j \in 1..(n + 1), i < j,
                      t[i].type \in {"VERIFIED", "CANCELLED"}
               PROVE  FALSE
    OBVIOUS
  <2>1. i \in 1..n
    BY <1>1
  <2> QED
    BY <1>1, <1>2, <2>1
<1>4. n + 1 \in 1..Len(t) /\ (n + 1 + 1)..Len(t) = {}
  BY <1>1
<1> QED
  BY <1>1, <1>3, <1>4 DEF Tells, t

\* The log of the order tells its new status, and no other log changes.
LEMMA OrderTrail ==
  ASSUME FieldInv, NEW o \in Orders, NEW row, NEW event, OrderWrites(o, row, event)
  PROVE  LogTellsStatus'
<1>1. /\ log[o] \in Seq(EventType) /\ event \in EventType /\ log'[o] = Append(log[o], event)
      /\ order'[o] = row /\ order'[o] # NoOrder
      /\ \A q \in Orders : q # o => order'[q] = order[q] /\ log'[q] = log[q]
  BY OrderRows
<1>2. LogTellsStatus /\ RowsNamed
  BY DEF FieldInv, MoneySafe, TrailSafe
<1>3. Tells(log'[o], order'[o].status)
  <2>1. CASE event.type = "COMMENT" /\ row = order[o] /\ order[o] # NoOrder
    BY <1>1, <1>2, <2>1, CommentTells DEF LogTellsStatus
  <2>2. CASE /\ event.type \in OrderStatus /\ row.status = event.type
             /\ order[o].status \notin {"VERIFIED", "CANCELLED"}
    <3>1. log[o] = <<>> \/ Tells(log[o], order[o].status)
      BY <1>2 DEF LogTellsStatus, RowsNamed
    <3>2. event.type # "COMMENT"
      BY <2>2 DEF OrderStatus
    <3>3. Tells(Append(log[o], event), event.type)
      BY <1>1, <2>2, <3>1, <3>2, StatusTells
    <3> QED
      BY <1>1, <2>2, <3>3
  <2> QED
    BY <2>1, <2>2 DEF OrderWrites
<1> QED
  BY <1>1, <1>2, <1>3 DEF LogTellsStatus

\* Each report told by a log keeps its receipt, and so does each that is in flight.
LEMMA OrderEvidence ==
  ASSUME FieldInv, NEW o \in Orders, NEW row, NEW event, OrderWrites(o, row, event)
  PROVE  EvidenceKept' /\ UploadsFit'
<1>1. EvidenceKept /\ UploadsFit
  BY DEF FieldInv, TrailSafe
<1>2. /\ log[o] \in Seq(EventType) /\ event \in EventType /\ log'[o] = Append(log[o], event)
      /\ order'[o] # NoOrder
      /\ \A q \in Orders : q # o => order'[q] = order[q] /\ log'[q] = log[q]
  BY OrderRows
<1>3. /\ Len(log[o]) \in Nat /\ Len(log'[o]) = Len(log[o]) + 1
      /\ log'[o][Len(log[o]) + 1] = event
      /\ \A i \in 1..Len(log[o]) : log'[o][i] = log[o][i]
  BY <1>2, Appended
<1>4. /\ file' = file
      /\ event.type = "REPORTED" =>
           event.key \in 1..Len(file) /\ file[event.key] = [order |-> o, amount |-> event.amount]
      /\ \A p \in Phones : upload'[p] = upload[p] \/ upload'[p] = NoUpload
  BY DEF OrderWrites
<1>5. EvidenceKept'
  <2> SUFFICES ASSUME NEW q \in Orders, NEW i \in 1..Len(log'[q]), log'[q][i].type = "REPORTED"
               PROVE  /\ log'[q][i].key \in 1..Len(file)
                      /\ file[log'[q][i].key] = [order |-> q, amount |-> log'[q][i].amount]
    BY <1>4 DEF EvidenceKept
  <2>1. CASE q # o
    BY <1>1, <1>2, <2>1 DEF EvidenceKept
  <2>2. CASE q = o /\ i = Len(log[o]) + 1
    BY <1>3, <1>4, <2>2
  <2>3. CASE q = o /\ i # Len(log[o]) + 1
    <3>1. i \in 1..Len(log[o]) /\ log'[o][i] = log[o][i]
      BY <1>3, <2>3
    <3> QED
      BY <1>1, <2>3, <3>1 DEF EvidenceKept
  <2> QED
    BY <2>1, <2>2, <2>3
<1>6. UploadsFit'
  BY <1>1, <1>2, <1>4 DEF UploadsFit
<1> QED
  BY <1>5, <1>6

\* The money stays where it is, and a verified order stays what it is.
LEMMA OrderKeeps ==
  ASSUME FieldInv, NEW o \in Orders, NEW row, NEW event, OrderWrites(o, row, event),
         row.status # "VERIFIED" \/ row = order[o],
         \A p \in Phones : upload'[p] = upload[p] \/ upload'[p] = NoUpload,
         upload' \in [Phones -> [order : Orders \cup {None}, amount : Nat, key : Nat]],
         UNCHANGED <<income, balance, box, credit, expense, paid, review>>
  PROVE  FieldInv'
<1>1. /\ order' \in [Orders -> OrderType] /\ log' \in [Orders -> Seq(EventType)]
      /\ \A q \in Orders : q # o => order'[q] = order[q] /\ log'[q] = log[q]
      /\ order'[o] = row /\ row.status # "NONE" /\ order'[o] # NoOrder
      /\ order[o].status = "VERIFIED" => row = order[o]
  BY OrderRows
<1>2. TypeOK /\ RowsNamed /\ FinitelyUsed /\ ReviewsFit /\ BankCreditEntersOnce /\ ApprovedIsPaidOnce
  BY DEF FieldInv, MoneySafe
<1>3. file' = file /\ row.from \in RouteBoxes /\ row.to \in BankBoxes
  BY DEF OrderWrites
<1>4. TypeOK'
  BY <1>1, <1>2, <1>3 DEF TypeOK, OrderType, EventType
<1>5. RowsNamed'
  BY <1>1, <1>2, <1>3 DEF RowsNamed
<1>6. FinitelyUsed'
  <2> DEFINE U == {q \in Orders : order[q] # NoOrder}
             V == {q \in Orders : order'[q] # NoOrder}
  <2>1. V \subseteq U \cup {o}
    BY <1>1
  <2>2. IsFiniteSet(U)
    BY <1>2 DEF FinitelyUsed
  <2> HIDE DEF U, V
  <2>3. IsFiniteSet(V)
    BY <2>1, <2>2, FS_AddElement, FS_Subset
  <2> QED
    BY <1>2, <2>3 DEF FinitelyUsed, V
<1>7. BooksMatchDocuments'
  <2> DEFINE gain == [b \in Boxes |-> 0]
  <2>1. \A b \in Boxes : /\ gain[b] \in Int
                         /\ income'[b] = income[b] + gain[b]
                         /\ balance'[b] = balance[b] + gain[b]
    BY <1>2 DEF TypeOK
  <2>2. \A q \in Orders : \/ order'[q] = order[q]
                          \/ order[q].status # "VERIFIED" /\ order'[q].status # "VERIFIED"
    BY <1>1
  <2> HIDE DEF gain
  <2> QED
    BY <2>1, <2>2, BooksStay
<1>8. BankCreditEntersOnce'
  <2>1. \A q \in Orders : order[q].status = "VERIFIED" => order'[q] = order[q]
    BY <1>1
  <2> QED
    BY <1>2, <2>1 DEF BankCreditEntersOnce
<1>9. ReviewsFit' /\ ApprovedIsPaidOnce'
  BY <1>2 DEF ReviewsFit, ApprovedIsPaidOnce
<1> QED
  BY <1>4, <1>5, <1>6, <1>7, <1>8, <1>9, OrderTrail, OrderEvidence
     DEF FieldInv, MoneySafe, TrailSafe

LEMMA RowsTyped ==
  ASSUME FieldInv, NEW o \in Orders
  PROVE  /\ order[o] \in OrderType
         /\ upload \in [Phones -> [order : Orders \cup {None}, amount : Nat, key : Nat]]
         /\ order[o].status # "NONE" => /\ order[o] # NoOrder /\ order[o].from \in RouteBoxes
                                        /\ order[o].to \in BankBoxes
         /\ order[o] # NoOrder => order[o].from \in RouteBoxes /\ order[o].to \in BankBoxes
  BY DEF FieldInv, MoneySafe, TypeOK, RowsNamed, OrderType, NoOrder

LEMMA StatusUpdate ==
  ASSUME NEW row \in OrderType, NEW status \in OrderStatus
  PROVE  /\ [row EXCEPT !.status = status] \in OrderType
         /\ [row EXCEPT !.status = status].from = row.from
         /\ [row EXCEPT !.status = status].to = row.to
         /\ [row EXCEPT !.status = status].status = status
  BY DEF OrderType

LEMMA EventTyped ==
  ASSUME NEW type \in OrderStatus \cup {"COMMENT"}, NEW k \in Nat, NEW m \in Nat
  PROVE  [type |-> type, key |-> k, amount |-> m] \in EventType
  BY DEF EventType

LEMMA IssueKeeps ==
  ASSUME FieldInv, NEW o \in Orders, NEW c \in Collectors, NEW b \in RouteBoxes, NEW d \in Boxes,
         NEW m \in Amounts, Issue(o, c, b, d, m)
  PROVE  FieldInv'
<1> DEFINE row == [NoOrder EXCEPT !.status = "ISSUED", !.collector = c, !.from = b, !.to = d,
                                  !.amount = m]
           event == [type |-> "ISSUED", key |-> 0, amount |-> m]
<1>1. /\ order[o] = NoOrder /\ d \in BankBoxes
      /\ order' = [order EXCEPT ![o] = row] /\ log' = [log EXCEPT ![o] = Append(@, event)]
      /\ UNCHANGED <<income, balance, box, file, upload, credit, expense, paid, review>>
  BY DEF Issue, Append1, ValidDestination, ledger, expenses
<1>2. /\ row \in OrderType /\ row.from = b /\ row.to = d /\ row.status = "ISSUED"
      /\ event \in EventType /\ event.type = "ISSUED"
  BY <1>1 DEF OrderType, EventType, OrderStatus, NoOrder
<1>3. order[o].status = "NONE"
  BY <1>1 DEF NoOrder
<1> HIDE DEF row, event
<1>4. OrderWrites(o, row, event)
  BY <1>1, <1>2, <1>3 DEF OrderWrites, OrderStatus
<1> QED
  BY <1>1, <1>2, <1>4, RowsTyped, OrderKeeps

LEMMA MarkSeenKeeps ==
  ASSUME FieldInv, NEW o \in Orders, MarkSeen(o)
  PROVE  FieldInv'
<1> DEFINE row == [order[o] EXCEPT !.status = "SEEN"]
           event == [type |-> "SEEN", key |-> 0, amount |-> 0]
<1>1. /\ order[o].status = "ISSUED"
      /\ order' = [order EXCEPT ![o] = row] /\ log' = [log EXCEPT ![o] = Append(@, event)]
      /\ UNCHANGED <<income, balance, box, file, upload, credit, expense, paid, review>>
  BY DEF MarkSeen, Append1, ledger, expenses
<1>2. /\ row \in OrderType /\ row.from = order[o].from /\ row.to = order[o].to
      /\ row.status = "SEEN" /\ event \in EventType /\ event.type = "SEEN"
  <2>1. "SEEN" \in OrderStatus /\ order[o] \in OrderType
    BY RowsTyped DEF OrderStatus
  <2> QED
    BY <2>1, StatusUpdate, EventTyped
<1>3. order[o].from \in RouteBoxes /\ order[o].to \in BankBoxes
  BY <1>1, RowsTyped
<1> HIDE DEF row, event
<1>4. OrderWrites(o, row, event)
  BY <1>1, <1>2, <1>3 DEF OrderWrites, OrderStatus
<1> QED
  BY <1>1, <1>2, <1>4, RowsTyped, OrderKeeps

LEMMA CloseKeeps ==
  ASSUME FieldInv, NEW o \in Orders, NEW action \in {"DISPUTED", "CANCELLED"}, Close(o, action)
  PROVE  FieldInv'
<1> DEFINE row == [order[o] EXCEPT !.status = action]
           event == [type |-> action, key |-> 0, amount |-> 0]
<1>1. /\ order[o].status \in {"ISSUED", "SEEN", "REPORTED", "DISPUTED"}
      /\ order' = [order EXCEPT ![o] = row] /\ log' = [log EXCEPT ![o] = Append(@, event)]
      /\ UNCHANGED <<income, balance, box, file, upload, credit, expense, paid, review>>
  BY DEF Close, Append1, ledger, expenses, DisputableFrom, CancellableFrom
<1>2. /\ row \in OrderType /\ row.from = order[o].from /\ row.to = order[o].to
      /\ row.status = action /\ event \in EventType /\ event.type = action
  <2>1. action \in OrderStatus /\ order[o] \in OrderType
    BY RowsTyped DEF OrderStatus
  <2> QED
    BY <2>1, StatusUpdate, EventTyped
<1>3. order[o].from \in RouteBoxes /\ order[o].to \in BankBoxes
  BY <1>1, RowsTyped
<1> HIDE DEF row, event
<1>4. OrderWrites(o, row, event)
  BY <1>1, <1>2, <1>3 DEF OrderWrites, OrderStatus
<1> QED
  BY <1>1, <1>2, <1>4, RowsTyped, OrderKeeps

LEMMA CommentKeeps ==
  ASSUME FieldInv, NEW o \in Orders, Comment(o)
  PROVE  FieldInv'
<1> DEFINE event == [type |-> "COMMENT", key |-> 0, amount |-> 0]
<1>1. /\ order[o] # NoOrder
      /\ order' = order /\ log' = [log EXCEPT ![o] = Append(@, event)]
      /\ UNCHANGED <<income, balance, box, file, upload, credit, expense, paid, review>>
  BY DEF Comment, Append1, ledger, expenses
<1>2. event \in EventType /\ event.type = "COMMENT"
  BY DEF EventType
<1>3. order' = [order EXCEPT ![o] = order[o]]
  BY <1>1 DEF FieldInv, MoneySafe, TypeOK
<1>4. order[o].from \in RouteBoxes /\ order[o].to \in BankBoxes /\ order[o] \in OrderType
  BY <1>1, RowsTyped
<1> HIDE DEF event
<1>5. OrderWrites(o, order[o], event)
  BY <1>1, <1>2, <1>3, <1>4 DEF OrderWrites
<1> QED
  BY <1>1, <1>5, RowsTyped, OrderKeeps

LEMMA WriteReportKeeps ==
  ASSUME FieldInv, NEW p \in Phones, WriteReport(p)
  PROVE  FieldInv'
<1> DEFINE o == upload[p].order
           row == [order[o] EXCEPT !.status = "REPORTED", !.reported = upload[p].amount,
                                   !.receipt = upload[p].key]
           event == [type |-> "REPORTED", key |-> upload[p].key, amount |-> upload[p].amount]
<1>1. /\ upload[p] # NoUpload /\ order[o].status \in {"ISSUED", "SEEN", "DISPUTED"}
      /\ order' = [order EXCEPT ![o] = row] /\ log' = [log EXCEPT ![o] = Append(@, event)]
      /\ upload' = [upload EXCEPT ![p] = NoUpload]
      /\ UNCHANGED <<income, balance, box, file, credit, expense, paid, review>>
  BY DEF WriteReport, Append1, ledger, expenses, ReportableFrom
<1>2. /\ o \in Orders /\ upload[p].key \in 1..Len(file)
      /\ file[upload[p].key] = [order |-> o, amount |-> upload[p].amount]
  BY <1>1 DEF FieldInv, TrailSafe, UploadsFit
<1>3. upload[p].amount \in Nat /\ upload[p].key \in Nat
  BY DEF FieldInv, MoneySafe, TypeOK
<1>4. /\ row \in OrderType /\ row.from = order[o].from /\ row.to = order[o].to
      /\ row.status = "REPORTED" /\ event \in EventType /\ event.type = "REPORTED"
      /\ event.key = upload[p].key /\ event.amount = upload[p].amount
  <2>1. "REPORTED" \in OrderStatus /\ order[o] \in OrderType
    BY <1>2, RowsTyped DEF OrderStatus
  <2> HIDE DEF o
  <2> QED
    <3>1. /\ row \in OrderType /\ row.from = order[o].from /\ row.to = order[o].to
          /\ row.status = "REPORTED"
      <4>1. PICK old \in OrderType : old = order[o]
        BY <2>1
      <4>2. PICK m \in Nat, k \in Nat : m = upload[p].amount /\ k = upload[p].key
        BY <1>3
      <4>3. row = [old EXCEPT !.status = "REPORTED", !.reported = m, !.receipt = k]
        BY <4>1, <4>2
      <4> HIDE DEF row
      <4>4. /\ row \in OrderType /\ row.from = old.from /\ row.to = old.to
            /\ row.status = "REPORTED"
        BY <4>3 DEF OrderType, OrderStatus
      <4> QED
        BY <4>1, <4>4
    <3> QED
      BY <1>3, <2>1, <3>1, EventTyped
<1>5. order[o].from \in RouteBoxes /\ order[o].to \in BankBoxes
  BY <1>1, <1>2, RowsTyped
<1>6. /\ upload' \in [Phones -> [order : Orders \cup {None}, amount : Nat, key : Nat]]
      /\ \A q \in Phones : upload'[q] = upload[q] \/ upload'[q] = NoUpload
  BY <1>1, <1>2, RowsTyped DEF NoUpload
<1> HIDE DEF o, row, event
<1>7. OrderWrites(o, row, event)
  BY <1>1, <1>2, <1>4, <1>5, <1>6 DEF OrderWrites, OrderStatus
<1> QED
  BY <1>1, <1>2, <1>4, <1>6, <1>7, OrderKeeps

\* Only the bucket and the reports in flight change, and no receipt is touched.
LEMMA BucketKeeps ==
  ASSUME FieldInv, UNCHANGED <<income, balance, box, order, log, credit, expense, paid, review>>,
         file' \in Seq([order : Orders, amount : Nat]),
         upload' \in [Phones -> [order : Orders \cup {None}, amount : Nat, key : Nat]],
         \A i \in 1..Len(file) : i \in 1..Len(file') /\ file'[i] = file[i],
         UploadsFit'
  PROVE  FieldInv'
<1>1. TypeOK'
  BY DEF FieldInv, MoneySafe, TypeOK
<1>2. RowsNamed' /\ FinitelyUsed' /\ ReviewsFit' /\ BankCreditEntersOnce' /\ ApprovedIsPaidOnce'
  BY DEF FieldInv, MoneySafe, RowsNamed, FinitelyUsed, ReviewsFit, BankCreditEntersOnce,
         ApprovedIsPaidOnce
<1>3. BooksMatchDocuments'
  BY DEF FieldInv, MoneySafe, BooksMatchDocuments, VerifiedFrom, VerifiedTo, PaidFrom,
         Verified, Spent
<1>4. LogTellsStatus' /\ EvidenceKept'
  <2>1. LogTellsStatus /\ EvidenceKept
    BY DEF FieldInv, TrailSafe
  <2>2. LogTellsStatus'
    BY <2>1 DEF LogTellsStatus
  <2>3. EvidenceKept'
    BY <2>1 DEF EvidenceKept
  <2> QED
    BY <2>2, <2>3
<1> QED
  BY <1>1, <1>2, <1>3, <1>4 DEF FieldInv, MoneySafe, TrailSafe

LEMMA StoreReportKeeps ==
  ASSUME FieldInv, NEW p \in Phones, NEW o \in Orders, NEW m \in Amounts, StoreReport(p, o, m)
  PROVE  FieldInv'
<1> DEFINE content == [order |-> o, amount |-> m]
           new == [order |-> o, amount |-> m, key |-> Len(file) + 1]
<1>1. /\ file \in Seq([order : Orders, amount : Nat]) /\ Len(file) \in Nat /\ m \in Nat
      /\ upload \in [Phones -> [order : Orders \cup {None}, amount : Nat, key : Nat]]
  BY DEF FieldInv, MoneySafe, TypeOK
<1>2. /\ order[o] # NoOrder
      /\ file' = Append(file, content)
      /\ upload' = [upload EXCEPT ![p] = new]
      /\ UNCHANGED <<income, balance, box, order, log, credit, expense, paid, review>>
  <2>1. ~ (Len(file) + 1 <= Len(file))
    BY <1>1
  <2> QED
    BY <2>1 DEF StoreReport, KeyOf, ledger, expenses
<1>3. content \in [order : Orders, amount : Nat]
  BY <1>1
<1>4. /\ new \in [order : Orders \cup {None}, amount : Nat, key : Nat]
      /\ new.order = o /\ new.amount = m /\ new.key = Len(file) + 1
  BY <1>1
<1> HIDE DEF content, new
<1>5. /\ file' \in Seq([order : Orders, amount : Nat]) /\ Len(file') = Len(file) + 1
      /\ \A i \in 1..Len(file) : file'[i] = file[i]
      /\ file'[Len(file) + 1] = content
  BY <1>1, <1>2, <1>3, Appended
<1>6. \A i \in 1..Len(file) : i \in 1..Len(file')
  BY <1>1, <1>5
<1>7. /\ upload' \in [Phones -> [order : Orders \cup {None}, amount : Nat, key : Nat]]
      /\ \A q \in Phones : upload'[q] = IF q = p THEN new ELSE upload[q]
  BY <1>1, <1>2, <1>4
<1>8. UploadsFit'
  <2> SUFFICES ASSUME NEW q \in Phones, upload'[q] # NoUpload
               PROVE  /\ upload'[q].order \in Orders /\ order[upload'[q].order] # NoOrder
                      /\ upload'[q].key \in 1..Len(file')
                      /\ file'[upload'[q].key] =
                           [order |-> upload'[q].order, amount |-> upload'[q].amount]
    BY <1>2 DEF UploadsFit
  <2>1. CASE q = p
    <3>1. Len(file) + 1 \in 1..Len(file')
      BY <1>1, <1>5
    <3> QED
      BY <1>2, <1>4, <1>5, <1>7, <2>1, <3>1 DEF content
  <2>2. CASE q # p
    <3>1. upload'[q] = upload[q] /\ upload[q] # NoUpload
      BY <1>7, <2>2
    <3>2. /\ upload[q].order \in Orders /\ order[upload[q].order] # NoOrder
          /\ upload[q].key \in 1..Len(file)
          /\ file[upload[q].key] = [order |-> upload[q].order, amount |-> upload[q].amount]
      BY <3>1 DEF FieldInv, TrailSafe, UploadsFit
    <3> QED
      BY <1>5, <1>6, <3>1, <3>2
  <2> QED
    BY <2>1, <2>2
<1> QED
  BY <1>2, <1>5, <1>6, <1>7, <1>8, BucketKeeps

LEMMA DropReportKeeps ==
  ASSUME FieldInv, NEW p \in Phones, DropReport(p)
  PROVE  FieldInv'
<1>1. /\ upload' = [upload EXCEPT ![p] = NoUpload]
      /\ UNCHANGED <<income, balance, box, order, log, file, credit, expense, paid, review>>
  BY DEF DropReport, ledger, expenses
<1>2. /\ upload \in [Phones -> [order : Orders \cup {None}, amount : Nat, key : Nat]]
      /\ file \in Seq([order : Orders, amount : Nat])
  BY DEF FieldInv, MoneySafe, TypeOK
<1>3. NoUpload \in [order : Orders \cup {None}, amount : Nat, key : Nat]
  BY DEF NoUpload
<1>4. /\ upload' \in [Phones -> [order : Orders \cup {None}, amount : Nat, key : Nat]]
      /\ \A q \in Phones : upload'[q] = upload[q] \/ upload'[q] = NoUpload
  BY <1>1, <1>2, <1>3
<1>5. UploadsFit'
  BY <1>1, <1>4 DEF FieldInv, TrailSafe, UploadsFit
<1> QED
  BY <1>1, <1>2, <1>4, <1>5, BucketKeeps

\* verify: the transfer and the order in one transaction, and the credit if there is one.
LEMMA VerifyKeeps ==
  ASSUME FieldInv, NEW o \in Orders, NEW k \in BankCredits \cup {None}, NEW m \in Amounts,
         Verify(o, k, m)
  PROVE  FieldInv'
<1> DEFINE b == order[o].from
           d == order[o].to
           row == [order[o] EXCEPT !.status = "VERIFIED", !.verified = m]
           event == [type |-> "VERIFIED", key |-> 0, amount |-> m]
<1>1. /\ order[o].status = "REPORTED" /\ balance[b] - m >= 0
      /\ k # None => CanConsume(k, o, m)
      /\ balance' = [balance EXCEPT ![b] = @ - m, ![d] = @ + m]
      /\ order' = [order EXCEPT ![o] = row] /\ log' = [log EXCEPT ![o] = Append(@, event)]
      /\ credit' = IF k = None THEN credit ELSE [credit EXCEPT ![k].usedBy = o]
      /\ UNCHANGED <<income, box, file, upload, expense, paid, review>>
  BY DEF Verify, Append1, expenses, VerifiableFrom, CanTransfer
<1>2. /\ order[o] \in OrderType /\ b \in RouteBoxes /\ d \in BankBoxes
      /\ m \in Nat /\ b \in Boxes /\ d \in Boxes /\ b # d
  <2>1. order[o] \in OrderType /\ b \in RouteBoxes /\ d \in BankBoxes
    BY <1>1, RowsTyped
  <2> QED
    BY <2>1 DEF Boxes
<1>3. /\ row \in OrderType /\ row.from = b /\ row.to = d /\ row.status = "VERIFIED"
      /\ row.verified = m /\ event \in EventType /\ event.type = "VERIFIED"
  <2>1. row \in OrderType /\ row.from = b /\ row.to = d /\ row.status = "VERIFIED" /\ row.verified = m
    <3>1. PICK old \in OrderType : old = order[o]
      BY <1>2
    <3>2. row = [old EXCEPT !.status = "VERIFIED", !.verified = m] /\ b = old.from /\ d = old.to
      BY <3>1
    <3> HIDE DEF row, b, d
    <3> QED
      BY <1>2, <3>2 DEF OrderType, OrderStatus
  <2>2. "VERIFIED" \in OrderStatus
    BY DEF OrderStatus
  <2> QED
    BY <1>2, <2>1, <2>2, EventTyped
<1> HIDE DEF row, event
<1>4. OrderWrites(o, row, event)
  BY <1>1, <1>2, <1>3 DEF OrderWrites, OrderStatus
<1>5. /\ order' \in [Orders -> OrderType] /\ log' \in [Orders -> Seq(EventType)]
      /\ \A q \in Orders : q # o => order'[q] = order[q] /\ log'[q] = log[q]
      /\ order'[o] = row /\ order'[o] # NoOrder
  BY <1>4, OrderRows
<1>6. /\ TypeOK /\ RowsNamed /\ FinitelyUsed /\ ReviewsFit /\ BankCreditEntersOnce
      /\ ApprovedIsPaidOnce /\ BooksMatchDocuments
  BY DEF FieldInv, MoneySafe
<1>7. balance \in [Boxes -> Nat] /\ income \in [Boxes -> Nat] /\ credit \in [BankCredits -> CreditType]
  BY <1>6 DEF TypeOK, CreditType
<1> HIDE DEF b, d
<1>8. /\ balance'[b] = balance[b] - m /\ balance'[d] = balance[d] + m
      /\ \A x \in Boxes : x # b /\ x # d => balance'[x] = balance[x]
  BY <1>1, <1>2, <1>7
<1>9. /\ \A j \in BankCredits : j # k => credit'[j] = credit[j]
      /\ k # None => /\ credit[k].usedBy = None /\ credit[k].account = d /\ credit[k].amount = m
                     /\ credit'[k].usedBy = o /\ credit'[k].account = d /\ credit'[k].amount = m
                     /\ credit'[k] \in CreditType /\ k \in BankCredits
  <2>1. CASE k = None
    BY <1>1, <2>1
  <2>2. CASE k # None
    <3>1. /\ k \in BankCredits /\ credit[k].usedBy = None
          /\ credit[k].account = d /\ credit[k].amount = m
      BY <1>1, <2>2 DEF CanConsume, d
    <3>2. credit' = [credit EXCEPT ![k] = [credit[k] EXCEPT !.usedBy = o]]
      BY <1>1, <2>2
    <3>3. credit[k] \in CreditType
      BY <1>7, <3>1
    <3>4. /\ [credit[k] EXCEPT !.usedBy = o] \in CreditType
          /\ [credit[k] EXCEPT !.usedBy = o].usedBy = o
          /\ [credit[k] EXCEPT !.usedBy = o].account = credit[k].account
          /\ [credit[k] EXCEPT !.usedBy = o].amount = credit[k].amount
      BY <3>3 DEF CreditType
    <3>5. /\ credit'[k] = [credit[k] EXCEPT !.usedBy = o]
          /\ \A j \in BankCredits : j # k => credit'[j] = credit[j]
      BY <1>7, <3>1, <3>2
    <3> QED
      BY <2>2, <3>1, <3>4, <3>5
  <2> QED
    BY <2>1, <2>2
<1>t. TypeOK'
  <2>1. balance' \in [Boxes -> Nat]
    <3>1. balance[b] - m \in Nat
      <4>1. balance[b] \in Nat /\ balance[b] - m >= 0
        BY <1>1, <1>2, <1>7
      <4> QED
        BY <1>2, <4>1
    <3>2. \A x \in Boxes : balance'[x] \in Nat
      <4>1. balance[d] + m \in Nat
        BY <1>2, <1>7
      <4>2. \A x \in Boxes : balance[x] \in Nat
        BY <1>7
      <4> QED
        BY <1>8, <3>1, <4>1, <4>2
    <3>3. balance' = [x \in Boxes |-> balance'[x]]
      BY <1>1, <1>7
    <3> QED
      BY <3>2, <3>3
  <2>2. credit' \in [BankCredits -> CreditType]
    <3>1. CASE k = None
      BY <1>1, <1>7, <3>1
    <3>2. CASE k # None
      BY <1>1, <1>7, <1>9, <3>2
    <3> QED
      BY <3>1, <3>2
  <2> QED
    BY <1>1, <1>5, <1>6, <2>1, <2>2 DEF TypeOK, OrderType, EventType, CreditType
<1>n. RowsNamed'
  <2>1. \A j \in BankCredits : credit'[j] # NoCredit => credit'[j].account \in BankBoxes
    BY <1>2, <1>6, <1>9 DEF RowsNamed
  <2>2. \A q \in Orders : IF order'[q] = NoOrder THEN log'[q] = <<>>
                          ELSE /\ order'[q].status # "NONE" /\ order'[q].from \in RouteBoxes
                               /\ order'[q].to \in BankBoxes
    BY <1>2, <1>3, <1>5, <1>6 DEF RowsNamed
  <2> QED
    BY <2>1, <2>2 DEF RowsNamed
<1>f. FinitelyUsed'
  <2> DEFINE V == {q \in Orders : order'[q] # NoOrder}
  <2>1. V = {q \in Orders : order[q] # NoOrder}
    <3>1. order[o] # NoOrder
      BY <1>1 DEF NoOrder
    <3> QED
      BY <1>5, <3>1
  <2> HIDE DEF V
  <2>2. IsFiniteSet(V)
    BY <1>6, <2>1 DEF FinitelyUsed
  <2> QED
    BY <1>1, <1>6, <2>2 DEF FinitelyUsed, V
<1>c. BankCreditEntersOnce'
  <2>1. \A j \in BankCredits : credit[j].usedBy \in Orders =>
          /\ order[credit[j].usedBy].status = "VERIFIED"
          /\ order[credit[j].usedBy].verified = credit[j].amount
          /\ order[credit[j].usedBy].to = credit[j].account
    BY <1>6 DEF BankCreditEntersOnce
  <2>2. \A j \in BankCredits : credit[j].usedBy # o
    BY <1>1, <2>1
  <2>3. \A i, j \in BankCredits :
          i # j /\ credit[i].usedBy \in Orders => credit[i].usedBy # credit[j].usedBy
    BY <1>6 DEF BankCreditEntersOnce
  <2>4. \A j \in BankCredits : credit'[j].usedBy \in Orders =>
          /\ order'[credit'[j].usedBy].status = "VERIFIED"
          /\ order'[credit'[j].usedBy].verified = credit'[j].amount
          /\ order'[credit'[j].usedBy].to = credit'[j].account
    <3> SUFFICES ASSUME NEW j \in BankCredits, credit'[j].usedBy \in Orders
                 PROVE  /\ order'[credit'[j].usedBy].status = "VERIFIED"
                        /\ order'[credit'[j].usedBy].verified = credit'[j].amount
                        /\ order'[credit'[j].usedBy].to = credit'[j].account
      OBVIOUS
    <3>1. CASE j = k
      BY <1>3, <1>5, <1>9, <3>1
    <3>2. CASE j # k
      <4>1. credit'[j] = credit[j] /\ credit[j].usedBy # o
        BY <1>9, <2>2, <3>2
      <4> QED
        BY <1>5, <2>1, <4>1
    <3> QED
      BY <3>1, <3>2
  <2>5. \A i, j \in BankCredits :
          i # j /\ credit'[i].usedBy \in Orders => credit'[i].usedBy # credit'[j].usedBy
    BY <1>9, <2>2, <2>3
  <2> QED
    BY <2>4, <2>5 DEF BankCreditEntersOnce
<1>r. ReviewsFit' /\ ApprovedIsPaidOnce'
  BY <1>1, <1>6 DEF ReviewsFit, ApprovedIsPaidOnce
<1>b. BooksMatchDocuments'
  <2> SUFFICES ASSUME NEW x \in Boxes
               PROVE  balance'[x] = income'[x] - SumOver(Verified, VerifiedFrom(x))'
                                      + SumOver(Verified, VerifiedTo(x))'
                                      - SumOver(Spent, PaidFrom(x))'
    BY DEF BooksMatchDocuments
  <2> DEFINE V == [q \in Orders |-> order'[q].verified]
  <2>1. Verified' = V /\ V[o] = m /\ \A q \in Orders : q # o => V[q] = Verified[q]
    BY <1>3, <1>5 DEF Verified
  <2>2. Spent' = Spent /\ PaidFrom(x)' = PaidFrom(x) /\ income'[x] = income[x]
    BY <1>1 DEF Spent, PaidFrom
  <2>3. /\ o \notin VerifiedFrom(x) /\ o \notin VerifiedTo(x)
        /\ VerifiedFrom(x)' = IF x = b THEN VerifiedFrom(x) \cup {o} ELSE VerifiedFrom(x)
        /\ VerifiedTo(x)' = IF x = d THEN VerifiedTo(x) \cup {o} ELSE VerifiedTo(x)
    BY <1>1, <1>3, <1>5 DEF VerifiedFrom, VerifiedTo
  <2> HIDE DEF V
  <2>4. /\ IsFiniteSet(VerifiedFrom(x)) /\ VerifiedFrom(x) \subseteq Orders
        /\ IsFiniteSet(VerifiedTo(x)) /\ VerifiedTo(x) \subseteq Orders
        /\ \A q \in Orders : Verified[q] \in Int
        /\ SumOver(Spent, PaidFrom(x)) \in Int
    BY DocumentsFinite, SumInt
  <2>5. PICK F, T, s : /\ F = VerifiedFrom(x) /\ T = VerifiedTo(x)
                       /\ s = SumOver(Spent, PaidFrom(x))
    OBVIOUS
  <2>6. /\ IsFiniteSet(F) /\ o \notin F /\ \A q \in F : Verified[q] \in Int /\ V[q] = Verified[q]
        /\ IsFiniteSet(T) /\ o \notin T /\ \A q \in T : Verified[q] \in Int /\ V[q] = Verified[q]
        /\ V[o] \in Int
    BY <1>2, <2>1, <2>3, <2>4, <2>5
  <2>7. /\ SumOver(Verified, F) \in Int /\ SumOver(V, F \cup {o}) = SumOver(Verified, F) + m
        /\ SumOver(Verified, T) \in Int /\ SumOver(V, T \cup {o}) = SumOver(Verified, T) + m
    <3>1. Joins(Verified, V, F, o) /\ Joins(Verified, V, T, o)
      BY <2>6 DEF Joins
    <3>2. SumOver(Verified, F) \in Int /\ SumOver(V, F \cup {o}) = SumOver(Verified, F) + V[o]
      BY <3>1, JoinsSum
    <3>3. SumOver(Verified, T) \in Int /\ SumOver(V, T \cup {o}) = SumOver(Verified, T) + V[o]
      BY <3>1, JoinsSum
    <3> QED
      BY <2>1, <3>2, <3>3
  <2>8. SumOver(V, F) = SumOver(Verified, F) /\ SumOver(V, T) = SumOver(Verified, T)
    BY <2>6, SumEqual
  <2>9. balance[x] = income[x] - SumOver(Verified, F) + SumOver(Verified, T) - s
    BY <1>6, <2>5 DEF BooksMatchDocuments
  <2>10. /\ income[x] \in Int /\ s \in Int
         /\ VerifiedFrom(x)' = IF x = b THEN F \cup {o} ELSE F
         /\ VerifiedTo(x)' = IF x = d THEN T \cup {o} ELSE T
         /\ SumOver(Spent, PaidFrom(x))' = s
    BY <1>7, <2>2, <2>3, <2>4, <2>5
  <2>11. CASE x = b
    <3>1. balance'[x] = income[x] - SumOver(V, F \cup {o}) + SumOver(V, T) - s
      BY <1>2, <1>8, <2>7, <2>8, <2>9, <2>10, <2>11
    <3> QED
      BY <1>2, <2>1, <2>2, <2>10, <2>11, <3>1
  <2>12. CASE x = d
    <3>1. balance'[x] = income[x] - SumOver(V, F) + SumOver(V, T \cup {o}) - s
      BY <1>2, <1>8, <2>7, <2>8, <2>9, <2>10, <2>12
    <3> QED
      BY <1>2, <2>1, <2>2, <2>10, <2>12, <3>1
  <2>13. CASE x # b /\ x # d
    <3>1. balance'[x] = income[x] - SumOver(V, F) + SumOver(V, T) - s
      BY <1>8, <2>7, <2>8, <2>9, <2>13
    <3> QED
      BY <2>1, <2>2, <2>10, <2>13, <3>1
  <2> QED
    BY <2>11, <2>12, <2>13
<1> QED
  BY <1>4, <1>t, <1>n, <1>f, <1>c, <1>r, <1>b, OrderTrail, OrderEvidence
     DEF FieldInv, MoneySafe, TrailSafe
-----------------------------------------------------------------------------
(* Expenses.                                                                *)

ExpenseType == [status : {"NONE", "PENDING", "APPROVED", "REJECTED"},
                by : Collectors \cup {None}, amount : Nat, from : Boxes \cup {None}]
ReviewType == [expense : Expenses \cup {None}, status : {"NONE", "APPROVED", "REJECTED"},
               from : Boxes \cup {None}]
EntryType == [from : Boxes, amount : Nat, owner : Collectors \cup {None}]

\* Deposit orders and bank credits stay.
OrdersStay == UNCHANGED <<income, box, order, log, file, upload, credit>>

LEMMA OrdersStayInv ==
  ASSUME FieldInv, OrdersStay
  PROVE  /\ TrailSafe' /\ RowsNamed' /\ BankCreditEntersOnce'
         /\ IsFiniteSet({o \in Orders : order[o] # NoOrder})'
         /\ (/\ balance' \in [Boxes -> Nat] /\ expense' \in [Expenses -> ExpenseType]
             /\ paid' \in [Expenses -> Seq(EntryType)] /\ review' \in [Reviewers -> ReviewType])
              => TypeOK'
<1>1. TrailSafe'
  BY DEF FieldInv, TrailSafe, OrdersStay, LogTellsStatus, EvidenceKept, UploadsFit
<1>2. RowsNamed' /\ BankCreditEntersOnce' /\ IsFiniteSet({o \in Orders : order[o] # NoOrder})'
  BY DEF FieldInv, MoneySafe, OrdersStay, RowsNamed, BankCreditEntersOnce, FinitelyUsed
<1>3. (/\ balance' \in [Boxes -> Nat] /\ expense' \in [Expenses -> ExpenseType]
       /\ paid' \in [Expenses -> Seq(EntryType)] /\ review' \in [Reviewers -> ReviewType])
        => TypeOK'
  BY DEF FieldInv, MoneySafe, OrdersStay, TypeOK, ExpenseType, EntryType, ReviewType
<1> QED
  BY <1>1, <1>2, <1>3

LEMMA ExpenseFacts ==
  ASSUME FieldInv
  PROVE  /\ balance \in [Boxes -> Nat] /\ income \in [Boxes -> Nat]
         /\ expense \in [Expenses -> ExpenseType]
         /\ paid \in [Expenses -> Seq(EntryType)] /\ review \in [Reviewers -> ReviewType]
         /\ \A v \in Reviewers : review[v] # NoReview =>
              /\ review[v].expense \in Expenses /\ expense[review[v].expense].status # "NONE"
              /\ review[v].status = "APPROVED" => review[v].from \in Boxes
         /\ \A e \in Expenses : expense[e].status = "NONE" => paid[e] = <<>>
         /\ \A e \in Expenses :
              /\ Len(paid[e]) <= 1
              /\ expense[e].status = "APPROVED" =>
                   Len(paid[e]) = 1 /\ paid[e][1].from = expense[e].from
         /\ IsFiniteSet({e \in Expenses : expense[e] # NoExpense})
  BY DEF FieldInv, MoneySafe, TypeOK, ReviewsFit, ApprovedIsPaidOnce, FinitelyUsed,
         ExpenseType, EntryType, ReviewType

\* No entry is added to the books.
LEMMA NothingPaid ==
  ASSUME FieldInv, OrdersStay, UNCHANGED <<balance, paid>>,
         \A e \in Expenses : paid[e] # <<>> => expense'[e].amount = expense[e].amount
  PROVE  BooksMatchDocuments'
<1> DEFINE gain == [b \in Boxes |-> 0]
<1>1. \A b \in Boxes : /\ gain[b] \in Int
                       /\ income'[b] = income[b] + gain[b]
                       /\ balance'[b] = balance[b] + gain[b]
  BY ExpenseFacts DEF OrdersStay
<1> HIDE DEF gain
<1> QED
  BY <1>1, BooksStay DEF OrdersStay

LEMMA RequestExpenseKeeps ==
  ASSUME FieldInv, NEW e \in Expenses, NEW c \in Collectors, NEW m \in Amounts,
         RequestExpense(e, c, m)
  PROVE  FieldInv'
<1> DEFINE row == [NoExpense EXCEPT !.status = "PENDING", !.by = c, !.amount = m]
<1>1. /\ expense[e] = NoExpense /\ expense' = [expense EXCEPT ![e] = row]
      /\ OrdersStay /\ UNCHANGED <<balance, paid, review>>
  BY DEF RequestExpense, ledger, orders, OrdersStay
<1>2. row \in ExpenseType /\ row.status = "PENDING"
  BY DEF ExpenseType, NoExpense
<1> HIDE DEF row
<1>3. /\ expense' \in [Expenses -> ExpenseType]
      /\ \A x \in Expenses : expense'[x] = IF x = e THEN row ELSE expense[x]
  BY <1>1, <1>2, ExpenseFacts
<1>4. paid[e] = <<>>
  BY <1>1, ExpenseFacts DEF NoExpense
<1>5. TypeOK'
  BY <1>1, <1>3, ExpenseFacts, OrdersStayInv
<1>6. BooksMatchDocuments'
  BY <1>1, <1>3, <1>4, NothingPaid
<1>7. FinitelyUsed'
  <2> DEFINE U == {x \in Expenses : expense[x] # NoExpense}
             V == {x \in Expenses : expense'[x] # NoExpense}
  <2>1. V \subseteq U \cup {e}
    BY <1>3
  <2>2. IsFiniteSet(U)
    BY ExpenseFacts
  <2> HIDE DEF U, V
  <2>3. IsFiniteSet(V)
    BY <2>1, <2>2, FS_AddElement, FS_Subset
  <2> QED
    BY <1>1, <2>3, OrdersStayInv DEF FinitelyUsed, V
<1>8. ReviewsFit'
  BY <1>1, <1>2, <1>3, <1>4, ExpenseFacts DEF ReviewsFit
<1>9. ApprovedIsPaidOnce'
  BY <1>1, <1>2, <1>3, ExpenseFacts DEF ApprovedIsPaidOnce
<1> QED
  BY <1>1, <1>5, <1>6, <1>7, <1>8, <1>9, OrdersStayInv DEF FieldInv, MoneySafe

\* Only what a reviewer is about to write changes.
LEMMA ReviewKeeps ==
  ASSUME FieldInv, OrdersStay, UNCHANGED <<balance, expense, paid>>,
         review' \in [Reviewers -> ReviewType], ReviewsFit'
  PROVE  FieldInv'
<1>1. TypeOK'
  BY ExpenseFacts, OrdersStayInv
<1>2. BooksMatchDocuments'
  BY NothingPaid
<1>3. FinitelyUsed' /\ ApprovedIsPaidOnce'
  BY OrdersStayInv DEF FieldInv, MoneySafe, FinitelyUsed, ApprovedIsPaidOnce
<1> QED
  BY <1>1, <1>2, <1>3, OrdersStayInv DEF FieldInv, MoneySafe

LEMMA DecideKeeps ==
  ASSUME FieldInv, NEW v \in Reviewers, NEW e \in Expenses, NEW status \in {"APPROVED", "REJECTED"},
         NEW b \in Boxes \cup {None}, Decide(v, e, status, b)
  PROVE  FieldInv'
<1> DEFINE new == [expense |-> e, status |-> status, from |-> b]
<1>1. /\ expense[e].status = "PENDING" /\ (status = "APPROVED" <=> b # None)
      /\ review' = [review EXCEPT ![v] = new]
      /\ OrdersStay /\ UNCHANGED <<balance, expense, paid>>
  BY DEF Decide, Reviewable, ledger, orders, OrdersStay
<1>2. /\ new \in ReviewType /\ new.expense = e
      /\ new.status = "APPROVED" => new.from \in Boxes
  BY <1>1 DEF ReviewType
<1> HIDE DEF new
<1>3. /\ review' \in [Reviewers -> ReviewType]
      /\ \A w \in Reviewers : review'[w] = IF w = v THEN new ELSE review[w]
  BY <1>1, <1>2, ExpenseFacts
<1>4. ReviewsFit'
  BY <1>1, <1>2, <1>3, ExpenseFacts DEF ReviewsFit
<1> QED
  BY <1>1, <1>3, <1>4, ReviewKeeps

LEMMA DropReviewKeeps ==
  ASSUME FieldInv, NEW v \in Reviewers, DropReview(v)
  PROVE  FieldInv'
<1>1. /\ review' = [review EXCEPT ![v] = NoReview]
      /\ OrdersStay /\ UNCHANGED <<balance, expense, paid>>
  BY DEF DropReview, ledger, orders, OrdersStay
<1>2. NoReview \in ReviewType
  BY DEF NoReview, ReviewType
<1>3. /\ review' \in [Reviewers -> ReviewType]
      /\ \A w \in Reviewers : review'[w] = IF w = v THEN NoReview ELSE review[w]
  BY <1>1, <1>2, ExpenseFacts
<1>4. ReviewsFit'
  BY <1>1, <1>3, ExpenseFacts DEF ReviewsFit
<1> QED
  BY <1>1, <1>3, <1>4, ReviewKeeps

\* Both halves of updateReview write the row of a requested expense, and are done.
ReviewWritten(v, e, row) ==
  /\ OrdersStay
  /\ e \in Expenses /\ expense[e].status # "NONE"
  /\ row \in ExpenseType /\ row.status # "NONE" /\ row.amount = expense[e].amount
  /\ expense' = [expense EXCEPT ![e] = row]
  /\ review' = [review EXCEPT ![v] = NoReview]

LEMMA WrittenFacts ==
  ASSUME FieldInv, NEW v \in Reviewers, NEW e, NEW row, ReviewWritten(v, e, row),
         paid' \in [Expenses -> Seq(EntryType)], \A x \in Expenses : x # e => paid'[x] = paid[x]
  PROVE  /\ expense' \in [Expenses -> ExpenseType] /\ review' \in [Reviewers -> ReviewType]
         /\ \A x \in Expenses : expense'[x] = IF x = e THEN row ELSE expense[x]
         /\ \A x \in Expenses : expense'[x].amount = expense[x].amount
         /\ FinitelyUsed' /\ ReviewsFit'
<1>0. /\ e \in Expenses /\ row \in ExpenseType /\ row.status # "NONE"
      /\ expense[e].status # "NONE" /\ row.amount = expense[e].amount
      /\ expense' = [expense EXCEPT ![e] = row] /\ review' = [review EXCEPT ![v] = NoReview]
      /\ OrdersStay
  BY DEF ReviewWritten
<1>1. /\ expense' \in [Expenses -> ExpenseType]
      /\ \A x \in Expenses : expense'[x] = IF x = e THEN row ELSE expense[x]
  BY <1>0, ExpenseFacts
<1>2. /\ review' \in [Reviewers -> ReviewType]
      /\ \A w \in Reviewers : review'[w] = IF w = v THEN NoReview ELSE review[w]
  <2>1. NoReview \in ReviewType
    BY DEF NoReview, ReviewType
  <2> QED
    BY <1>0, <2>1, ExpenseFacts
<1>3. FinitelyUsed'
  <2> DEFINE U == {x \in Expenses : expense[x] # NoExpense}
             V == {x \in Expenses : expense'[x] # NoExpense}
  <2>1. V \subseteq U \cup {e}
    BY <1>1
  <2>2. IsFiniteSet(U)
    BY ExpenseFacts
  <2> HIDE DEF U, V
  <2>3. IsFiniteSet(V)
    BY <2>1, <2>2, FS_AddElement, FS_Subset
  <2> QED
    BY <1>0, <2>3, OrdersStayInv DEF FinitelyUsed, V
<1>4. ReviewsFit'
  BY <1>0, <1>1, <1>2, ExpenseFacts DEF ReviewsFit
<1> QED
  BY <1>0, <1>1, <1>2, <1>3, <1>4

LEMMA WriteRejectionKeeps ==
  ASSUME FieldInv, NEW v \in Reviewers, WriteRejection(v)
  PROVE  FieldInv'
<1> DEFINE e == review[v].expense
           row == [expense[e] EXCEPT !.status = "REJECTED", !.from = None]
<1>1. /\ review[v].status = "REJECTED"
      /\ expense' = [expense EXCEPT ![e] = row]
      /\ review' = [review EXCEPT ![v] = NoReview]
      /\ OrdersStay /\ UNCHANGED <<balance, paid>>
  BY DEF WriteRejection, ledger, orders, OrdersStay
<1>2. e \in Expenses /\ expense[e].status # "NONE"
  BY <1>1, ExpenseFacts DEF NoReview
<1>3. row \in ExpenseType /\ row.status = "REJECTED" /\ row.amount = expense[e].amount
  <2>1. PICK old \in ExpenseType : old = expense[e]
    BY <1>2, ExpenseFacts
  <2>2. row = [old EXCEPT !.status = "REJECTED", !.from = None]
    BY <2>1
  <2> HIDE DEF row
  <2>3. row \in ExpenseType /\ row.status = "REJECTED" /\ row.amount = old.amount
    BY <2>2 DEF ExpenseType
  <2> QED
    BY <2>1, <2>3
<1> HIDE DEF e, row
<1>4. ReviewWritten(v, e, row)
  BY <1>1, <1>2, <1>3 DEF ReviewWritten
<1>5. /\ expense' \in [Expenses -> ExpenseType] /\ review' \in [Reviewers -> ReviewType]
      /\ \A x \in Expenses : expense'[x] = IF x = e THEN row ELSE expense[x]
      /\ \A x \in Expenses : expense'[x].amount = expense[x].amount
      /\ FinitelyUsed' /\ ReviewsFit'
  BY <1>1, <1>4, WrittenFacts, ExpenseFacts
<1>6. TypeOK'
  BY <1>1, <1>5, ExpenseFacts, OrdersStayInv
<1>7. BooksMatchDocuments'
  BY <1>1, <1>5, NothingPaid
<1>8. ApprovedIsPaidOnce'
  BY <1>1, <1>3, <1>5, ExpenseFacts DEF ApprovedIsPaidOnce
<1> QED
  BY <1>1, <1>5, <1>6, <1>7, <1>8, OrdersStayInv DEF FieldInv, MoneySafe

LEMMA WriteApprovalKeeps ==
  ASSUME FieldInv, NEW v \in Reviewers, WriteApproval(v)
  PROVE  FieldInv'
<1> DEFINE e == review[v].expense
           b == review[v].from
           m == expense[e].amount
           row == [expense[e] EXCEPT !.status = "APPROVED", !.from = b]
           entry == [from |-> b, amount |-> m, owner |-> box[b].owner]
<1>1. /\ review[v].status = "APPROVED" /\ balance[b] - m >= 0 /\ paid[e] = <<>>
      /\ expense' = [expense EXCEPT ![e] = row]
      /\ balance' = [balance EXCEPT ![b] = @ - m]
      /\ paid' = [paid EXCEPT ![e] = Append(@, entry)]
      /\ review' = [review EXCEPT ![v] = NoReview]
      /\ OrdersStay
  BY DEF WriteApproval, CanPostOut, Payable, ledger, orders, OrdersStay
<1>2. /\ e \in Expenses /\ expense[e].status # "NONE" /\ b \in Boxes
      /\ expense[e] \in ExpenseType /\ m \in Nat
  <2>1. e \in Expenses /\ expense[e].status # "NONE" /\ b \in Boxes
    BY <1>1, ExpenseFacts DEF NoReview
  <2> QED
    BY <2>1, ExpenseFacts DEF ExpenseType
<1>3. /\ row \in ExpenseType /\ row.status = "APPROVED" /\ row.amount = expense[e].amount
      /\ row.from = b
  <2>1. PICK old \in ExpenseType : old = expense[e]
    BY <1>2
  <2>2. row = [old EXCEPT !.status = "APPROVED", !.from = b]
    BY <2>1
  <2> HIDE DEF row, b
  <2>3. row \in ExpenseType /\ row.status = "APPROVED" /\ row.amount = old.amount /\ row.from = b
    BY <1>2, <2>2 DEF ExpenseType
  <2> QED
    BY <2>1, <2>3
<1>4. entry \in EntryType /\ entry.from = b
  <2>1. box[b].owner \in Collectors \cup {None}
    BY <1>2 DEF FieldInv, MoneySafe, TypeOK
  <2> QED
    BY <1>2, <2>1 DEF EntryType
<1> HIDE DEF e, b, m, row, entry
<1>5. Append(paid[e], entry) = <<entry>>
  BY <1>1
<1>6. /\ paid' \in [Expenses -> Seq(EntryType)]
      /\ \A x \in Expenses : paid'[x] = IF x = e THEN <<entry>> ELSE paid[x]
  BY <1>1, <1>2, <1>4, <1>5, ExpenseFacts
<1>7. ReviewWritten(v, e, row)
  BY <1>1, <1>2, <1>3 DEF ReviewWritten
<1>8. /\ expense' \in [Expenses -> ExpenseType] /\ review' \in [Reviewers -> ReviewType]
      /\ \A x \in Expenses : expense'[x] = IF x = e THEN row ELSE expense[x]
      /\ \A x \in Expenses : expense'[x].amount = expense[x].amount
      /\ FinitelyUsed' /\ ReviewsFit'
  <2>1. \A x \in Expenses : x # e => paid'[x] = paid[x]
    BY <1>6
  <2> QED
    BY <1>6, <1>7, <2>1, WrittenFacts
<1>9. /\ balance'[b] = balance[b] - m
      /\ \A x \in Boxes : x # b => balance'[x] = balance[x]
  BY <1>1, <1>2, ExpenseFacts
<1>t. TypeOK'
  <2>1. balance[b] - m \in Nat
    <3>1. balance[b] \in Nat /\ balance[b] - m >= 0
      BY <1>1, <1>2, ExpenseFacts
    <3> QED
      BY <1>2, <3>1
  <2>2. balance' \in [Boxes -> Nat]
    BY <1>1, <2>1, ExpenseFacts
  <2> QED
    BY <1>1, <1>6, <1>8, <2>2, OrdersStayInv
<1>a. ApprovedIsPaidOnce'
  <2> SUFFICES ASSUME NEW x \in Expenses
               PROVE  /\ Len(paid'[x]) <= 1
                      /\ expense'[x].status = "APPROVED" =>
                           Len(paid'[x]) = 1 /\ paid'[x][1].from = expense'[x].from
    BY DEF ApprovedIsPaidOnce
  <2>1. CASE x = e
    <3>1. Len(<<entry>>) = 1 /\ <<entry>>[1] = entry
      OBVIOUS
    <3>2. paid'[x] = <<entry>> /\ expense'[x] = row
      BY <1>2, <1>6, <1>8, <2>1
    <3>3. paid'[x][1].from = b /\ expense'[x].from = b
      BY <1>3, <1>4, <3>1, <3>2
    <3> QED
      BY <3>1, <3>2, <3>3
  <2>2. CASE x # e
    BY <1>6, <1>8, <2>2, ExpenseFacts
  <2> QED
    BY <2>1, <2>2
<1>b. BooksMatchDocuments'
  <2> SUFFICES ASSUME NEW x \in Boxes
               PROVE  balance'[x] = income'[x] - SumOver(Verified, VerifiedFrom(x))'
                                      + SumOver(Verified, VerifiedTo(x))'
                                      - SumOver(Spent, PaidFrom(x))'
    BY DEF BooksMatchDocuments
  <2> DEFINE S == [q \in Expenses |-> expense'[q].amount]
  <2>1. Spent' = S /\ S[e] = m /\ \A q \in Expenses : S[q] = Spent[q]
    <3>1. Spent' = S
      BY DEF Spent
    <3>2. \A q \in Expenses : expense'[q].amount = expense[q].amount
      BY <1>8
    <3> QED
      BY <1>2, <3>1, <3>2 DEF Spent, m
  <2>2. /\ Verified' = Verified /\ VerifiedFrom(x)' = VerifiedFrom(x)
        /\ VerifiedTo(x)' = VerifiedTo(x) /\ income'[x] = income[x]
    BY <1>1 DEF OrdersStay, Verified, VerifiedFrom, VerifiedTo
  <2>3. /\ e \notin PaidFrom(x)
        /\ PaidFrom(x)' = IF x = b THEN PaidFrom(x) \cup {e} ELSE PaidFrom(x)
    <3>1. e \notin PaidFrom(x)
      BY <1>1, <1>2 DEF PaidFrom
    <3>2. (\E i \in 1..Len(paid'[e]) : paid'[e][i].from = x) <=> x = b
      BY <1>2, <1>4, <1>6
    <3>3. \A q \in Expenses : q # e => paid'[q] = paid[q]
      BY <1>6
    <3> QED
      BY <1>2, <3>1, <3>2, <3>3 DEF PaidFrom
  <2> HIDE DEF S
  <2>4. /\ IsFiniteSet(PaidFrom(x)) /\ PaidFrom(x) \subseteq Expenses
        /\ \A q \in Expenses : Spent[q] \in Int
        /\ SumOver(Verified, VerifiedFrom(x)) \in Int /\ SumOver(Verified, VerifiedTo(x)) \in Int
    BY DocumentsFinite, SumInt
  <2>5. PICK P, f, t : /\ P = PaidFrom(x) /\ f = SumOver(Verified, VerifiedFrom(x))
                       /\ t = SumOver(Verified, VerifiedTo(x))
    OBVIOUS
  <2>6. Joins(Spent, S, P, e)
    BY <1>2, <2>1, <2>3, <2>4, <2>5 DEF Joins
  <2>7. SumOver(Spent, P) \in Int /\ SumOver(S, P \cup {e}) = SumOver(Spent, P) + S[e]
    BY <2>6, JoinsSum
  <2>8. SumOver(S, P) = SumOver(Spent, P)
    BY <2>1, <2>4, <2>5, SumEqual
  <2>9. balance[x] = income[x] - f + t - SumOver(Spent, P)
    BY <2>5 DEF FieldInv, MoneySafe, BooksMatchDocuments
  <2>10. /\ income[x] \in Int /\ f \in Int /\ t \in Int
         /\ PaidFrom(x)' = IF x = b THEN P \cup {e} ELSE P
         /\ SumOver(Verified, VerifiedFrom(x))' = f /\ SumOver(Verified, VerifiedTo(x))' = t
    BY <2>2, <2>3, <2>4, <2>5, ExpenseFacts
  <2>11. CASE x = b
    <3>1. balance'[x] = income[x] - f + t - SumOver(S, P \cup {e})
      BY <1>2, <1>9, <2>1, <2>7, <2>9, <2>10, <2>11
    <3> QED
      BY <2>1, <2>2, <2>10, <2>11, <3>1
  <2>12. CASE x # b
    <3>1. balance'[x] = income[x] - f + t - SumOver(S, P)
      BY <1>9, <2>8, <2>9, <2>12
    <3> QED
      BY <2>1, <2>2, <2>10, <2>12, <3>1
  <2> QED
    BY <2>11, <2>12
<1> QED
  BY <1>1, <1>8, <1>t, <1>a, <1>b, OrdersStayInv DEF FieldInv, MoneySafe
-----------------------------------------------------------------------------
(* The theorems about the money.                                            *)

LEMMA FieldInit == Init => FieldInv
<1> SUFFICES ASSUME Init PROVE FieldInv
  OBVIOUS
<1>1. /\ income = [b \in Boxes |-> 0] /\ balance = [b \in Boxes |-> 0]
      /\ order = [o \in Orders |-> NoOrder] /\ log = [o \in Orders |-> <<>>] /\ file = <<>>
      /\ upload = [p \in Phones |-> NoUpload] /\ credit = [k \in BankCredits |-> NoCredit]
      /\ expense = [e \in Expenses |-> NoExpense] /\ paid = [e \in Expenses |-> <<>>]
      /\ review = [v \in Reviewers |-> NoReview]
  BY DEF Init
<1>2. TypeOK
  <2>1. box \in [Boxes -> [owner : Collectors \cup {None}, active : BOOLEAN]]
    BY DEF Init
  <2> QED
    BY <1>1, <2>1 DEF TypeOK, NoOrder, NoUpload, NoCredit, NoExpense, NoReview, OrderStatus
<1>3. /\ \A o \in Orders : order[o] = NoOrder /\ log[o] = <<>>
      /\ \A k \in BankCredits : credit[k] = NoCredit
      /\ \A e \in Expenses : expense[e] = NoExpense /\ paid[e] = <<>>
      /\ \A v \in Reviewers : review[v] = NoReview
      /\ \A p \in Phones : upload[p] = NoUpload
  BY <1>1
<1>4. RowsNamed /\ ReviewsFit /\ UploadsFit /\ LogTellsStatus
  BY <1>3 DEF RowsNamed, ReviewsFit, UploadsFit, LogTellsStatus
<1>5. FinitelyUsed
  <2>1. {o \in Orders : order[o] # NoOrder} = {} /\ {e \in Expenses : expense[e] # NoExpense} = {}
    BY <1>3
  <2> QED
    BY <2>1, FS_EmptySet DEF FinitelyUsed
<1>6. EvidenceKept
  BY <1>3 DEF EvidenceKept
<1>7. BankCreditEntersOnce
  BY <1>3 DEF BankCreditEntersOnce, NoCredit
<1>8. ApprovedIsPaidOnce
  BY <1>3 DEF ApprovedIsPaidOnce, NoExpense
<1>9. BooksMatchDocuments
  <2> SUFFICES ASSUME NEW b \in Boxes
               PROVE  balance[b] = income[b] - SumOver(Verified, VerifiedFrom(b))
                                    + SumOver(Verified, VerifiedTo(b)) - SumOver(Spent, PaidFrom(b))
    BY DEF BooksMatchDocuments
  <2>1. VerifiedFrom(b) = {} /\ VerifiedTo(b) = {} /\ PaidFrom(b) = {}
    BY <1>3 DEF VerifiedFrom, VerifiedTo, PaidFrom, NoOrder
  <2>2. /\ SumOver(Verified, VerifiedFrom(b)) = 0 /\ SumOver(Verified, VerifiedTo(b)) = 0
        /\ SumOver(Spent, PaidFrom(b)) = 0
    BY <2>1, SumEmpty
  <2> QED
    BY <1>1, <2>2
<1> QED
  BY <1>2, <1>4, <1>5, <1>6, <1>7, <1>8, <1>9 DEF FieldInv, MoneySafe, TrailSafe

LEMMA FieldStep == FieldInv /\ [Next]_vars => FieldInv'
<1> SUFFICES ASSUME FieldInv, [Next]_vars PROVE FieldInv'
  OBVIOUS
<1>1. CASE BoxStep
  BY <1>1, CollectKeeps, SetActiveKeeps, ConfirmPaymentKeeps, BankReportsKeeps DEF BoxStep
<1>2. CASE OrderStep
  BY <1>2, IssueKeeps, MarkSeenKeeps, VerifyKeeps, CloseKeeps, CommentKeeps, StoreReportKeeps,
     WriteReportKeeps, DropReportKeeps DEF OrderStep
<1>3. CASE ExpenseStep
  BY <1>3, RequestExpenseKeeps, DecideKeeps, WriteRejectionKeeps, WriteApprovalKeeps,
     DropReviewKeeps DEF ExpenseStep
<1>4. CASE UNCHANGED vars
  <2>1. /\ OrdersStay /\ UNCHANGED <<balance, expense, paid, review>>
    BY <1>4 DEF vars, ledger, orders, expenses, OrdersStay
  <2>2. review' \in [Reviewers -> ReviewType]
    BY <2>1, ExpenseFacts
  <2>3. ReviewsFit'
    BY <2>1 DEF FieldInv, MoneySafe, ReviewsFit
  <2> QED
    BY <2>1, <2>2, <2>3, ReviewKeeps
<1> QED
  BY <1>1, <1>2, <1>3, <1>4 DEF Next

\* The books of every box are what its documents say, no credit of the bank enters twice,
\* an approved expense left one box once (deposit-order.repository.ts, expense.repository.ts).
THEOREM MoneyAlwaysSafe == Spec => []MoneySafe
<1>1. FieldInv => MoneySafe
  BY DEF FieldInv
<1> QED
  BY <1>1, FieldInit, FieldStep, PTL DEF Spec

\* The log of an order is its history to the last event, and every report told there can
\* be compared with the receipt it was made with.
THEOREM TrailAlwaysSafe == Spec => []TrailSafe
<1>1. FieldInv => TrailSafe
  BY DEF FieldInv
<1> QED
  BY <1>1, FieldInit, FieldStep, PTL DEF Spec

-----------------------------------------------------------------------------
(* Collections.                                                             *)

USE CollectionsAssumption

CollectInv == StopsSafe /\ AnswerIsTrue

LEMMA Kept ==
  ASSUME CollectInv
  PROVE  /\ CollectTypeOK /\ JobsTyped /\ RequestsFit /\ RemindersFit
         /\ OneOpenStop /\ PaidAsResolved /\ OneReminderADay /\ AnswerIsTrue
         /\ stops \in Seq(StopType) /\ stopPaid \in Seq(Nat) /\ Len(stopPaid) = Len(stops)
         /\ Len(stops) \in Nat /\ DOMAIN stops = 1..Len(stops) /\ DOMAIN stopPaid = 1..Len(stops)
         /\ \A s \in DOMAIN stops : stops[s] \in StopType /\ stopPaid[s] \in Nat
<1>1. /\ stops \in Seq(StopType) /\ stopPaid \in Seq(Nat) /\ Len(stopPaid) = Len(stops)
  BY DEF CollectInv, StopsSafe, CollectTypeOK
<1>2. /\ Len(stops) \in Nat /\ DOMAIN stops = 1..Len(stops) /\ DOMAIN stopPaid = 1..Len(stops)
      /\ \A s \in DOMAIN stops : stops[s] \in StopType /\ stopPaid[s] \in Nat
  BY <1>1
<1> QED
  BY <1>1, <1>2 DEF CollectInv, StopsSafe

\* The stops that are there stay there, with their credit and key; a closed one does not
\* change.
StopsGo ==
  /\ DOMAIN stops \subseteq DOMAIN stops'
  /\ \A s \in DOMAIN stops : stops'[s].credit = stops[s].credit /\ stops'[s].key = stops[s].key
  /\ \A s \in DOMAIN stops : stops[s].status \notin OpenStatuses => stops'[s] = stops[s]

\* A key goes on asking what it asked.
WantsStay == \A k \in Keys : want[k] # NoWant => want'[k] = want[k]

\* What a request asked for and has happened, has happened for ever.
LEMMA EffectStays ==
  ASSUME CollectInv, StopsGo, WantsStay, NEW k \in Keys, want[k] # NoWant, Effected(k)
  PROVE  Effected(k)'
<1>1. want'[k] = want[k]
  BY DEF WantsStay
<1>2. want[k] \in Dispatches \/ want[k] \in Resolutions
  BY Kept DEF RequestsFit
<1>3. CASE want[k] \in Dispatches
  <2>1. want[k].op = "dispatch"
    BY <1>3 DEF Dispatches
  <2>2. PICK s \in DOMAIN stops : stops[s].key = k
    BY <2>1 DEF Effected
  <2>3. s \in DOMAIN stops' /\ stops'[s].key = k
    BY <2>2 DEF StopsGo
  <2> QED
    BY <1>1, <2>1, <2>3 DEF Effected
<1>4. CASE want[k] \in Resolutions
  <2>1. want[k].op = "resolve" /\ want[k].stop \in DOMAIN stops
    BY <1>4 DEF Resolutions
  <2>2. stops[want[k].stop].status = "RESOLVED" /\ stops[want[k].stop].outcome = want[k].outcome
    BY <2>1 DEF Effected
  <2>3. stops'[want[k].stop] = stops[want[k].stop]
    BY <2>1, <2>2 DEF StopsGo, OpenStatuses
  <2> QED
    BY <1>1, <2>1, <2>2, <2>3 DEF Effected
<1> QED
  BY <1>2, <1>3, <1>4

\* A step moves the job of one thread at most, to one that fits its request.
KeyJobFits(j) ==
  /\ want[j.key] # NoWant
  /\ j.at \in {"dispatch", "insert"} => want[j.key].op = "dispatch"
  /\ j.at = "resolve" => want[j.key].op = "resolve"
  /\ j.at = "save" => Effected(j.key)

LEMMA KeyJobStays ==
  ASSUME CollectInv, StopsGo, WantsStay, NEW j \in KeyJobs, KeyJobFits(j)
  PROVE  KeyJobFits(j)'
<1>1. j.key \in Keys
  BY DEF KeyJobs
<1>2. want'[j.key] = want[j.key] /\ (Effected(j.key) => Effected(j.key)')
  BY <1>1, EffectStays DEF WantsStay, KeyJobFits
<1> QED
  BY <1>2 DEF KeyJobFits

\* What a step does to the jobs, to the requests and their answers, to the stops, to the
\* reminders and to the rest.
JobTyped(j) == j = Free \/ j \in KeyJobs \/ j \in ReminderJobs \/ VisitJob(j)

JobsGo ==
  /\ DOMAIN job' = Threads
  /\ \A u \in Threads :
       \/ job'[u] = job[u]
       \/ JobTyped(job'[u]) /\ \A j \in KeyJobs : j = job'[u] => KeyJobFits(j)'

RequestsGo ==
  /\ WantsStay /\ DOMAIN want' = Keys
  /\ \A k \in Keys : want'[k] = NoWant \/ want'[k] \in Dispatches \/ want'[k] \in Resolutions'
  /\ \A k \in Keys : stored'[k] # "none" => want'[k] # NoWant /\ Effected(k)'

StopsFine ==
  /\ StopsGo
  /\ stops' \in Seq(StopType) /\ Len(stops') <= MaxStops
  /\ stopPaid' \in Seq(Nat) /\ Len(stopPaid') = Len(stops')
  /\ OneOpenStop' /\ PaidAsResolved'

RemindersFine ==
  /\ claims' \subseteq Credits \X Nat /\ sent' \in [Credits -> Seq(Nat)]
  /\ RemindersFit' /\ OneReminderADay'

PlainTypes ==
  /\ day \in Nat
  /\ overdue \in [Credits -> Nat]
  /\ calls \in [Keys -> 0..MaxCalls]
  /\ stored \in [Keys -> {"none", "done", "refused"}]
  /\ history \in [Credits -> Seq(NoteType)] /\ \A c \in Credits : Len(history[c]) <= MaxHistory
  /\ crashes \in 0..MaxCrashes

LEMMA PlainTyped ==
  ASSUME CollectInv
  PROVE  /\ PlainTypes
         /\ claims \subseteq Credits \X Nat /\ sent \in [Credits -> Seq(Nat)]
         /\ DOMAIN want = Keys /\ DOMAIN job = Threads
         /\ \A u \in Threads : JobTyped(job[u])
         /\ \A u \in Threads : job[u] \in KeyJobs => KeyJobFits(job[u])
  BY DEF CollectInv, StopsSafe, CollectTypeOK, PlainTypes, JobsTyped, JobTyped, RequestsFit,
         KeyJobFits

\* The requests in flight go on fitting what their keys ask.
LEMMA RequestsStay ==
  ASSUME CollectInv, StopsGo, JobsGo, RequestsGo
  PROVE  RequestsFit'
<1>1. ASSUME NEW u \in Threads, NEW j \in KeyJobs, j = job'[u]
      PROVE  KeyJobFits(j)'
  <2>1. CASE job'[u] = job[u]
    <3>1. KeyJobFits(j)
      BY <1>1, <2>1, PlainTyped
    <3> QED
      BY <3>1, KeyJobStays DEF RequestsGo
  <2>2. CASE job'[u] # job[u]
    BY <1>1, <2>2 DEF JobsGo
  <2> QED
    BY <2>1, <2>2
<1>2. ASSUME NEW u \in Threads, job'[u] \in KeyJobs
      PROVE  /\ want'[job'[u].key] # NoWant
             /\ job'[u].at \in {"dispatch", "insert"} => want'[job'[u].key].op = "dispatch"
             /\ job'[u].at = "resolve" => want'[job'[u].key].op = "resolve"
             /\ job'[u].at = "save" => Effected(job[u].key)'
  <2>1. PICK j \in KeyJobs : j = job'[u]
    BY <1>2
  <2>2. KeyJobFits(j)'
    BY <1>1, <2>1
  <2>3. /\ want'[j.key] # NoWant
        /\ j.at \in {"dispatch", "insert"} => want'[j.key].op = "dispatch"
        /\ j.at = "resolve" => want'[j.key].op = "resolve"
        /\ j.at = "save" => Effected(j.key)'
    BY <2>2 DEF KeyJobFits
  <2>4. Effected(j.key)' => Effected(job[u].key)'
    BY <2>1 DEF Effected
  <2> QED
    BY <2>1, <2>3, <2>4
<1> QED
  BY <1>2 DEF RequestsFit, RequestsGo

LEMMA Assemble ==
  ASSUME CollectInv, JobsGo, RequestsGo, StopsFine, RemindersFine, PlainTypes'
  PROVE  CollectInv'
<1>1. RequestsFit'
  BY RequestsStay DEF StopsFine
<1>2. JobsTyped'
  <2> SUFFICES ASSUME NEW u \in Threads PROVE JobTyped(job'[u])
    BY DEF JobsTyped, JobTyped
  <2> QED
    BY PlainTyped DEF JobsGo
<1>3. CollectTypeOK'
  BY DEF PlainTypes, StopsFine, RemindersFine, JobsGo, RequestsGo, CollectTypeOK
<1>4. AnswerIsTrue'
  BY DEF RequestsGo, AnswerIsTrue
<1> QED
  BY <1>1, <1>2, <1>3, <1>4 DEF CollectInv, StopsSafe, StopsFine, RemindersFine

LEMMA StopsSame ==
  ASSUME CollectInv, UNCHANGED <<stops, stopPaid>>
  PROVE  StopsFine /\ StopsGo
<1>1. StopsGo
  BY DEF StopsGo
<1>2. OneOpenStop' /\ PaidAsResolved'
  BY Kept DEF OneOpenStop, OpenStops, PaidAsResolved
<1> QED
  BY <1>1, <1>2, Kept DEF StopsFine, CollectTypeOK

LEMMA RemindersSame ==
  ASSUME CollectInv, UNCHANGED <<claims, sent>>,
         \A u \in Threads : job'[u] = job[u] \/ job'[u].at # "send"
  PROVE  RemindersFine
<1>1. RemindersFit /\ OneReminderADay
  BY Kept
<1>2. \A u \in Threads : job'[u].at = "send" => job'[u] = job[u]
  OBVIOUS
<1>3. RemindersFit'
  BY <1>1, <1>2 DEF RemindersFit
<1>4. OneReminderADay'
  BY <1>1 DEF OneReminderADay
<1> QED
  BY <1>3, <1>4, PlainTyped DEF RemindersFine

LEMMA RequestsSame ==
  ASSUME CollectInv, StopsGo, UNCHANGED <<want, stored>>
  PROVE  RequestsGo
<1>1. WantsStay
  BY DEF WantsStay
<1>2. ASSUME NEW k \in Keys
      PROVE  want'[k] = NoWant \/ want'[k] \in Dispatches \/ want'[k] \in Resolutions'
  <2>1. want[k] = NoWant \/ want[k] \in Dispatches \/ want[k] \in Resolutions
    BY Kept DEF RequestsFit
  <2>2. want[k] \in Resolutions => want[k] \in Resolutions'
    BY DEF Resolutions, StopsGo
  <2> QED
    BY <2>1, <2>2
<1>3. ASSUME NEW k \in Keys, stored'[k] # "none"
      PROVE  want'[k] # NoWant /\ Effected(k)'
  <2>1. want[k] # NoWant /\ Effected(k)
    BY <1>3, Kept DEF RequestsFit, AnswerIsTrue
  <2> QED
    BY <1>1, <2>1, EffectStays
<1> QED
  BY <1>1, <1>2, <1>3, PlainTyped DEF RequestsGo

LEMMA JobMoves ==
  ASSUME CollectInv, NEW t \in Threads, NEW j, job' = [job EXCEPT ![t] = j], JobTyped(j),
         \A i \in KeyJobs : i = j => KeyJobFits(i)'
  PROVE  JobsGo /\ \A u \in Threads : job'[u] = IF u = t THEN j ELSE job[u]
<1>1. DOMAIN job = Threads
  BY PlainTyped
<1>2. DOMAIN job' = Threads /\ \A u \in Threads : job'[u] = IF u = t THEN j ELSE job[u]
  BY <1>1
<1>3. ASSUME NEW u \in Threads
      PROVE  \/ job'[u] = job[u]
             \/ JobTyped(job'[u]) /\ \A i \in KeyJobs : i = job'[u] => KeyJobFits(i)'
  <2>1. CASE u = t
    BY <1>2, <2>1
  <2>2. CASE u # t
    BY <1>2, <2>2
  <2> QED
    BY <2>1, <2>2
<1> QED
  BY <1>2, <1>3 DEF JobsGo

\* What a thread is at tells which kind of job it has.
LEMMA JobKinds ==
  ASSUME CollectInv, NEW t \in Threads
  PROVE  /\ job[t].at \in {"look", "dispatch", "insert", "resolve", "save"} =>
              job[t] \in KeyJobs /\ job[t].key \in Keys /\ KeyJobFits(job[t])
         /\ job[t].at \in {"marking", "visited", "record"} => VisitJob(job[t])
         /\ job[t].at \in {"claim", "send"} => job[t] \in ReminderJobs
<1>1. JobTyped(job[t]) /\ (job[t] \in KeyJobs => KeyJobFits(job[t]))
  BY PlainTyped
<1>2. job[t] = Free => job[t].at = "idle"
  BY DEF Free
<1>3. job[t] \in KeyJobs =>
        job[t].at \in {"look", "dispatch", "insert", "resolve", "save"} /\ job[t].key \in Keys
  BY DEF KeyJobs
<1>4. job[t] \in ReminderJobs => job[t].at \in {"claim", "send"}
  BY DEF ReminderJobs
<1>5. VisitJob(job[t]) => job[t].at \in {"marking", "visited", "record"}
  BY DEF VisitJob
<1> QED
  BY <1>1, <1>2, <1>3, <1>4, <1>5 DEF JobTyped

\* A step that leaves the stops, the requests and the reminders as they are.
LEMMA QuietStep ==
  ASSUME CollectInv, UNCHANGED <<stops, stopPaid, want, stored, claims, sent>>, PlainTypes', JobsGo,
         \A u \in Threads : job'[u] = job[u] \/ job'[u].at # "send"
  PROVE  CollectInv' /\ StopsGo
<1>1. StopsFine /\ StopsGo
  BY StopsSame
<1>2. RequestsGo
  BY <1>1, RequestsSame
<1>3. RemindersFine
  BY RemindersSame
<1> QED
  BY <1>1, <1>2, <1>3, Assemble

\* Nobody's job changes.
LEMMA JobsSame ==
  ASSUME CollectInv, UNCHANGED job
  PROVE  JobsGo /\ \A u \in Threads : job'[u] = job[u]
  BY PlainTyped DEF JobsGo

\* A thread is free again.
LEMMA JobEnds ==
  ASSUME CollectInv, NEW t \in Threads, job' = [job EXCEPT ![t] = Free]
  PROVE  /\ JobsGo
         /\ \A u \in Threads : job'[u] = IF u = t THEN Free ELSE job[u]
         /\ \A u \in Threads : job'[u] = job[u] \/ job'[u].at # "send"
<1>1. JobTyped(Free) /\ Free \notin KeyJobs
  BY DEF JobTyped, Free, KeyJobs
<1>2. \A i \in KeyJobs : i = Free => KeyJobFits(i)'
  BY <1>1
<1>3. JobsGo /\ \A u \in Threads : job'[u] = IF u = t THEN Free ELSE job[u]
  BY <1>1, <1>2, JobMoves
<1> QED
  BY <1>3 DEF Free

\* A thread that handles a key goes to another step of it.
LEMMA KeyJobMoves ==
  ASSUME CollectInv, NEW t \in Threads, NEW a \in {"look", "dispatch", "insert", "resolve", "save"},
         NEW k \in Keys, job' = [job EXCEPT ![t] = [at |-> a, key |-> k]],
         KeyJobFits([at |-> a, key |-> k])'
  PROVE  JobsGo /\ \A u \in Threads : job'[u] = job[u] \/ job'[u].at # "send"
<1> DEFINE j == [at |-> a, key |-> k]
<1>1. j \in KeyJobs /\ j.at # "send"
  BY DEF KeyJobs
<1>2. JobTyped(j)
  BY <1>1 DEF JobTyped
<1>3. \A i \in KeyJobs : i = j => KeyJobFits(i)'
  <2>1. KeyJobFits(j)'
    OBVIOUS
  <2> SUFFICES ASSUME NEW i \in KeyJobs, i = j PROVE KeyJobFits(i)'
    OBVIOUS
  <2>2. i.key = k /\ i.at = a
    OBVIOUS
  <2>3. /\ want'[k] # NoWant
        /\ a \in {"dispatch", "insert"} => want'[k].op = "dispatch"
        /\ a = "resolve" => want'[k].op = "resolve"
        /\ a = "save" => Effected(k)'
    BY <2>1 DEF KeyJobFits, Effected
  <2> QED
    BY <2>2, <2>3 DEF KeyJobFits, Effected
<1> HIDE DEF j
<1>4. JobsGo /\ \A u \in Threads : job'[u] = IF u = t THEN j ELSE job[u]
  <2>1. job' = [job EXCEPT ![t] = j]
    BY DEF j
  <2> QED
    BY <1>2, <1>3, <2>1, JobMoves
<1> QED
  BY <1>1, <1>4

\* To go to the step a is to have the key at the step a.
LEMMA KeyJobAt ==
  ASSUME CollectInv, NEW t \in Threads, job[t] \in KeyJobs, NEW a, job' = [job EXCEPT ![t].at = a]
  PROVE  job' = [job EXCEPT ![t] = [at |-> a, key |-> job[t].key]]
<1>1. PICK old \in KeyJobs : old = job[t]
  OBVIOUS
<1>2. [old EXCEPT !.at = a] = [at |-> a, key |-> old.key]
  BY DEF KeyJobs
<1>3. job' = [job EXCEPT ![t] = [old EXCEPT !.at = a]]
  BY <1>1, PlainTyped
<1> QED
  BY <1>1, <1>2, <1>3

LEMMA AnswerStoredKeeps ==
  ASSUME CollectInv, NEW t \in Threads, AnswerStored(t)
  PROVE  CollectInv' /\ StopsGo
<1>1. PlainTypes'
  BY PlainTyped DEF AnswerStored, PlainTypes, street, requests, reminders
<1>2. JobsGo /\ \A u \in Threads : job'[u] = job[u] \/ job'[u].at # "send"
  BY JobEnds DEF AnswerStored
<1> QED
  BY <1>1, <1>2, QuietStep DEF AnswerStored, street, requests, reminders

LEMMA FirstTimeKeeps ==
  ASSUME CollectInv, NEW t \in Threads, FirstTime(t)
  PROVE  CollectInv' /\ StopsGo
<1>1. job[t] \in KeyJobs /\ job[t].key \in Keys /\ want[job[t].key] # NoWant
  BY JobKinds DEF FirstTime, KeyJobFits
<1>2. want[job[t].key].op \in {"dispatch", "resolve"}
  BY <1>1, Kept DEF RequestsFit, Dispatches, Resolutions
<1>3. PICK k \in Keys : k = job[t].key
  BY <1>1
<1>4. PICK a \in {"dispatch", "resolve"} : a = want[job[t].key].op
  BY <1>2
<1>5. job' = [job EXCEPT ![t].at = a]
  BY <1>4 DEF FirstTime
<1>6. job' = [job EXCEPT ![t] = [at |-> a, key |-> k]]
  BY <1>1, <1>3, <1>5, KeyJobAt
<1>7. want' = want
  BY DEF FirstTime, requests
<1>8. KeyJobFits([at |-> a, key |-> k])'
  BY <1>1, <1>3, <1>4, <1>7 DEF KeyJobFits
<1>9. PlainTypes'
  BY PlainTyped DEF FirstTime, PlainTypes, street, requests, reminders
<1>10. JobsGo /\ \A u \in Threads : job'[u] = job[u] \/ job'[u].at # "send"
  BY <1>6, <1>8, KeyJobMoves
<1> QED
  BY <1>9, <1>10, QuietStep DEF FirstTime, street, requests, reminders

LEMMA ReadCandidateKeeps ==
  ASSUME CollectInv, NEW t \in Threads, ReadCandidate(t)
  PROVE  CollectInv' /\ StopsGo
<1>1. /\ job[t] \in KeyJobs /\ job[t].key \in Keys
      /\ want[job[t].key] # NoWant /\ want[job[t].key].op = "dispatch"
  BY JobKinds DEF ReadCandidate, KeyJobFits
<1>2. UNCHANGED <<stops, stopPaid, want, stored, claims, sent>>
  BY DEF ReadCandidate, Refuse, street, reminders
<1>3. PlainTypes'
  BY <1>2, PlainTyped DEF ReadCandidate, PlainTypes
<1>4. CASE job' = [job EXCEPT ![t].at = "insert"]
  <2>1. PICK k \in Keys : k = job[t].key
    BY <1>1
  <2>2. job' = [job EXCEPT ![t] = [at |-> "insert", key |-> k]]
    BY <1>1, <1>4, <2>1, KeyJobAt
  <2>3. KeyJobFits([at |-> "insert", key |-> k])'
    BY <1>1, <1>2, <2>1 DEF KeyJobFits
  <2>4. JobsGo /\ \A u \in Threads : job'[u] = job[u] \/ job'[u].at # "send"
    BY <2>2, <2>3, KeyJobMoves
  <2> QED
    BY <1>2, <1>3, <2>4, QuietStep
<1>5. CASE job' = [job EXCEPT ![t] = Free]
  BY <1>2, <1>3, <1>5, JobEnds, QuietStep
<1> QED
  BY <1>4, <1>5 DEF ReadCandidate, Refuse

\* A thread takes up a job that is not of a key and sends nothing yet.
LEMMA OtherJobMoves ==
  ASSUME CollectInv, NEW t \in Threads, NEW j, job' = [job EXCEPT ![t] = j],
         JobTyped(j), j \notin KeyJobs, j.at # "send"
  PROVE  JobsGo /\ \A u \in Threads : job'[u] = job[u] \/ job'[u].at # "send"
<1>1. \A i \in KeyJobs : i = j => KeyJobFits(i)'
  OBVIOUS
<1>2. JobsGo /\ \A u \in Threads : job'[u] = IF u = t THEN j ELSE job[u]
  BY <1>1, JobMoves
<1> QED
  BY <1>2

LEMMA VisitJobs ==
  ASSUME NEW j, VisitJob(j)
  PROVE  JobTyped(j) /\ j \notin KeyJobs /\ j.at # "send"
  BY DEF VisitJob, JobTyped, KeyJobs

LEMMA ReadOverdueKeeps ==
  ASSUME CollectInv, NEW t \in Threads, NEW c \in Credits, ReadOverdue(t, c)
  PROVE  CollectInv' /\ StopsGo
<1>1. PICK j : j = [at |-> "marking", credit |-> c, level |-> overdue[c]]
  OBVIOUS
<1>2. VisitJob(j) /\ job' = [job EXCEPT ![t] = j]
  BY <1>1, PlainTyped DEF VisitJob, PlainTypes, ReadOverdue
<1>3. PlainTypes'
  BY PlainTyped DEF ReadOverdue, PlainTypes, street, requests, reminders
<1>4. JobsGo /\ \A u \in Threads : job'[u] = job[u] \/ job'[u].at # "send"
  BY <1>2, VisitJobs, OtherJobMoves
<1> QED
  BY <1>3, <1>4, QuietStep DEF ReadOverdue, street, requests, reminders

LEMMA ReadLastVisitKeeps ==
  ASSUME CollectInv, NEW t \in Threads, ReadLastVisit(t)
  PROVE  CollectInv' /\ StopsGo
<1>1. VisitJob(job[t])
  BY JobKinds DEF ReadLastVisit
<1>2. PICK j : j = [at |-> "visited", credit |-> job[t].credit, level |-> job[t].level,
                    last |-> LastVisit(job[t].credit)]
  OBVIOUS
<1>3. VisitJob(j)
  BY <1>1, <1>2 DEF VisitJob
<1>4. job' = [job EXCEPT ![t] = j]
  BY <1>2, PlainTyped DEF ReadLastVisit
<1>5. PlainTypes'
  BY PlainTyped DEF ReadLastVisit, PlainTypes, street, requests, reminders
<1>6. JobsGo /\ \A u \in Threads : job'[u] = job[u] \/ job'[u].at # "send"
  BY <1>3, <1>4, VisitJobs, OtherJobMoves
<1> QED
  BY <1>5, <1>6, QuietStep DEF ReadLastVisit, street, requests, reminders

LEMMA ReadLatestNoteKeeps ==
  ASSUME CollectInv, NEW t \in Threads, ReadLatestNote(t)
  PROVE  CollectInv' /\ StopsGo
<1>1. VisitJob(job[t])
  BY JobKinds DEF ReadLatestNote
<1>2. PICK j : j = [at |-> "record", credit |-> job[t].credit, level |-> job[t].level]
  OBVIOUS
<1>3. VisitJob(j)
  BY <1>1, <1>2 DEF VisitJob
<1>4. job' = [job EXCEPT ![t] = j] \/ job' = [job EXCEPT ![t] = Free]
  BY <1>2 DEF ReadLatestNote
<1>5. PlainTypes'
  BY PlainTyped DEF ReadLatestNote, PlainTypes, street, requests, reminders
<1>6. JobsGo /\ \A u \in Threads : job'[u] = job[u] \/ job'[u].at # "send"
  BY <1>3, <1>4, VisitJobs, OtherJobMoves, JobEnds
<1> QED
  BY <1>5, <1>6, QuietStep DEF ReadLatestNote, street, requests, reminders

\* A note or a visit is added to what is known of one credit.
LEMMA HistoryGrows ==
  ASSUME CollectInv, NEW c \in Credits, NEW h \in Seq(NoteType), Len(h) <= MaxHistory,
         history' = [history EXCEPT ![c] = h], UNCHANGED <<day, calls, stored, crashes>>,
         overdue' \in [Credits -> Nat]
  PROVE  PlainTypes'
<1>1. history \in [Credits -> Seq(NoteType)] /\ \A d \in Credits : Len(history[d]) <= MaxHistory
  BY PlainTyped DEF PlainTypes
<1>2. history' \in [Credits -> Seq(NoteType)] /\ \A d \in Credits : Len(history'[d]) <= MaxHistory
  <2>1. \A d \in Credits : history'[d] = IF d = c THEN h ELSE history[d]
    BY <1>1
  <2> QED
    BY <1>1, <2>1
<1> QED
  BY <1>2, PlainTyped DEF PlainTypes

LEMMA RecordVisitKeeps ==
  ASSUME CollectInv, NEW t \in Threads, RecordVisit(t)
  PROVE  CollectInv' /\ StopsGo
<1> DEFINE c == job[t].credit
<1>1. c \in Credits /\ job[t].level \in Nat
  BY JobKinds DEF RecordVisit, VisitJob
<1>2. Visit(job[t].level, "mark") \in NoteType
  BY <1>1 DEF Visit, NoteType
<1>3. PICK h : h = Append(history[c], Visit(job[t].level, "mark"))
  OBVIOUS
<1>4. history[c] \in Seq(NoteType) /\ Len(history[c]) < MaxHistory
  BY <1>1, PlainTyped DEF PlainTypes, RecordVisit
<1>5. h \in Seq(NoteType) /\ Len(h) <= MaxHistory
  BY <1>2, <1>3, <1>4
<1>6. history' = [history EXCEPT ![c] = h]
  BY <1>1, <1>3, PlainTyped DEF RecordVisit, PlainTypes
<1>7. PlainTypes'
  <2>1. overdue' \in [Credits -> Nat] /\ UNCHANGED <<day, calls, stored, crashes>>
    BY PlainTyped DEF RecordVisit, PlainTypes, requests
  <2> HIDE DEF c
  <2> QED
    BY <1>1, <1>5, <1>6, <2>1, HistoryGrows
<1>8. JobsGo /\ \A u \in Threads : job'[u] = job[u] \/ job'[u].at # "send"
  BY JobEnds DEF RecordVisit
<1> QED
  BY <1>7, <1>8, QuietStep DEF RecordVisit, street, requests, reminders

LEMMA AddObservationKeeps ==
  ASSUME CollectInv, NEW c \in Credits, AddObservation(c)
  PROVE  CollectInv' /\ StopsGo
<1>1. Note \in NoteType
  BY DEF Note, NoteType
<1>2. PICK h : h = Append(history[c], Note)
  OBVIOUS
<1>3. history[c] \in Seq(NoteType) /\ Len(history[c]) < MaxHistory
  BY PlainTyped DEF PlainTypes, AddObservation
<1>4. h \in Seq(NoteType) /\ Len(h) <= MaxHistory
  BY <1>1, <1>2, <1>3
<1>5. history' = [history EXCEPT ![c] = h]
  BY <1>2, PlainTyped DEF AddObservation, PlainTypes
<1>6. PlainTypes'
  <2>1. overdue' \in [Credits -> Nat] /\ UNCHANGED <<day, calls, stored, crashes>>
    BY PlainTyped DEF AddObservation, PlainTypes, requests
  <2> QED
    BY <1>4, <1>5, <2>1, HistoryGrows
<1>7. JobsGo /\ \A u \in Threads : job'[u] = job[u]
  BY JobsSame DEF AddObservation
<1> QED
  BY <1>6, <1>7, QuietStep DEF AddObservation, street, requests, reminders

LEMMA FindDueKeeps ==
  ASSUME CollectInv, NEW t \in Threads, NEW c \in Credits, FindDue(t, c)
  PROVE  CollectInv' /\ StopsGo
<1>1. PICK j : j = [at |-> "claim", credit |-> c, day |-> day]
  OBVIOUS
<1>2. job' = [job EXCEPT ![t] = j] /\ day \in Nat
  BY <1>1, PlainTyped DEF PlainTypes, FindDue
<1>3. j \in ReminderJobs /\ j \notin KeyJobs /\ j.at # "send"
  BY <1>1, <1>2 DEF ReminderJobs, KeyJobs
<1>4. JobTyped(j)
  BY <1>3 DEF JobTyped
<1>5. PlainTypes'
  BY PlainTyped DEF FindDue, PlainTypes, street, requests, reminders
<1>6. JobsGo /\ \A u \in Threads : job'[u] = job[u] \/ job'[u].at # "send"
  BY <1>2, <1>3, <1>4, OtherJobMoves
<1> QED
  BY <1>5, <1>6, QuietStep DEF FindDue, street, requests, reminders

LEMMA NextDayKeeps ==
  ASSUME CollectInv, NextDay
  PROVE  CollectInv' /\ StopsGo
<1>1. overdue' \in [Credits -> Nat]
  <2>1. PICK late \in SUBSET Credits :
          overdue' = [c \in Credits |->
            IF c \in late /\ overdue[c] < MaxOverdue THEN overdue[c] + 1 ELSE overdue[c]]
    BY DEF NextDay
  <2> QED
    BY <2>1, PlainTyped DEF PlainTypes
<1>2. PlainTypes'
  BY <1>1, PlainTyped DEF NextDay, PlainTypes, street, requests, reminders
<1>3. JobsGo /\ \A u \in Threads : job'[u] = job[u]
  BY JobsSame DEF NextDay
<1> QED
  BY <1>2, <1>3, QuietStep DEF NextDay, street, requests, reminders

LEMMA PaidElsewhereKeeps ==
  ASSUME CollectInv, NEW c \in Credits, PaidElsewhere(c)
  PROVE  CollectInv' /\ StopsGo
<1>1. overdue[c] - 1 \in Nat
  BY PlainTyped DEF PlainTypes, PaidElsewhere
<1>2. overdue' \in [Credits -> Nat]
  BY <1>1, PlainTyped DEF PaidElsewhere, PlainTypes
<1>3. PlainTypes'
  BY <1>2, PlainTyped DEF PaidElsewhere, PlainTypes, street, requests, reminders
<1>4. JobsGo /\ \A u \in Threads : job'[u] = job[u]
  BY JobsSame DEF PaidElsewhere
<1> QED
  BY <1>3, <1>4, QuietStep DEF PaidElsewhere, street, requests, reminders

LEMMA CrashKeeps ==
  ASSUME CollectInv, Crash
  PROVE  CollectInv' /\ StopsGo
<1>1. PlainTypes'
  BY PlainTyped DEF Crash, PlainTypes, street, requests, reminders
<1>2. Free \notin KeyJobs /\ Free.at # "send" /\ JobTyped(Free)
  BY DEF Free, KeyJobs, JobTyped
<1>3. DOMAIN job' = Threads /\ \A u \in Threads : job'[u] = Free
  BY DEF Crash
<1>4. JobsGo
  BY <1>2, <1>3 DEF JobsGo
<1> QED
  BY <1>1, <1>2, <1>3, <1>4, QuietStep DEF Crash, street, requests, reminders

LEMMA SendKeeps ==
  ASSUME CollectInv, NEW t \in Threads, NEW k \in Keys, Send(t, k)
  PROVE  CollectInv' /\ StopsGo
<1>1. StopsFine /\ StopsGo
  BY StopsSame DEF Send, street
<1>2. PICK w \in Dispatches \cup Resolutions :
        want[k] \in {NoWant, w} /\ want' = [want EXCEPT ![k] = w]
  BY DEF Send
<1>3. w # NoWant
  BY DEF Dispatches, Resolutions, NoWant
<1>4. DOMAIN want' = Keys /\ \A i \in Keys : want'[i] = IF i = k THEN w ELSE want[i]
  BY <1>2, PlainTyped
<1>5. RequestsGo
  <2>1. WantsStay
    BY <1>2, <1>4 DEF WantsStay
  <2>2. Resolutions' = Resolutions
    BY DEF Resolutions, Send, street
  <2>3. \A i \in Keys : want'[i] = NoWant \/ want'[i] \in Dispatches \/ want'[i] \in Resolutions'
    BY <1>2, <1>4, <2>2, Kept DEF RequestsFit
  <2>4. ASSUME NEW i \in Keys, stored'[i] # "none"
        PROVE  want'[i] # NoWant /\ Effected(i)'
    <3>1. want[i] # NoWant /\ Effected(i)
      BY <2>4, Kept DEF RequestsFit, AnswerIsTrue, Send
    <3> QED
      BY <1>1, <1>4, <2>1, <3>1, EffectStays DEF WantsStay
  <2> QED
    BY <1>4, <2>1, <2>3, <2>4 DEF RequestsGo
<1>6. KeyJobFits([at |-> "look", key |-> k])'
  BY <1>3, <1>4 DEF KeyJobFits
<1>7. JobsGo /\ \A u \in Threads : job'[u] = job[u] \/ job'[u].at # "send"
  BY <1>6, KeyJobMoves DEF Send
<1>8. RemindersFine
  BY <1>7, RemindersSame DEF Send, reminders
<1>9. PlainTypes'
  <2>1. calls[k] + 1 \in 0..MaxCalls
    BY PlainTyped DEF PlainTypes, Send
  <2>2. calls' \in [Keys -> 0..MaxCalls]
    BY <2>1, PlainTyped DEF PlainTypes, Send
  <2> QED
    BY <2>2, PlainTyped DEF PlainTypes, Send
<1> QED
  BY <1>1, <1>5, <1>7, <1>8, <1>9, Assemble

LEMMA SaveAnswerKeeps ==
  ASSUME CollectInv, NEW t \in Threads, SaveAnswer(t)
  PROVE  CollectInv' /\ StopsGo
<1>1. StopsFine /\ StopsGo
  BY StopsSame DEF SaveAnswer, street
<1>2. PICK k \in Keys : k = job[t].key
  BY JobKinds DEF SaveAnswer
<1>3. want[k] # NoWant /\ Effected(k)
  <2>1. KeyJobFits(job[t]) /\ job[t].at = "save"
    BY JobKinds DEF SaveAnswer
  <2> QED
    BY <1>2, <2>1 DEF KeyJobFits, Effected
<1>4. stored' = [stored EXCEPT ![k] = Saved(k, "done")]
  BY <1>2 DEF SaveAnswer
<1>5. Saved(k, "done") \in {"none", "done", "refused"}
  BY PlainTyped DEF PlainTypes, Saved
<1>6. /\ stored' \in [Keys -> {"none", "done", "refused"}]
      /\ \A i \in Keys : i # k => stored'[i] = stored[i]
  BY <1>4, <1>5, PlainTyped DEF PlainTypes
<1>7. RequestsGo
  <2>1. WantsStay /\ want' = want
    BY DEF WantsStay, SaveAnswer
  <2>2. Resolutions' = Resolutions
    BY DEF Resolutions, SaveAnswer, street
  <2>3. \A i \in Keys : want'[i] = NoWant \/ want'[i] \in Dispatches \/ want'[i] \in Resolutions'
    BY <2>1, <2>2, Kept DEF RequestsFit
  <2>4. ASSUME NEW i \in Keys, stored'[i] # "none"
        PROVE  want'[i] # NoWant /\ Effected(i)'
    <3>1. want[i] # NoWant /\ Effected(i)
      BY <1>3, <1>6, <2>4, Kept DEF RequestsFit, AnswerIsTrue
    <3> QED
      BY <1>1, <2>1, <3>1, EffectStays
  <2> QED
    BY <2>1, <2>3, <2>4, PlainTyped DEF RequestsGo
<1>8. JobsGo /\ \A u \in Threads : job'[u] = job[u] \/ job'[u].at # "send"
  BY JobEnds DEF SaveAnswer
<1>9. RemindersFine
  BY <1>8, RemindersSame DEF SaveAnswer, reminders
<1>10. PlainTypes'
  BY <1>6, PlainTyped DEF PlainTypes, SaveAnswer
<1> QED
  BY <1>1, <1>7, <1>8, <1>9, <1>10, Assemble

\* A step that leaves the stops and the requests as they are.
LEMMA ReminderStepKeeps ==
  ASSUME CollectInv, UNCHANGED <<stops, stopPaid, want, stored>>, PlainTypes', JobsGo, RemindersFine
  PROVE  CollectInv' /\ StopsGo
<1>1. StopsFine /\ StopsGo
  BY StopsSame
<1> QED
  BY <1>1, RequestsSame, Assemble

LEMMA ClaimReminderKeeps ==
  ASSUME CollectInv, NEW t \in Threads, ClaimReminder(t)
  PROVE  CollectInv' /\ StopsGo
<1>1. PICK j \in ReminderJobs : j = job[t]
  BY JobKinds DEF ClaimReminder
<1>2. PlainTypes'
  BY PlainTyped DEF ClaimReminder, PlainTypes, street, requests
<1>3. CASE job' = [job EXCEPT ![t] = Free] /\ UNCHANGED claims
  BY <1>2, <1>3, JobEnds, QuietStep DEF ClaimReminder, street, requests
<1>4. CASE /\ <<j.credit, j.day>> \notin claims
           /\ job' = [job EXCEPT ![t].at = "send"] /\ claims' = claims \cup {<<j.credit, j.day>>}
  <2>1. PICK n : n = [at |-> "send", credit |-> j.credit, day |-> j.day]
    OBVIOUS
  <2>2. n \in ReminderJobs /\ n \notin KeyJobs
    BY <2>1 DEF ReminderJobs, KeyJobs
  <2>3. n = [j EXCEPT !.at = "send"]
    BY <2>1 DEF ReminderJobs
  <2>4. job' = [job EXCEPT ![t] = n]
    BY <1>1, <1>4, <2>3, PlainTyped
  <2>5. JobTyped(n) /\ \A i \in KeyJobs : i = n => KeyJobFits(i)'
    BY <2>2 DEF JobTyped
  <2>6. JobsGo /\ \A u \in Threads : job'[u] = IF u = t THEN n ELSE job[u]
    BY <2>4, <2>5, JobMoves
  <2>7. j.credit \in Credits /\ j.day \in Nat
    BY DEF ReminderJobs
  <2>8. claims' \subseteq Credits \X Nat /\ sent' \in [Credits -> Seq(Nat)] /\ sent' = sent
    BY <1>4, <2>7, PlainTyped DEF ClaimReminder
  <2>9. RemindersFit
    BY Kept
  <2>10. \A i \in DOMAIN sent[j.credit] : sent[j.credit][i] # j.day
    BY <1>4, <2>7, <2>9 DEF RemindersFit
  <2>11. ASSUME NEW u \in Threads, job[u].at = "send"
         PROVE  ~ (job[u].credit = j.credit /\ job[u].day = j.day)
    BY <1>4, <2>9, <2>11 DEF RemindersFit
  <2>12. ASSUME NEW u \in Threads, job'[u].at = "send"
         PROVE  /\ <<job'[u].credit, job'[u].day>> \in claims'
                /\ \A i \in DOMAIN sent'[job'[u].credit] : sent'[job'[u].credit][i] # job'[u].day
                /\ \A v \in Threads : job'[v].at = "send" /\ job'[v].credit = job'[u].credit
                                        /\ job'[v].day = job'[u].day => v = u
    <3>1. CASE u = t
      <4>1. job'[u] = n
        BY <2>6, <3>1
      <4>2. <<n.credit, n.day>> \in claims'
        BY <1>4, <2>1
      <4>3. \A i \in DOMAIN sent'[n.credit] : sent'[n.credit][i] # n.day
        BY <2>1, <2>8, <2>10
      <4>4. \A v \in Threads : job'[v].at = "send" /\ job'[v].credit = n.credit
                                 /\ job'[v].day = n.day => v = u
        BY <2>1, <2>6, <2>11, <3>1
      <4> QED
        BY <4>1, <4>2, <4>3, <4>4
    <3>2. CASE u # t
      <4>1. job'[u] = job[u] /\ job[u].at = "send"
        BY <2>6, <2>12, <3>2
      <4>2. PICK m : m = job[u]
        OBVIOUS
      <4>3. <<m.credit, m.day>> \in claims'
        BY <1>4, <2>9, <4>1, <4>2 DEF RemindersFit
      <4>4. \A i \in DOMAIN sent'[m.credit] : sent'[m.credit][i] # m.day
        BY <2>8, <2>9, <4>1, <4>2 DEF RemindersFit
      <4>5. \A v \in Threads : job[v].at = "send" /\ job[v].credit = m.credit
                                 /\ job[v].day = m.day => v = u
        BY <2>9, <4>1, <4>2 DEF RemindersFit
      <4>6. \A v \in Threads : job'[v].at = "send" /\ job'[v].credit = m.credit
                                 /\ job'[v].day = m.day => v = u
        BY <2>1, <2>6, <2>11, <4>1, <4>2, <4>5
      <4> QED
        BY <4>1, <4>2, <4>3, <4>4, <4>6
    <3> QED
      BY <3>1, <3>2
  <2>13. \A c \in Credits : \A i \in DOMAIN sent'[c] : <<c, sent'[c][i]>> \in claims'
    BY <1>4, <2>8, <2>9 DEF RemindersFit
  <2>14. RemindersFit'
    BY <2>12, <2>13 DEF RemindersFit
  <2>15. OneReminderADay'
    BY <2>8, Kept DEF OneReminderADay
  <2>16. RemindersFine
    BY <2>8, <2>14, <2>15 DEF RemindersFine
  <2> QED
    BY <1>2, <2>6, <2>16, ReminderStepKeeps DEF ClaimReminder, street, requests
<1> QED
  BY <1>1, <1>3, <1>4 DEF ClaimReminder, TakeClaim

LEMMA SendReminderKeeps ==
  ASSUME CollectInv, NEW t \in Threads, SendReminder(t)
  PROVE  CollectInv' /\ StopsGo
<1>1. PICK j \in ReminderJobs : j = job[t]
  BY JobKinds DEF SendReminder
<1>2. PlainTypes'
  BY PlainTyped DEF SendReminder, PlainTypes, street, requests
<1>3. JobsGo /\ \A u \in Threads : job'[u] = IF u = t THEN Free ELSE job[u]
  BY JobEnds DEF SendReminder
<1>4. \A u \in Threads : job'[u] = job[u] \/ job'[u].at # "send"
  BY JobEnds DEF SendReminder
<1>5. CASE UNCHANGED sent
  BY <1>2, <1>3, <1>4, <1>5, QuietStep DEF SendReminder, street, requests
<1>6. CASE sent' = [sent EXCEPT ![j.credit] = Append(@, j.day)]
  <2>1. j.credit \in Credits /\ j.day \in Nat /\ claims' = claims
    BY DEF ReminderJobs, SendReminder
  <2>2. RemindersFit /\ OneReminderADay /\ sent \in [Credits -> Seq(Nat)]
    BY Kept, PlainTyped
  <2>3. PICK old \in Seq(Nat) : old = sent[j.credit]
    BY <2>1, <2>2
  <2>4. PICK new \in Seq(Nat) : new = Append(old, j.day)
    <3>1. Append(old, j.day) \in Seq(Nat)
      BY <2>1
    <3> QED
      BY <3>1
  <2>5. /\ DOMAIN new = 1..(Len(old) + 1) /\ DOMAIN old = 1..Len(old) /\ Len(old) \in Nat
        /\ new[Len(old) + 1] = j.day /\ \A i \in DOMAIN old : new[i] = old[i]
    BY <2>1, <2>4
  <2>6. sent' = [sent EXCEPT ![j.credit] = new]
    BY <1>6, <2>1, <2>2, <2>3, <2>4
  <2>7. /\ sent' \in [Credits -> Seq(Nat)]
        /\ \A c \in Credits : sent'[c] = IF c = j.credit THEN new ELSE sent[c]
    BY <2>1, <2>2, <2>6
  <2>8. <<j.credit, j.day>> \in claims /\ \A i \in DOMAIN old : old[i] # j.day
    BY <1>1, <2>2, <2>3 DEF RemindersFit, SendReminder
  <2>9. ASSUME NEW u \in Threads, u # t, job[u].at = "send"
        PROVE  ~ (job[u].credit = j.credit /\ job[u].day = j.day)
    BY <1>1, <2>2, <2>9 DEF RemindersFit, SendReminder
  <2>10. \A i \in DOMAIN new : new[i] = j.day \/ (i \in DOMAIN old /\ new[i] = old[i])
    BY <2>5
  <2>11. ASSUME NEW c \in Credits, NEW i \in DOMAIN sent'[c]
         PROVE  <<c, sent'[c][i]>> \in claims'
    <3>1. CASE c = j.credit
      BY <2>1, <2>2, <2>3, <2>7, <2>8, <2>10, <2>11, <3>1 DEF RemindersFit
    <3>2. CASE c # j.credit
      BY <2>1, <2>2, <2>7, <2>11, <3>2 DEF RemindersFit
    <3> QED
      BY <3>1, <3>2
  <2>12. ASSUME NEW u \in Threads, job'[u].at = "send"
         PROVE  /\ <<job'[u].credit, job'[u].day>> \in claims'
                /\ \A i \in DOMAIN sent'[job'[u].credit] : sent'[job'[u].credit][i] # job'[u].day
                /\ \A v \in Threads : job'[v].at = "send" /\ job'[v].credit = job'[u].credit
                                        /\ job'[v].day = job'[u].day => v = u
    <3>1. u # t /\ job'[u] = job[u] /\ job[u].at = "send"
      BY <1>3, <2>12 DEF Free
    <3>2. PICK m : m = job[u]
      OBVIOUS
    <3>3. <<m.credit, m.day>> \in claims /\ m.credit \in Credits
      BY <2>2, <3>1, <3>2, PlainTyped DEF RemindersFit
    <3>4. \A i \in DOMAIN sent[m.credit] : sent[m.credit][i] # m.day
      BY <2>2, <3>1, <3>2 DEF RemindersFit
    <3>5. \A i \in DOMAIN sent'[m.credit] : sent'[m.credit][i] # m.day
      <4>1. CASE m.credit = j.credit
        <5>1. m.day # j.day
          BY <2>9, <3>1, <3>2, <4>1
        <5>2. sent'[m.credit] = new /\ sent[m.credit] = old
          BY <2>3, <2>7, <3>3, <4>1
        <5>3. \A i \in DOMAIN old : old[i] # m.day
          BY <3>4, <5>2
        <5> QED
          BY <2>10, <5>1, <5>2, <5>3
      <4>2. CASE m.credit # j.credit
        BY <2>7, <3>3, <3>4, <4>2
      <4> QED
        BY <4>1, <4>2
    <3>6. \A v \in Threads : job[v].at = "send" /\ job[v].credit = m.credit
                               /\ job[v].day = m.day => v = u
      BY <2>2, <3>1, <3>2 DEF RemindersFit
    <3>7. \A v \in Threads : job'[v].at = "send" => job'[v] = job[v]
      BY <1>4
    <3> QED
      BY <2>1, <3>1, <3>2, <3>3, <3>5, <3>6, <3>7
  <2>13. RemindersFit'
    BY <2>11, <2>12 DEF RemindersFit
  <2>14. \A i, k \in DOMAIN new : new[i] = new[k] => i = k
    <3>1. \A i, k \in DOMAIN old : old[i] = old[k] => i = k
      BY <2>1, <2>2, <2>3 DEF OneReminderADay
    <3>2. \A i \in DOMAIN new : i \in DOMAIN old \/ i = Len(old) + 1
      BY <2>5
    <3>3. \A i \in DOMAIN old : new[i] = old[i] /\ new[i] # j.day
      BY <2>5, <2>8
    <3>4. new[Len(old) + 1] = j.day
      BY <2>5
    <3> QED
      BY <3>1, <3>2, <3>3, <3>4
  <2>15. OneReminderADay'
    <3> SUFFICES ASSUME NEW c \in Credits
                 PROVE  \A i, k \in DOMAIN sent'[c] : sent'[c][i] = sent'[c][k] => i = k
      BY DEF OneReminderADay
    <3> QED
      BY <2>2, <2>7, <2>14 DEF OneReminderADay
  <2>16. RemindersFine
    BY <2>1, <2>7, <2>13, <2>15, PlainTyped DEF RemindersFine
  <2> QED
    BY <1>2, <1>3, <2>16, ReminderStepKeeps DEF SendReminder, street, requests
<1> QED
  BY <1>1, <1>5, <1>6 DEF SendReminder

\* The payments a stop shows.
PaymentsOf(r) == IF r.status = "RESOLVED" /\ r.outcome = "PAID" THEN 1 ELSE 0

\* An open stop is given the row r, and the payments it shows.
LEMMA StopChanges ==
  ASSUME CollectInv, NEW s \in DOMAIN stops, stops[s].status \in OpenStatuses,
         NEW r \in StopType, r.credit = stops[s].credit, r.key = stops[s].key,
         stops' = [stops EXCEPT ![s] = r],
         stopPaid' = [stopPaid EXCEPT ![s] = PaymentsOf(r)]
  PROVE  StopsFine /\ StopsGo /\ stops'[s] = r
<1>1. /\ stops' \in Seq(StopType) /\ Len(stops') = Len(stops)
      /\ \A i \in DOMAIN stops : stops'[i] = IF i = s THEN r ELSE stops[i]
  BY Kept, ExceptSeq
<1>2. /\ stopPaid' \in Seq(Nat) /\ Len(stopPaid') = Len(stops)
      /\ \A i \in DOMAIN stops : stopPaid'[i] = IF i = s THEN PaymentsOf(r) ELSE stopPaid[i]
  <2>1. PaymentsOf(r) \in Nat
    BY DEF PaymentsOf
  <2>2. PICK m \in Nat : m = PaymentsOf(r)
    BY <2>1
  <2>3. stopPaid' = [stopPaid EXCEPT ![s] = m]
    BY <2>2
  <2>4. /\ stopPaid \in Seq(Nat) /\ s \in 1..Len(stopPaid)
        /\ Len(stopPaid) = Len(stops) /\ DOMAIN stops = 1..Len(stopPaid)
    BY Kept
  <2>5. /\ stopPaid' \in Seq(Nat) /\ Len(stopPaid') = Len(stopPaid)
        /\ \A i \in 1..Len(stopPaid) : stopPaid'[i] = IF i = s THEN m ELSE stopPaid[i]
    <3>1. PICK q \in Seq(Nat) : q = stopPaid
      BY <2>4
    <3>2. s \in 1..Len(q)
      BY <2>4, <3>1
    <3>3. /\ [q EXCEPT ![s] = m] \in Seq(Nat) /\ Len([q EXCEPT ![s] = m]) = Len(q)
          /\ \A i \in 1..Len(q) : [q EXCEPT ![s] = m][i] = IF i = s THEN m ELSE q[i]
      BY <3>2, ExceptSeq, SMTT(30)
    <3> QED
      BY <2>3, <3>1, <3>3
  <2> QED
    BY <2>2, <2>4, <2>5
<1>3. DOMAIN stops' = DOMAIN stops
  BY <1>1, Kept
<1>4. StopsGo
  BY <1>1, <1>3 DEF StopsGo
<1>5. OneOpenStop'
  <2>1. ASSUME NEW c \in Credits, NEW i \in OpenStops(c)'
        PROVE  i \in OpenStops(c)
    BY <1>1, <1>3, <2>1 DEF OpenStops
  <2> QED
    BY <2>1, Kept DEF OneOpenStop
<1>6. PaidAsResolved'
  BY <1>1, <1>2, <1>3, Kept DEF PaidAsResolved, PaymentsOf
<1>7. Len(stops') <= MaxStops
  BY <1>1, Kept DEF CollectTypeOK
<1> QED
  BY <1>1, <1>2, <1>4, <1>5, <1>6, <1>7 DEF StopsFine

\* A step of the coordinator or of the collector on a stop, outside the requests with a key.
LEMMA StreetStepKeeps ==
  ASSUME CollectInv, StopsFine, StopsGo, PlainTypes',
         UNCHANGED <<want, stored, claims, sent, job>>
  PROVE  CollectInv' /\ StopsGo
<1>1. JobsGo /\ \A u \in Threads : job'[u] = job[u]
  BY JobsSame
<1>2. RemindersFine
  BY <1>1, RemindersSame
<1>3. RequestsGo
  BY RequestsSame
<1> QED
  BY <1>1, <1>2, <1>3, Assemble

\* A stop that is open is not paid, and can be given another status.
LEMMA OpenStop ==
  ASSUME CollectInv, NEW s \in DOMAIN stops, stops[s].status \in OpenStatuses,
         NEW status \in {"SEEN", "CANCELLED"},
         stops' = [stops EXCEPT ![s].status = status], stopPaid' = stopPaid
  PROVE  StopsFine /\ StopsGo
<1>1. PICK old \in StopType : old = stops[s]
  BY Kept
<1>2. PICK r : r = [credit |-> old.credit, status |-> status, outcome |-> old.outcome, key |-> old.key]
  OBVIOUS
<1>3. r \in StopType /\ r.credit = old.credit /\ r.key = old.key /\ r.status = status
  BY <1>2 DEF StopType, OpenStatuses
<1>4. r = [old EXCEPT !.status = status]
  BY <1>2 DEF StopType
<1>5. stops' = [stops EXCEPT ![s] = r]
  BY <1>1, <1>4, Kept
<1>6. stopPaid[s] = 0
  BY Kept DEF PaidAsResolved, OpenStatuses
<1>7. stopPaid' = [stopPaid EXCEPT ![s] = 0]
  BY <1>6, Kept
<1>8. PaymentsOf(r) = 0
  BY <1>3 DEF PaymentsOf
<1>9. r.credit = stops[s].credit /\ r.key = stops[s].key
  BY <1>1, <1>3
<1>10. stopPaid' = [stopPaid EXCEPT ![s] = PaymentsOf(r)]
  BY <1>7, <1>8
<1> QED
  BY <1>3, <1>5, <1>9, <1>10, StopChanges

LEMMA MarkStopSeenKeeps ==
  ASSUME CollectInv, NEW s \in DOMAIN stops, MarkStopSeen(s)
  PROVE  CollectInv' /\ StopsGo
<1>1. StopsFine /\ StopsGo
  BY OpenStop DEF MarkStopSeen, OpenStatuses
<1>2. PlainTypes'
  BY PlainTyped DEF PlainTypes, MarkStopSeen, requests, reminders
<1> QED
  BY <1>1, <1>2, StreetStepKeeps DEF MarkStopSeen, requests, reminders

LEMMA CancelStopKeeps ==
  ASSUME CollectInv, NEW s \in DOMAIN stops, CancelStop(s)
  PROVE  CollectInv' /\ StopsGo
<1>1. StopsFine /\ StopsGo
  BY OpenStop DEF CancelStop, Resolvable
<1>2. PlainTypes'
  BY PlainTyped DEF PlainTypes, CancelStop, requests, reminders
<1> QED
  BY <1>1, <1>2, StreetStepKeeps DEF CancelStop, requests, reminders

\* A request with a key that is done with a stop, or refused.
LEMMA RequestEnds ==
  ASSUME CollectInv, NEW t \in Threads, StopsFine, StopsGo, PlainTypes',
         UNCHANGED <<want, stored, claims, sent>>, JobsGo,
         \A u \in Threads : job'[u] = job[u] \/ job'[u].at # "send"
  PROVE  CollectInv' /\ StopsGo
<1>1. RequestsGo
  BY RequestsSame
<1>2. RemindersFine
  BY RemindersSame
<1> QED
  BY <1>1, <1>2, Assemble

LEMMA HandledMoves ==
  ASSUME CollectInv, NEW t \in Threads, job[t] \in KeyJobs, Handled(t),
         NEW k \in Keys, k = job[t].key, want'[k] # NoWant, Effected(k)'
  PROVE  JobsGo /\ \A u \in Threads : job'[u] = job[u] \/ job'[u].at # "send"
<1>1. job' = [job EXCEPT ![t] = [at |-> "save", key |-> k]]
  BY PlainTyped DEF Handled
<1>2. KeyJobFits([at |-> "save", key |-> k])'
  BY DEF KeyJobFits, Effected
<1> QED
  BY <1>1, <1>2, KeyJobMoves

\* A row is added to the stops, of a credit that has none open.
LEMMA StopOpens ==
  ASSUME CollectInv, NEW r \in StopType, r.status = "ASSIGNED", OpenStops(r.credit) = {},
         Len(stops) < MaxStops, stops' = Append(stops, r), stopPaid' = Append(stopPaid, 0)
  PROVE  StopsFine /\ StopsGo /\ \E s \in DOMAIN stops' : stops'[s] = r
<1> DEFINE n == Len(stops) + 1
<1>1. n \in Nat /\ DOMAIN stops = 1..(n - 1) /\ DOMAIN stopPaid = 1..(n - 1)
  BY Kept
<1>2. /\ stops' \in Seq(StopType) /\ Len(stops') = n /\ DOMAIN stops' = 1..n
      /\ stops'[n] = r /\ \A i \in DOMAIN stops : stops'[i] = stops[i]
  BY Kept
<1>3. /\ stopPaid' \in Seq(Nat) /\ Len(stopPaid') = n
      /\ stopPaid'[n] = 0 /\ \A i \in DOMAIN stops : stopPaid'[i] = stopPaid[i]
  <2>1. stopPaid \in Seq(Nat) /\ Len(stopPaid) = n - 1 /\ n - 1 \in Nat /\ DOMAIN stops = 1..Len(stopPaid)
    BY Kept, <1>1
  <2>2. PICK q \in Seq(Nat) : q = stopPaid
    BY <2>1
  <2>3. /\ Append(q, 0) \in Seq(Nat) /\ Len(Append(q, 0)) = Len(q) + 1
        /\ Append(q, 0)[Len(q) + 1] = 0 /\ \A i \in 1..Len(q) : Append(q, 0)[i] = q[i]
    OBVIOUS
  <2>4. Len(q) + 1 = n
    BY <2>1, <2>2
  <2> HIDE DEF n
  <2> QED
    BY <2>1, <2>2, <2>3, <2>4
<1> HIDE DEF n
<1>4. DOMAIN stops \subseteq DOMAIN stops' /\ \A i \in DOMAIN stops' : i = n \/ i \in DOMAIN stops
  BY <1>1, <1>2
<1>5. StopsGo
  BY <1>2, <1>4 DEF StopsGo
<1>6. OneOpenStop'
  <2> SUFFICES ASSUME NEW c \in Credits, NEW i \in OpenStops(c)', NEW j \in OpenStops(c)'
               PROVE  i = j
    BY DEF OneOpenStop
  <2>1. i = n \/ i \in OpenStops(c)
    BY <1>2, <1>4 DEF OpenStops
  <2>2. j = n \/ j \in OpenStops(c)
    BY <1>2, <1>4 DEF OpenStops
  <2>3. (i = n \/ j = n) => c = r.credit
    BY <1>2 DEF OpenStops
  <2>4. i \in OpenStops(c) /\ j \in OpenStops(c) => i = j
    BY Kept DEF OneOpenStop
  <2> QED
    BY <2>1, <2>2, <2>3, <2>4
<1>7. PaidAsResolved'
  <2> SUFFICES ASSUME NEW i \in DOMAIN stops'
               PROVE  stopPaid'[i] = IF stops'[i].status = "RESOLVED" /\ stops'[i].outcome = "PAID"
                                     THEN 1 ELSE 0
    BY DEF PaidAsResolved
  <2>1. CASE i = n
    BY <1>2, <1>3, <2>1
  <2>2. CASE i \in DOMAIN stops
    BY <1>2, <1>3, <2>2, Kept DEF PaidAsResolved
  <2> QED
    BY <1>4, <2>1, <2>2
<1>8. Len(stops') <= MaxStops
  <2>1. Len(stops) \in Nat /\ MaxStops \in Nat
    BY Kept
  <2> QED
    BY <1>2, <2>1 DEF n
<1>9. n \in DOMAIN stops'
  BY <1>1, <1>2, <1>4 DEF n
<1> QED
  BY <1>2, <1>3, <1>5, <1>6, <1>7, <1>8, <1>9 DEF StopsFine

LEMMA InsertStopKeeps ==
  ASSUME CollectInv, NEW t \in Threads, InsertStop(t)
  PROVE  CollectInv' /\ StopsGo
<1>1. PICK k \in Keys : k = job[t].key
  BY JobKinds DEF InsertStop
<1>2. job[t] \in KeyJobs /\ want[k] # NoWant /\ want[k].op = "dispatch"
  BY <1>1, JobKinds DEF InsertStop, KeyJobFits
<1>3. want[k] \in Dispatches
  BY <1>2, Kept DEF RequestsFit, Resolutions
<1>4. PICK c \in Credits : c = want[k].credit
  BY <1>3 DEF Dispatches
<1>5. UNCHANGED <<want, stored, claims, sent>>
  BY DEF InsertStop, Refuse, reminders
<1>6. PlainTypes'
  BY <1>5, PlainTyped DEF InsertStop, PlainTypes
<1>7. CASE MayOpen(c)
  <2>1. PICK r : r = [credit |-> c, status |-> "ASSIGNED", outcome |-> "none", key |-> k]
    OBVIOUS
  <2>2. r \in StopType /\ r.status = "ASSIGNED" /\ r.credit = c /\ r.key = k
    BY <2>1 DEF StopType, OpenStatuses
  <2>3. /\ Len(stops) < MaxStops
        /\ stops' = Append(stops, r) /\ stopPaid' = Append(stopPaid, 0) /\ Handled(t)
    BY <1>1, <1>4, <1>7, <2>1 DEF InsertStop, Wanted
  <2>4. StopsFine /\ StopsGo /\ \E s \in DOMAIN stops' : stops'[s] = r
    BY <1>7, <2>2, <2>3, StopOpens DEF MayOpen
  <2>5. want'[k] # NoWant /\ Effected(k)'
    BY <1>2, <1>5, <2>2, <2>4 DEF Effected
  <2>6. JobsGo /\ \A u \in Threads : job'[u] = job[u] \/ job'[u].at # "send"
    BY <1>1, <1>2, <2>3, <2>5, HandledMoves
  <2> QED
    BY <1>5, <1>6, <2>4, <2>6, RequestEnds
<1>8. CASE ~ MayOpen(c)
  <2>1. job' = [job EXCEPT ![t] = Free] /\ UNCHANGED <<stops, stopPaid>>
    BY <1>1, <1>4, <1>8 DEF InsertStop, Wanted, Refuse, street
  <2> QED
    BY <1>5, <1>6, <2>1, JobEnds, QuietStep
<1> QED
  BY <1>7, <1>8

\* What a resolution adds to the history of the credit.
LEMMA VisitedTyped ==
  ASSUME CollectInv, NEW c \in Credits, NEW outcome, NEW left \in Nat, Visited(c, outcome, left),
         Len(history[c]) + 2 <= MaxHistory
  PROVE  /\ history' \in [Credits -> Seq(NoteType)]
         /\ \A d \in Credits : Len(history'[d]) <= MaxHistory
<1>1. history \in [Credits -> Seq(NoteType)] /\ \A d \in Credits : Len(history[d]) <= MaxHistory
  BY PlainTyped DEF PlainTypes
<1>2. PICK old \in Seq(NoteType) : old = history[c]
  BY <1>1
<1>3. <<Note>> \in Seq(NoteType) /\ Len(<<Note>>) = 1
  BY DEF Note, NoteType
<1>4. <<Visit(left, "stop")>> \in Seq(NoteType) /\ Len(<<Visit(left, "stop")>>) = 1
  BY DEF Visit, NoteType
<1>5. PICK note \in Seq(NoteType) : note = <<Note>>
  BY <1>3
<1>6. PICK end : end = IF outcome = "NOT_FOUND" THEN <<>> ELSE <<Visit(left, "stop")>>
  OBVIOUS
<1>7. end \in Seq(NoteType) /\ Len(end) \in {0, 1}
  <2>1. CASE outcome = "NOT_FOUND"
    <3>1. end = <<>>
      BY <1>6, <2>1
    <3> QED
      BY <3>1
  <2>2. CASE outcome # "NOT_FOUND"
    <3>1. end = <<Visit(left, "stop")>>
      BY <1>6, <2>2
    <3> QED
      BY <1>4, <3>1
  <2> QED
    BY <2>1, <2>2
<1>8. PICK mid \in Seq(NoteType) : mid = old \o note /\ Len(mid) = Len(old) + 1
  <2>1. old \o note \in Seq(NoteType) /\ Len(old \o note) = Len(old) + Len(note)
    BY ConcatProperties
  <2>2. Len(note) = 1
    BY <1>3, <1>5
  <2> QED
    BY <2>1, <2>2
<1>9. PICK h \in Seq(NoteType) : h = mid \o end /\ Len(h) = Len(mid) + Len(end)
  <2>1. mid \o end \in Seq(NoteType) /\ Len(mid \o end) = Len(mid) + Len(end)
    BY <1>7, ConcatProperties
  <2> QED
    BY <2>1
<1>10. Len(h) <= MaxHistory
  <2>1. Len(old) \in Nat /\ MaxHistory \in Nat /\ Len(old) + 2 <= MaxHistory
    BY <1>2
  <2>2. Len(h) = Len(old) + 1 + Len(end)
    BY <1>8, <1>9
  <2>3. Len(end) = 0 \/ Len(end) = 1
    BY <1>7
  <2>4. ASSUME NEW a \in Nat, NEW b \in Nat, a + 2 <= b, NEW e, e = 0 \/ e = 1
        PROVE  a + 1 + e <= b
    BY <2>4
  <2>5. Len(old) + 1 + Len(end) <= MaxHistory
    BY <2>1, <2>3, <2>4
  <2> QED
    BY <2>2, <2>5
<1>11. history' = [history EXCEPT ![c] = h]
  <2>1. h = old \o <<Note>> \o (IF outcome = "NOT_FOUND" THEN <<>> ELSE <<Visit(left, "stop")>>)
    BY <1>5, <1>6, <1>8, <1>9
  <2>2. history' = [history EXCEPT ![c] =
          old \o <<Note>> \o (IF outcome = "NOT_FOUND" THEN <<>> ELSE <<Visit(left, "stop")>>)]
    BY <1>1, <1>2 DEF Visited
  <2> QED
    BY <2>1, <2>2
<1> QED
  BY <1>1, <1>10, <1>11

LEMMA ResolveStopKeeps ==
  ASSUME CollectInv, NEW t \in Threads, ResolveStop(t)
  PROVE  CollectInv' /\ StopsGo
<1>1. PICK k \in Keys : k = job[t].key
  BY JobKinds DEF ResolveStop
<1>2. job[t] \in KeyJobs /\ want[k] # NoWant /\ want[k].op = "resolve"
  BY <1>1, JobKinds DEF ResolveStop, KeyJobFits
<1>3. want[k] \in Resolutions
  BY <1>2, Kept DEF RequestsFit, Dispatches
<1>4. PICK s \in DOMAIN stops : s = want[k].stop
  BY <1>3 DEF Resolutions
<1>5. PICK outcome \in Outcomes : outcome = want[k].outcome
  BY <1>3 DEF Resolutions
<1>6. PICK old \in StopType : old = stops[s]
  BY Kept
<1>7. old.credit \in Credits /\ old.key \in Keys
  BY DEF StopType
<1>8. UNCHANGED <<want, stored, claims, sent, day, calls, crashes>>
  BY DEF ResolveStop, Refuse, reminders
<1>9. CASE Resolvable(s)
  <2>1. /\ Len(history[old.credit]) + 2 <= MaxHistory
        /\ \E left \in {overdue[old.credit], overdue[old.credit] - 1} :
             /\ left >= 0
             /\ overdue' = [overdue EXCEPT ![old.credit] = left]
             /\ Visited(old.credit, outcome, left)
    BY <1>1, <1>4, <1>5, <1>6, <1>9 DEF ResolveStop, Wanted
  <2>2. /\ stopPaid' = IF outcome = "PAID" THEN [stopPaid EXCEPT ![s] = @ + 1] ELSE stopPaid
        /\ stops' = [stops EXCEPT ![s].status = "RESOLVED", ![s].outcome = outcome]
        /\ Handled(t)
    BY <1>1, <1>4, <1>5, <1>9 DEF ResolveStop, Wanted
  <2>3. PICK left \in {overdue[old.credit], overdue[old.credit] - 1} :
          /\ left >= 0
          /\ overdue' = [overdue EXCEPT ![old.credit] = left]
          /\ Visited(old.credit, outcome, left)
    BY <2>1
  <2>4. left \in Nat
    <3>1. overdue[old.credit] \in Nat
      BY <1>7, PlainTyped DEF PlainTypes
    <3> QED
      BY <2>3, <3>1
  <2>5. overdue' \in [Credits -> Nat]
    BY <2>3, <2>4, PlainTyped DEF PlainTypes
  <2>6. /\ history' \in [Credits -> Seq(NoteType)]
        /\ \A d \in Credits : Len(history'[d]) <= MaxHistory
    BY <1>7, <2>1, <2>3, <2>4, VisitedTyped
  <2>7. PlainTypes'
    BY <1>8, <2>5, <2>6, PlainTyped DEF PlainTypes
  <2>8. PICK r : r = [credit |-> old.credit, status |-> "RESOLVED", outcome |-> outcome,
                      key |-> old.key]
    OBVIOUS
  <2>9. /\ r \in StopType /\ r.credit = old.credit /\ r.key = old.key
        /\ r.status = "RESOLVED" /\ r.outcome = outcome
    BY <1>7, <2>8 DEF StopType
  <2>10. r = [[old EXCEPT !.status = "RESOLVED"] EXCEPT !.outcome = outcome]
    <3>1. PICK q : q = [old EXCEPT !.status = "RESOLVED"]
      OBVIOUS
    <3>2. q = [credit |-> old.credit, status |-> "RESOLVED", outcome |-> old.outcome,
               key |-> old.key]
      BY <3>1 DEF StopType
    <3>3. [q EXCEPT !.outcome = outcome] = r
      BY <2>8, <3>2
    <3> QED
      BY <3>1, <3>3
  <2>11. stops' = [stops EXCEPT ![s] = r]
    BY <1>6, <2>2, <2>10, Kept
  <2>12. stopPaid[s] = 0
    BY <1>9, Kept DEF PaidAsResolved, Resolvable, OpenStatuses
  <2>13. stopPaid' = [stopPaid EXCEPT ![s] = PaymentsOf(r)]
    <3>1. stopPaid' = [stopPaid EXCEPT ![s] = IF outcome = "PAID" THEN 1 ELSE 0]
      <4>1. CASE outcome = "PAID"
        BY <2>2, <2>12, <4>1
      <4>2. CASE outcome # "PAID"
        <5>1. stopPaid \in Seq(Nat) /\ s \in DOMAIN stopPaid
          BY Kept
        <5>2. stopPaid = [stopPaid EXCEPT ![s] = 0]
          BY <2>12, <5>1
        <5> QED
          BY <2>2, <4>2, <5>2
      <4> QED
        BY <4>1, <4>2
    <3>2. PaymentsOf(r) = IF outcome = "PAID" THEN 1 ELSE 0
      BY <2>9 DEF PaymentsOf
    <3> QED
      BY <3>1, <3>2
  <2>14. r.credit = stops[s].credit /\ r.key = stops[s].key
    BY <1>6, <2>9
  <2>15. StopsFine /\ StopsGo /\ stops'[s] = r
    BY <1>9, <2>9, <2>11, <2>13, <2>14, StopChanges DEF Resolvable
  <2>16. want'[k] # NoWant /\ Effected(k)'
    BY <1>2, <1>4, <1>5, <1>8, <2>9, <2>15 DEF Effected
  <2>17. JobsGo /\ \A u \in Threads : job'[u] = job[u] \/ job'[u].at # "send"
    BY <1>1, <1>2, <2>2, <2>16, HandledMoves
  <2> QED
    BY <1>8, <2>7, <2>15, <2>17, RequestEnds
<1>10. CASE ~ Resolvable(s)
  <2>1. /\ job' = [job EXCEPT ![t] = Free]
        /\ UNCHANGED <<stops, stopPaid, overdue, history>>
    BY <1>1, <1>4, <1>10 DEF ResolveStop, Wanted, Refuse, street
  <2>2. PlainTypes'
    BY <1>8, <2>1, PlainTyped DEF PlainTypes
  <2> QED
    BY <1>8, <2>1, <2>2, JobEnds, QuietStep
<1> QED
  BY <1>9, <1>10

LEMMA CollectStart ==
  ASSUME CollectInit
  PROVE  CollectInv
<1>1. Threshold \in Nat /\ {MaxStops, MaxCalls, MaxOverdue, MaxHistory, MaxDays, MaxCrashes} \subseteq Nat
  OBVIOUS
<1>2. stops = <<>> /\ stopPaid = <<>> /\ DOMAIN stops = {} /\ Len(stops) = 0
  BY DEF CollectInit
<1>3. CollectTypeOK
  <2>1. stops \in Seq(StopType) /\ stopPaid \in Seq(Nat) /\ Len(stopPaid) = Len(stops)
    BY <1>2
  <2>2. /\ history \in [Credits -> Seq(NoteType)]
        /\ \A c \in Credits : Len(history[c]) <= MaxHistory
    BY <1>1 DEF CollectInit
  <2>3. sent \in [Credits -> Seq(Nat)]
    BY DEF CollectInit
  <2> QED
    BY <1>1, <1>2, <2>1, <2>2, <2>3 DEF CollectInit, CollectTypeOK
<1>4. JobsTyped
  BY DEF CollectInit, JobsTyped
<1>5. RequestsFit
  BY DEF CollectInit, RequestsFit, KeyJobs, Free
<1>6. RemindersFit /\ OneReminderADay
  BY DEF CollectInit, RemindersFit, Free, OneReminderADay
<1>7. OneOpenStop /\ PaidAsResolved
  BY <1>2 DEF OneOpenStop, OpenStops, PaidAsResolved
<1>8. AnswerIsTrue
  BY DEF CollectInit, AnswerIsTrue
<1> QED
  BY <1>3, <1>4, <1>5, <1>6, <1>7, <1>8 DEF CollectInv, StopsSafe

LEMMA CollectStep ==
  ASSUME CollectInv, [CollectNext]_collectVars
  PROVE  CollectInv' /\ StopsGo
<1>1. ASSUME NEW t \in Threads, RequestStep(t)
      PROVE  CollectInv' /\ StopsGo
  BY <1>1, SendKeeps, AnswerStoredKeeps, FirstTimeKeeps, SaveAnswerKeeps, ReadCandidateKeeps,
     InsertStopKeeps, ResolveStopKeeps DEF RequestStep
<1>2. ASSUME NEW t \in Threads, VisitStep(t)
      PROVE  CollectInv' /\ StopsGo
  BY <1>2, ReadOverdueKeeps, ReadLastVisitKeeps, ReadLatestNoteKeeps, RecordVisitKeeps
     DEF VisitStep
<1>3. ASSUME NEW t \in Threads, ReminderStep(t)
      PROVE  CollectInv' /\ StopsGo
  BY <1>3, FindDueKeeps, ClaimReminderKeeps, SendReminderKeeps DEF ReminderStep
<1>4. CASE Street
  BY <1>4, MarkStopSeenKeeps, CancelStopKeeps, AddObservationKeeps, PaidElsewhereKeeps,
     NextDayKeeps, CrashKeeps DEF Street
<1>5. CASE UNCHANGED collectVars
  <2>1. UNCHANGED <<stops, stopPaid, want, stored, claims, sent, job>>
    BY <1>5 DEF collectVars, street, requests, reminders
  <2>2. PlainTypes'
    BY <1>5, PlainTyped DEF collectVars, street, requests, reminders, PlainTypes
  <2> QED
    BY <2>1, <2>2, StopsSame, StreetStepKeeps
<1> QED
  BY <1>1, <1>2, <1>3, <1>4, <1>5 DEF CollectNext

\* In every state of every behaviour no client has two open stops, a stop has the payment of
\* the outcome it shows, and a client is reminded at most once a day, however the requests,
\* the marks and the cron interleave and wherever the process dies
\* (collection-route.repository.ts, reminder-idempotency.repository.ts).
THEOREM StopsAlwaysSafe == CollectSpec => []StopsSafe
<1>1. CollectInv => StopsSafe
  BY DEF CollectInv
<1> QED
  BY <1>1, CollectStart, CollectStep, PTL DEF CollectSpec

\* An answer that the interceptor stored for a key is of a request that had its effect
\* (idempotency.interceptor.ts), although requests die between the effect and the store.
THEOREM AnswersAreTrue == CollectSpec => []AnswerIsTrue
<1>1. CollectInv => AnswerIsTrue
  BY DEF CollectInv
<1> QED
  BY <1>1, CollectStart, CollectStep, PTL DEF CollectSpec

\* A stop that was resolved or cancelled never changes again: the lock and assertOpen of
\* collection-route.repository.ts hold against every interleaving.
THEOREM ClosedStopsStay == CollectSpec => ClosedIsFinal
<1>1. CollectInv /\ [CollectNext]_collectVars
        => [\A s \in DOMAIN stops :
              stops[s].status \notin OpenStatuses => stops'[s] = stops[s]]_collectVars
  BY CollectStep DEF StopsGo
<1> QED
  BY <1>1, CollectStart, CollectStep, PTL DEF CollectSpec, ClosedIsFinal
=============================================================================
