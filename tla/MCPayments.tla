---------------------------- MODULE MCPayments ----------------------------
(***************************************************************************)
(* Small worlds for module Payments: one credit of two instalments, a few  *)
(* payments that can all land on it, and settlement rows that fit them.    *)
(* Each definition is an attribute of payments 1..5 or of rows 1..2.       *)
(***************************************************************************)
EXTENDS Payments

MCDue == [c \in Credits |-> <<3, 2>>]
MCPrincipal == [c \in Credits |-> 3]

\* 1 and 2 are receipts, 3 a charge, 4 and 5 the same cash request sent twice.
MCCreditsOf == [p \in Payments |-> Credits]
MCReadAmount == [p \in Payments |-> <<3, 2, 2, 1, 1>>[p]]
MCBankAmount == [p \in Payments |-> <<3, 1, 0, 0, 0>>[p]]
MCE2E == [p \in Payments |-> IF p = 1 THEN "e1" ELSE NoE2E]
MCSameE2E == [p \in Payments |-> IF p \in Receipts THEN "e1" ELSE NoE2E]
MCKey == [p \in Payments |-> IF p \in CashRequests THEN "k1" ELSE NoKey]
MCNoKeys == [p \in Payments |-> NoKey]

\* Row 1 carries the end-to-end id of receipt 1 with another amount.
MCIncomingAmount == [k \in Incoming |-> 2]
MCIncomingE2E == [k \in Incoming |-> IF k = 1 THEN "e1" ELSE NoE2E]
=============================================================================
