--------------------------- MODULE SettlementPool ---------------------------
(***************************************************************************)
(* Receipts and settlement rows arrive in any order, with any amounts and  *)
(* identifiers, and complete settlement runs happen between the arrivals:  *)
(* the environment in which the matcher must keep the invariants I1-I7 its *)
(* source file states.  Runs do not overlap here; module Payments models   *)
(* what happens inside and between overlapping runs.                       *)
(***************************************************************************)
EXTENDS Integers, FiniteSets

CONSTANTS
  Claims,   \* receipts, positive numbers in the order of their ids
  Incoming, \* settlement rows, positive numbers in the order of their dates
  ReadAmounts,  \* amounts, in minor units
  E2EIds,   \* end-to-end ids
  NoE2E     \* the receipt or the row carries none

VARIABLES
  readAmount, claimE2E,     \* the receipts; readAmount 0 = not arrived
  rowAmount, rowE2E,        \* the settlement rows; rowAmount 0 = not ingested
  refunded,                 \* rows that are not a PIX income
  pairing                   \* pairing[p]: the row that confirmed p, or 0

poolVars == <<readAmount, claimE2E, rowAmount, rowE2E, refunded, pairing>>

Matcher == INSTANCE SettlementMatch WITH ReadAmount <- readAmount,
       ClaimE2E <- claimE2E, IncomingAmount <- rowAmount,
       IncomingE2E <- rowE2E, Refunded <- refunded

Pending == {p \in Claims : readAmount[p] # 0 /\ pairing[p] = Matcher!Unmatched}
FreeRows == {k \in Incoming : rowAmount[k] # 0 /\ \A p \in Claims : pairing[p] # k}

PoolInit ==
  /\ readAmount = [p \in Claims |-> 0]
  /\ claimE2E = [p \in Claims |-> NoE2E]
  /\ rowAmount = [k \in Incoming |-> 0]
  /\ rowE2E = [k \in Incoming |-> NoE2E]
  /\ refunded = {}
  /\ pairing = [p \in Claims |-> Matcher!Unmatched]

\* A receipt is registered as UNVERIFIED; payment_tenant_end_to_end_idx keeps
\* two payments from carrying the same end-to-end id.
ReceiptArrives(p, amount, e2e) ==
  /\ readAmount[p] = 0
  /\ e2e # NoE2E => \A q \in Claims : claimE2E[q] # e2e
  /\ readAmount' = [readAmount EXCEPT ![p] = amount]
  /\ claimE2E' = [claimE2E EXCEPT ![p] = e2e]
  /\ UNCHANGED <<rowAmount, rowE2E, refunded, pairing>>

\* A row of the report or of a webhook is ingested.
CreditArrives(k, amount, e2e, isRefund) ==
  /\ rowAmount[k] = 0
  /\ rowAmount' = [rowAmount EXCEPT ![k] = amount]
  /\ rowE2E' = [rowE2E EXCEPT ![k] = e2e]
  /\ refunded' = IF isRefund THEN refunded \cup {k} ELSE refunded
  /\ UNCHANGED <<readAmount, claimE2E, pairing>>

\* A run whose matches are all confirmed.
Settle ==
  LET found == Matcher!MatchCreditsToClaims(Pending, FreeRows) IN
  /\ Pending # {} /\ FreeRows # {}
  /\ pairing' = [p \in Claims |-> IF p \in Pending THEN found[p] ELSE pairing[p]]
  /\ UNCHANGED <<readAmount, claimE2E, rowAmount, rowE2E, refunded>>

PoolNext ==
  \/ \E p \in Claims, a \in ReadAmounts, e \in E2EIds \cup {NoE2E} : ReceiptArrives(p, a, e)
  \/ \E k \in Incoming, a \in ReadAmounts, e \in E2EIds \cup {NoE2E}, r \in BOOLEAN :
       CreditArrives(k, a, e, r)
  \/ Settle

PoolSpec == PoolInit /\ [][PoolNext]_poolVars
-----------------------------------------------------------------------------
Paired(p) == pairing[p] # Matcher!Unmatched

\* I1: over all runs, a settlement row confirms at most one receipt.
OneClaimPerCredit ==
  \A p, q \in Claims : Paired(p) /\ pairing[p] = pairing[q] => p = q

\* I2 and I3: a receipt is confirmed only by a real PIX income, with its exact
\* amount or its own end-to-end id.
EveryMatchJustified ==
  \A p \in Claims : Paired(p) =>
    /\ pairing[p] \notin refunded
    /\ Matcher!SameE2E(p, pairing[p]) \/ Matcher!SameAmount(p, pairing[p])

\* A run leaves no receipt waiting beside a free row that fits it (I5 promises
\* UNCONFIRMED only to a receipt without a row): whatever is still pending
\* after a run fits no row that is still free.
NothingLeftBehind ==
  [][Settle => \A p \in Pending', k \in FreeRows' :
                 Matcher!Eligible(k) => ~ Matcher!SameE2E(p, k) /\ ~ Matcher!SameAmount(p, k)]_poolVars

\* I7: a run pairs a receipt by amount, or leaves it, only if the rows with
\* its own end-to-end id went to it or to nobody else by amount: a row is
\* never spent by amount while a pending receipt carries its identifier.
E2EHasPriority ==
  [][Settle => \A p, q \in Pending, k \in FreeRows :
       (pairing'[q] = k /\ Matcher!SameE2E(p, k) /\ ~ Matcher!SameE2E(q, k))
         => /\ pairing'[p] \in Incoming \ {k}
            /\ Matcher!SameE2E(p, pairing'[p])]_poolVars

-----------------------------------------------------------------------------
(* Why they hold: a pair is of a receipt and a row that both arrived, and   *)
(* what arrived never changes.                                              *)

PoolTerms ==
  /\ Claims \subseteq Nat \ {0} /\ IsFiniteSet(Claims)
  /\ Incoming \subseteq Nat \ {0}

PoolTypeOK ==
  /\ readAmount \in [Claims -> ReadAmounts \cup {0}]
  /\ rowAmount \in [Incoming -> ReadAmounts \cup {0}]
  /\ claimE2E \in [Claims -> E2EIds \cup {NoE2E}]
  /\ rowE2E \in [Incoming -> E2EIds \cup {NoE2E}]
  /\ refunded \subseteq Incoming
  /\ pairing \in [Claims -> Incoming \cup {Matcher!Unmatched}]

PairsArrived ==
  \A p \in Claims : Paired(p) => readAmount[p] # 0 /\ rowAmount[pairing[p]] # 0

PoolInv == PoolTypeOK /\ PairsArrived /\ OneClaimPerCredit /\ EveryMatchJustified
-----------------------------------------------------------------------------
\* What the match may do: one receipt for a row, and never without a reason.
MatchesJustified == OneClaimPerCredit /\ EveryMatchJustified /\ PoolTerms /\ PoolInv

\* What the match must do: nothing that fits is left, and an identifier goes first.
MatchesComplete == NothingLeftBehind /\ E2EHasPriority
=============================================================================
