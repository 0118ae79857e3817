-------------------------- MODULE SettlementMatch --------------------------
(***************************************************************************)
(* The pairing of pending receipts (claims) with the real credits of the   *)
(* settlement source (packages/domain/src/credit/payment/settlement-       *)
(* match.ts).  Claims and credits are positive numbers standing in the     *)
(* order the code sorts them: claims by id, credits by (settlementDate,    *)
(* sourceId).  A pairing is a function from claims to credits, 0 for none. *)
(***************************************************************************)
EXTENDS Integers, FiniteSetsExt

CONSTANTS
  Claims,          \* receipts that may be pending, a set of positive numbers
  Incoming,        \* rows of the settlement source, a set of positive numbers
  ReadAmount,      \* ReadAmount[p]: amount read from receipt p
  ClaimE2E,        \* ClaimE2E[p]: its end-to-end id, or NoE2E
  IncomingAmount,  \* IncomingAmount[k]: gross amount of row k
  IncomingE2E,     \* IncomingE2E[k]: its end-to-end id, or NoE2E
  Refunded,        \* rows that are not a PIX income (refund, chargeback, net <= 0)
  NoE2E

Unmatched == 0

\* A refund slips into the pool.
EligibleAlways(k) == TRUE

\* isEligiblePixCredit (I3).
Eligible(k) == k \notin Refunded

SameE2E(p, k) == ClaimE2E[p] # NoE2E /\ ClaimE2E[p] = IncomingE2E[k]

SameAmount(p, k) == ReadAmount[p] = IncomingAmount[k]

ByE2E(claims, pool) == {m \in claims \X pool : SameE2E(m[1], m[2])}
ByAmount(claims, pool) == {m \in claims \X pool : SameAmount(m[1], m[2])}

\* The second pass forgets what the first one paired.
PassOverAll(start, claims, pool, fits) ==
  [p \in claims |->
     LET fitting == {k \in pool : <<p, k>> \in fits}
     IN  IF start[p] # Unmatched \/ fitting = {} THEN start[p] ELSE Min(fitting)]

\* One loop of the matcher: claims up to p, in order, each take the first free
\* credit of the pool that fits, unless they are paired already.
Pass(start, claims, pool, fits) ==
  LET upTo[p \in {0} \cup claims] ==
        IF p = 0 THEN start
        ELSE LET before  == upTo[Max({0} \cup {q \in claims : q < p})]
                 fitting == {k \in pool \ {before[q] : q \in claims} : <<p, k>> \in fits}
             IN  IF before[p] # Unmatched \/ fitting = {} THEN before
                 ELSE [before EXCEPT ![p] = Min(fitting)]
  IN  upTo[Max({0} \cup claims)]

\* The amount pass runs first.
MatchAmountFirst(claims, credits) ==
  LET pool == {k \in credits : Eligible(k)}
      none == [p \in claims |-> Unmatched]
  IN  Pass(Pass(none, claims, pool, ByAmount(claims, pool)),
          claims, pool, ByE2E(claims, pool))

\* Only the unambiguous pass runs.
MatchByE2EOnly(claims, credits) ==
  LET pool == {k \in credits : Eligible(k)}
  IN  Pass([p \in claims |-> Unmatched], claims, pool,
           ByE2E(claims, pool))

\* matchCreditsToClaims: by end-to-end id first, then by exact amount among
\* the claims and credits still free.
MatchCreditsToClaims(claims, credits) ==
  LET pool == {k \in credits : Eligible(k)}
      none == [p \in claims |-> Unmatched]
  IN  Pass(Pass(none, claims, pool, ByE2E(claims, pool)),
          claims, pool, ByAmount(claims, pool))
=============================================================================
