------------------------------ MODULE MCField -------------------------------
(***************************************************************************)
(* What a collector does in the street, on five small fields that share    *)
(* nothing; a behaviour is one of them.                                    *)
(*                                                                         *)
(* FieldMoney: deposit orders only, two of them that take six steps; or an *)
(* order and an expense that two reviewers decide on, without the bank.    *)
(* Collections: requests for stops with their keys, retries and a restart; *)
(* visits marked while a stop of the same credit is resolved; reminders of *)
(* two days.                                                               *)
(***************************************************************************)
EXTENDS FieldMoney, Collections, TLC

VARIABLE field

all == <<vars, collectVars, field>>

MoneyFields == {"orders", "expenses"}
StreetFields == {"stops", "visits", "reminders"}

MCInit ==
  /\ Init /\ CollectInit
  /\ field \in MoneyFields \cup StreetFields
  /\ field \notin StreetFields => overdue = [c \in Credits |-> 0]

MoneyNext ==
  /\ BoxStep \/ OrderStep \/ ExpenseStep
  /\ field = "orders" =>
       expense' = expense /\ SumOver([o \in Orders |-> Len(log'[o])], Orders) <= 6
  /\ field = "expenses" => credit' = credit
  /\ field = "expenses" => Cardinality({o \in Orders : order'[o] # NoOrder}) <= 1

StreetNext ==
  CASE field = "stops" ->
         \/ \E t \in Threads : RequestStep(t)
         \/ Street /\ history' = history /\ overdue' = overdue
    [] field = "visits" ->
         \/ \E t \in Threads : VisitStep(t) \/ RequestStep(t)
         \/ Street /\ crashes' = crashes
    [] field = "reminders" ->
         \/ \E t \in Threads : ReminderStep(t)
         \/ Street /\ history' = history

MCNext ==
  /\ UNCHANGED field
  /\ \/ field \in MoneyFields /\ MoneyNext /\ UNCHANGED collectVars
     \/ field \in StreetFields /\ StreetNext /\ UNCHANGED vars

MCSpec == MCInit /\ [][MCNext]_all

\* No field uses both an order and a thread, or both a reviewer and a key: the
\* .cfg gives them the same values, so that there is less to permute.
Symmetry == Permutations(Orders \cup Threads) \cup Permutations(Reviewers \cup Keys)
=============================================================================
