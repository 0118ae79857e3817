---------------------------- MODULE PaymentPlans ----------------------------
(***************************************************************************)
(* The payment plans of a tenant (packages/application/src/credit/plan,    *)
(* apps/api/src/credit/plans): the templates an administrator edits and a  *)
(* coordinator offers.  A request reads the row in one transaction, decides *)
(* on what it read and writes in another, so two administrators interleave *)
(* between the two.  A partial unique index keeps at most one default.     *)
(***************************************************************************)
EXTENDS Integers, FiniteSets

CONSTANTS
  Plans,      \* the identifiers of payment plans, ordered as their names are
  Admins,     \* administrators with a request open at the same time
  Terms,      \* what a plan charges: instalments, frequency and interest
  NoPlan,     \* the value of an identifier that has no row
  Idle        \* the value of an administrator with no request in flight

VARIABLES
  plan,       \* plan[p]: the row of p, or NoPlan
  admin,      \* admin[w]: the request of w between its read and its write
  overlapped  \* whether two requests were ever in flight together (history)

planVars == <<plan, admin, overlapped>>

Row == [active : BOOLEAN, default : BOOLEAN, terms : Terms]

ASSUME PlansAssumption ==
  /\ IsFiniteSet(Plans) /\ Plans \subseteq Int
  /\ Terms \subseteq Nat
  /\ NoPlan \notin Plans \cup Row

\* The body of PATCH /payment-plans/:id: any of the columns, alone or together.
Patches ==
  [{"active"} -> BOOLEAN] \cup [{"default"} -> BOOLEAN]
    \cup [{"terms"} -> Terms] \cup [{"active", "default"} -> BOOLEAN]

Requests ==
  [kind : {"insert"}, plan : Plans, row : Row]
    \cup [kind : {"update"}, plan : Plans, patch : Patches,
          makeDefault : BOOLEAN]
    \cup [kind : {"setDefault", "delete"}, plan : Plans]

ASSUME IdleAssumption == Idle \notin Requests

PlansTypeOK ==
  /\ plan \in [Plans -> Row \cup {NoPlan}]
  /\ admin \in [Admins -> Requests \cup {Idle}]
  /\ overlapped \in BOOLEAN

\* The row with the columns of the patch in place of its own.
Patched(row, patch) ==
  [column \in DOMAIN row |-> IF column \in DOMAIN patch THEN patch[column] ELSE row[column]]

Stored(rows) == {p \in Plans : rows[p] # NoPlan}
Defaults(rows) == {p \in Stored(rows) : rows[p].default}
Active(rows) == {p \in Stored(rows) : rows[p].active}

-----------------------------------------------------------------------------
(* What a request decides on the rows it reads.                            *)

\* A plan that is the default must be one that can be offered.
DefaultIsActive(row) == row.default => row.active

\* Releasing the mark asks for another default; the index never lets the count
\* pass one, so it makes no difference when the count is read.
MayReleaseAlways(rows) == TRUE
MayRelease(rows) == Cardinality(Defaults(rows)) > 1

BecomesDefault(requested) == requested \/ Defaults(plan) = {}

Begin(w, request) ==
  /\ admin[w] = Idle
  /\ admin' = [admin EXCEPT ![w] = request]
  /\ overlapped' = (overlapped \/ \E v \in Admins : admin[v] # Idle)
  /\ UNCHANGED plan

\* CreatePaymentPlanHandler: the first plan becomes the default, and a default
\* is stored active.
Create(w, p, row) ==
  LET makeDefault == BecomesDefault(row.default) IN
    /\ plan[p] = NoPlan
    /\ \A v \in Admins : admin[v] # Idle => admin[v].plan # p
    /\ Begin(w, [kind |-> "insert", plan |-> p,
                 row |-> [row EXCEPT !.active = @ \/ makeDefault,
                                     !.default = makeDefault]])

Update(w, p, patch) ==
  /\ plan[p] # NoPlan
  /\ LET next == Patched(plan[p], patch)
         releases == plan[p].default /\ ~(next.default /\ next.active) IN
       /\ DefaultIsActive(next)
       /\ releases => MayRelease(plan)
       /\ Begin(w, [kind |-> "update", plan |-> p, patch |-> patch,
                    makeDefault |-> next.default /\ ~plan[p].default])

SetDefault(w, p) ==
  /\ plan[p] # NoPlan
  /\ plan[p].active
  /\ Begin(w, [kind |-> "setDefault", plan |-> p])

Delete(w, p) ==
  /\ plan[p] # NoPlan
  /\ plan[p].default => MayRelease(plan)
  /\ Begin(w, [kind |-> "delete", plan |-> p])

-----------------------------------------------------------------------------
(* The transaction that writes.                                            *)

ClearDefaults ==
  [p \in Plans |-> IF p \in Defaults(plan)
                   THEN [plan[p] EXCEPT !.default = FALSE] ELSE plan[p]]

\* payment_plan_one_default_idx.
OneDefaultUnindexed(rows) == TRUE
OneDefault(rows) == Cardinality(Defaults(rows)) <= 1

MarksDefault(r) ==
  CASE r.kind = "insert" -> r.row.default
    [] r.kind = "update" -> r.makeDefault
    [] r.kind = "setDefault" -> TRUE
    [] r.kind = "delete" -> FALSE

\* What a request changes of its row.
Patch(r) == IF r.kind = "update" THEN r.patch ELSE <<>>

\* The rows a request leaves; an update of a row that is gone finds nothing to
\* return, which throws and rolls the transaction back.
Written(r) ==
  LET base == IF MarksDefault(r) THEN ClearDefaults ELSE plan
      mark == IF MarksDefault(r) THEN [default |-> TRUE] ELSE <<>> IN
    CASE r.kind = "insert" -> [base EXCEPT ![r.plan] = r.row]
      [] r.kind = "delete" -> [base EXCEPT ![r.plan] = NoPlan]
      [] r.kind \in {"update", "setDefault"} ->
           IF plan[r.plan] = NoPlan THEN plan
           ELSE [base EXCEPT ![r.plan] = Patched(Patched(@, Patch(r)), mark)]

Write(w) ==
  /\ admin[w] # Idle
  /\ LET rows == Written(admin[w]) IN
       plan' = IF OneDefault(rows) THEN rows ELSE plan
  /\ admin' = [admin EXCEPT ![w] = Idle]
  /\ UNCHANGED overlapped

\* Two transactions that both clear and mark a default at once: the statement
\* of the second does not see the row the first has just marked, and the index
\* refuses it.
WriteRefused(w) ==
  /\ admin[w] # Idle
  /\ admin[w].kind # "delete"
  /\ \E v \in Admins \ {w} : admin[v] # Idle /\ admin[v].kind # "delete"
  /\ admin' = [admin EXCEPT ![w] = Idle]
  /\ UNCHANGED <<plan, overlapped>>

PlansInit ==
  /\ plan = [p \in Plans |-> NoPlan]
  /\ admin = [w \in Admins |-> Idle]
  /\ overlapped = FALSE

PlansNext ==
  \E w \in Admins :
    \/ \E p \in Plans, row \in Row : Create(w, p, row)
    \/ \E p \in Plans, patch \in Patches : Update(w, p, patch)
    \/ \E p \in Plans : SetDefault(w, p)
    \/ \E p \in Plans : Delete(w, p)
    \/ Write(w)
    \/ WriteRefused(w)

-----------------------------------------------------------------------------
\* At most one plan of the tenant is the default one, whatever two
\* administrators do at once: a patch that repeats isDefault on a row that has
\* lost the mark since it was read writes it without clearing the others.
AtMostOneDefault == Cardinality(Defaults(plan)) <= 1

\* With any plan at all there is a default and it can be offered; the rules of
\* the handlers give this as long as no two requests ran at the same time.
DefaultCanBeOffered ==
  Stored(plan) # {} => \E p \in Defaults(plan) : plan[p].active

DefaultWhenQuiet == ~overlapped => DefaultCanBeOffered

\* The plans of a tenant in every state: one default, and one that can be
\* offered unless two requests overlapped.
PlansSafe == PlansTypeOK /\ AtMostOneDefault /\ DefaultWhenQuiet

\* What a request decided on is still so.
StillLegal(r) ==
  /\ r.kind = "insert" =>
       /\ plan[r.plan] = NoPlan
       /\ DefaultIsActive(r.row)
       /\ r.row.default \/ Defaults(plan) # {}
  /\ r.kind # "insert" => plan[r.plan] # NoPlan
  /\ r.kind = "update" =>
       LET next == Patched(plan[r.plan], r.patch) IN
         /\ DefaultIsActive(next)
         /\ plan[r.plan].default /\ ~(next.default /\ next.active) => MayRelease(plan)
         /\ r.makeDefault = (next.default /\ ~plan[r.plan].default)
  /\ r.kind = "setDefault" => plan[r.plan].active
  /\ r.kind = "delete" => (plan[r.plan].default => MayRelease(plan))

\* Until two requests overlap there is one at a time, and no decision is stale.
QuietInv ==
  ~overlapped =>
    /\ \A v, w \in Admins : admin[v] # Idle /\ admin[w] # Idle => v = w
    /\ \A w \in Admins : admin[w] # Idle => StillLegal(admin[w])
=============================================================================
