-------------------------- MODULE OriginationProofs --------------------------
(***************************************************************************)
(* Proofs, for any number of plans, coordinators, administrators and       *)
(* messages, about what happens between a reviewed application and its     *)
(* credit: the plans a tenant edits while it offers them, the limit of the *)
(* borrower, and that a credit is the one its client accepted.             *)
(*                                                                         *)
(* Three arguments, one per part of the invariant.  An edit of the plans   *)
(* writes what it decided on rows it read earlier, so QuietInv says that   *)
(* the decision is still legal until two edits overlap.  A grant checks    *)
(* the limit again under the lock of the borrower's row, and LockInv says  *)
(* that what it checked stays so while it holds it.  What the client       *)
(* accepted is about an offer the row may no longer hold: CalmInv says     *)
(* what each request knows while none overtakes another.                   *)
(***************************************************************************)
EXTENDS Origination, ArithmeticProofs, SequenceTheorems

-----------------------------------------------------------------------------
(* The rows of the plans, and what a request writes of them.                *)

Columns == {"active", "default", "terms"}

LEMMA RowFields ==
  ASSUME NEW row \in Row
  PROVE  /\ DOMAIN row = Columns
         /\ row["active"] \in BOOLEAN /\ row["default"] \in BOOLEAN /\ row["terms"] \in Terms
         /\ row["active"] = row.active /\ row["default"] = row.default
  BY DEF Row, Columns

LEMMA PatchedRow ==
  ASSUME NEW row \in Row, NEW patch \in Patches \cup {<<>>, [default |-> TRUE]}
  PROVE  /\ Patched(row, patch) \in Row
         /\ Patched(row, patch).active =
              IF "active" \in DOMAIN patch THEN patch["active"] ELSE row.active
         /\ Patched(row, patch).default =
              IF "default" \in DOMAIN patch THEN patch["default"] ELSE row.default
<1>. DEFINE P == Patched(row, patch)
<1>1. "active" \in DOMAIN patch => patch["active"] \in BOOLEAN
  BY DEF Patches
<1>2. "default" \in DOMAIN patch => patch["default"] \in BOOLEAN
  <2>1. CASE patch \in Patches
    BY <2>1 DEF Patches
  <2>2. CASE patch = <<>>
    BY <2>2
  <2>3. CASE patch = [default |-> TRUE]
    BY <2>3
  <2>4. QED
    BY <2>1, <2>2, <2>3
<1>3. "terms" \in DOMAIN patch => patch["terms"] \in Terms
  BY DEF Patches
<1>4. /\ P["active"] = IF "active" \in DOMAIN patch THEN patch["active"] ELSE row.active
      /\ P["default"] = IF "default" \in DOMAIN patch THEN patch["default"] ELSE row.default
      /\ P["terms"] = IF "terms" \in DOMAIN patch THEN patch["terms"] ELSE row.terms
  BY DEF Row, Patched
<1>5. P = [active |-> P["active"], default |-> P["default"], terms |-> P["terms"]]
  BY DEF Row, Patched
<1>6. QED
  BY <1>1, <1>2, <1>3, <1>4, <1>5 DEF Row

\* With one default at most, no request may release it.
LEMMA ManyDefaults ==
  ASSUME AtMostOneDefault
  PROVE  ~ MayRelease(plan)
<1>1. Defaults(plan) \subseteq Plans
  BY DEF Defaults, Stored
<1>2. IsFiniteSet(Defaults(plan))
  BY <1>1, FS_Subset, PlansAssumption
<1>3. Cardinality(Defaults(plan)) \in Nat
  BY <1>2, FS_CardinalityType
<1>4. QED
  BY <1>3 DEF AtMostOneDefault, MayRelease

LEMMA ClearedRow ==
  ASSUME plan \in [Plans -> Row \cup {NoPlan}]
  PROVE  /\ ClearDefaults \in [Plans -> Row \cup {NoPlan}]
         /\ \A p \in Plans : plan[p] = NoPlan => ClearDefaults[p] = NoPlan
         /\ \A p \in Plans : plan[p] # NoPlan =>
              /\ ClearDefaults[p] \in Row /\ ClearDefaults[p].active = plan[p].active
              /\ ClearDefaults[p].default = FALSE
<1>1. SUFFICES ASSUME NEW p \in Plans
               PROVE  /\ plan[p] = NoPlan => ClearDefaults[p] = NoPlan
                      /\ plan[p] # NoPlan =>
                           /\ ClearDefaults[p] \in Row
                           /\ ClearDefaults[p].active = plan[p].active
                           /\ ClearDefaults[p].default = FALSE
  <2>1. ClearDefaults = [p \in Plans |-> ClearDefaults[p]]
    BY DEF ClearDefaults
  <2>2. QED
    BY <1>1, <2>1
<1>2. ClearDefaults[p] = IF p \in Defaults(plan)
                         THEN [plan[p] EXCEPT !.default = FALSE] ELSE plan[p]
  BY DEF ClearDefaults
<1>3. p \in Defaults(plan) <=> plan[p] # NoPlan /\ plan[p].default
  BY DEF Defaults, Stored
<1>4. plan[p] # NoPlan => plan[p] \in Row
  OBVIOUS
<1>5. QED
  BY <1>2, <1>3, <1>4, PlansAssumption DEF Row

Rows == [Plans -> Row \cup {NoPlan}]

\* What each request leaves of the plans.
LEMMA WrittenInsert ==
  ASSUME plan \in Rows, NEW r \in Requests, r.kind = "insert"
  PROVE  /\ Written(r) \in Rows
         /\ r.plan \in Plans /\ r.row \in Row
         /\ Written(r)[r.plan] = r.row
         /\ \A q \in Plans \ {r.plan} :
              Written(r)[q] = IF r.row.default THEN ClearDefaults[q] ELSE plan[q]
<1>1. r.plan \in Plans /\ r.row \in Row
  BY DEF Requests
<1>2. MarksDefault(r) <=> r.row.default
  BY DEF MarksDefault
<1>. DEFINE base == IF MarksDefault(r) THEN ClearDefaults ELSE plan
<1>3. base \in Rows
  BY ClearedRow DEF Rows
<1>4. Written(r) = [base EXCEPT ![r.plan] = r.row]
  BY DEF Written
<1>5. \A q \in Plans : base[q] = IF r.row.default THEN ClearDefaults[q] ELSE plan[q]
  BY <1>2
<1>. HIDE DEF base
<1>6. QED
  BY <1>1, <1>3, <1>4, <1>5 DEF Rows

LEMMA WrittenDelete ==
  ASSUME plan \in Rows, NEW r \in Requests, r.kind = "delete"
  PROVE  /\ Written(r) \in Rows
         /\ r.plan \in Plans
         /\ Written(r)[r.plan] = NoPlan
         /\ \A q \in Plans \ {r.plan} : Written(r)[q] = plan[q]
<1>1. r.plan \in Plans
  BY DEF Requests
<1>2. Written(r) = [plan EXCEPT ![r.plan] = NoPlan]
  BY DEF Written, MarksDefault
<1>3. QED
  BY <1>1, <1>2 DEF Rows

LEMMA WrittenUpdate ==
  ASSUME plan \in Rows, NEW r \in Requests, r.kind = "update", plan[r.plan] # NoPlan
  PROVE  LET next == Patched(plan[r.plan], r.patch) IN
         /\ Written(r) \in Rows
         /\ r.plan \in Plans /\ r.makeDefault \in BOOLEAN
         /\ plan[r.plan] \in Row /\ next \in Row
         /\ Written(r)[r.plan] \in Row
         /\ Written(r)[r.plan].active = next.active
         /\ Written(r)[r.plan].default = (r.makeDefault \/ next.default)
         /\ \A q \in Plans \ {r.plan} :
              Written(r)[q] = IF r.makeDefault THEN ClearDefaults[q] ELSE plan[q]
<1>1. /\ r.plan \in Plans /\ r.makeDefault \in BOOLEAN /\ r.patch \in Patches
      /\ plan[r.plan] \in Row
  BY DEF Requests, Rows
<1>. DEFINE base == IF r.makeDefault THEN ClearDefaults ELSE plan
            mark == IF r.makeDefault THEN [default |-> TRUE] ELSE <<>>
            next == Patched(plan[r.plan], r.patch)
            half == Patched(base[r.plan], r.patch)
            row == Patched(half, mark)
<1>2. MarksDefault(r) = r.makeDefault /\ Patch(r) = r.patch
  BY DEF MarksDefault, Patch
<1>3. base \in Rows
  BY ClearedRow DEF Rows
<1>4. Written(r) = [base EXCEPT ![r.plan] = Patched(Patched(@, r.patch), mark)]
  BY <1>1, <1>2 DEF Written
<1>5. Written(r) = [base EXCEPT ![r.plan] = row]
  BY <1>4
<1>6. /\ base[r.plan] \in Row /\ base[r.plan].active = plan[r.plan].active
      /\ ~ r.makeDefault => base[r.plan] = plan[r.plan]
  BY <1>1, ClearedRow DEF Rows
<1>7. /\ next \in Row
      /\ next.active = IF "active" \in DOMAIN r.patch THEN r.patch["active"]
                       ELSE plan[r.plan].active
  BY <1>1, PatchedRow
<1>8. /\ half \in Row
      /\ half.active = IF "active" \in DOMAIN r.patch THEN r.patch["active"]
                       ELSE base[r.plan].active
      /\ ~ r.makeDefault => half = next
  BY <1>1, <1>6, PatchedRow
<1>9. \A q \in Plans : base[q] = IF r.makeDefault THEN ClearDefaults[q] ELSE plan[q]
  OBVIOUS
<1>10. /\ mark \in Patches \cup {<<>>, [default |-> TRUE]}
       /\ DOMAIN mark = IF r.makeDefault THEN {"default"} ELSE {}
       /\ r.makeDefault => mark["default"] = TRUE
  <2>1. CASE r.makeDefault
    BY <2>1
  <2>2. CASE ~ r.makeDefault
    BY <2>2
  <2>3. QED
    BY <2>1, <2>2
<1>. HIDE DEF base, mark, next, half
<1>11. /\ row \in Row
       /\ row.active = IF "active" \in DOMAIN mark THEN mark["active"] ELSE half.active
       /\ row.default = IF "default" \in DOMAIN mark THEN mark["default"] ELSE half.default
  BY <1>8, <1>10, PatchedRow
<1>. HIDE DEF row
<1>12. row.active = next.active /\ row.default = (r.makeDefault \/ next.default)
  <2>1. half.default \in BOOLEAN /\ next.default \in BOOLEAN
    BY <1>7, <1>8 DEF Row
  <2>2. CASE r.makeDefault
    BY <1>6, <1>7, <1>8, <1>10, <1>11, <2>1, <2>2
  <2>3. CASE ~ r.makeDefault
    BY <1>1, <1>8, <1>10, <1>11, <2>1, <2>3
  <2>4. QED
    BY <2>2, <2>3
<1>13. /\ Written(r) \in Rows /\ Written(r)[r.plan] = row
       /\ \A q \in Plans \ {r.plan} : Written(r)[q] = base[q]
  BY <1>1, <1>3, <1>5, <1>11 DEF Rows
<1>14. QED
  BY <1>1, <1>7, <1>9, <1>11, <1>12, <1>13 DEF next

LEMMA WrittenDefault ==
  ASSUME plan \in Rows, NEW r \in Requests, r.kind = "setDefault", plan[r.plan] # NoPlan
  PROVE  /\ Written(r) \in Rows
         /\ r.plan \in Plans /\ plan[r.plan] \in Row
         /\ Written(r)[r.plan] \in Row
         /\ Written(r)[r.plan].active = plan[r.plan].active
         /\ Written(r)[r.plan].default
<1>1. r.plan \in Plans /\ plan[r.plan] \in Row
  BY DEF Requests, Rows
<1>. DEFINE mark == [default |-> TRUE]
            half == Patched(ClearDefaults[r.plan], <<>>)
            row == Patched(half, mark)
<1>2. Written(r) = [ClearDefaults EXCEPT ![r.plan] = Patched(Patched(@, <<>>), mark)]
  BY DEF Written, MarksDefault, Patch
<1>3. Written(r) = [ClearDefaults EXCEPT ![r.plan] = row]
  BY <1>2
<1>4. /\ ClearDefaults \in Rows /\ ClearDefaults[r.plan] \in Row
      /\ ClearDefaults[r.plan].active = plan[r.plan].active
  BY <1>1, ClearedRow DEF Rows
<1>5. DOMAIN <<>> = {} /\ DOMAIN mark = {"default"} /\ mark["default"] = TRUE
  OBVIOUS
<1>6. half \in Row /\ half.active = ClearDefaults[r.plan].active
  BY <1>4, <1>5, PatchedRow
<1>. HIDE DEF half
<1>7. row \in Row /\ row.active = half.active /\ row.default = TRUE
  BY <1>5, <1>6, PatchedRow
<1>. HIDE DEF row
<1>8. QED
  BY <1>1, <1>3, <1>4, <1>6, <1>7 DEF Rows

LEMMA WrittenTyped ==
  ASSUME plan \in Rows, NEW r \in Requests
  PROVE  Written(r) \in Rows
<1>1. r.kind \in {"insert", "update", "setDefault", "delete"}
  BY DEF Requests
<1>2. CASE r.kind \in {"update", "setDefault"} /\ plan[r.plan] = NoPlan
  <2>1. Written(r) = plan
    BY <1>2 DEF Written
  <2>2. QED
    BY <2>1
<1>3. QED
  BY <1>1, <1>2, WrittenInsert, WrittenDelete, WrittenUpdate, WrittenDefault

-----------------------------------------------------------------------------
(* The plans of a tenant.                                                   *)

PlansInv == PlansSafe /\ QuietInv

LEMMA DefaultsOf ==
  ASSUME NEW rows, NEW p
  PROVE  /\ p \in Stored(rows) <=> p \in Plans /\ rows[p] # NoPlan
         /\ p \in Defaults(rows) <=> p \in Plans /\ rows[p] # NoPlan /\ rows[p].default
  BY DEF Stored, Defaults

\* A request begins: it decides on the rows as they are.
LEMMA BeginKeeps ==
  ASSUME PlansInv, NEW w \in Admins, NEW r \in Requests, Begin(w, r), StillLegal(r)
  PROVE  PlansInv'
<1>1. /\ plan' = plan /\ admin' = [admin EXCEPT ![w] = r]
      /\ overlapped' = (overlapped \/ \E v \in Admins : admin[v] # Idle)
      /\ admin \in [Admins -> Requests \cup {Idle}] /\ overlapped \in BOOLEAN
  BY DEF Begin, PlansInv, PlansSafe, PlansTypeOK
<1>2. PlansTypeOK'
  BY <1>1 DEF PlansInv, PlansSafe, PlansTypeOK
<1>3. AtMostOneDefault' /\ DefaultWhenQuiet'
  BY <1>1 DEF PlansInv, PlansSafe, AtMostOneDefault, DefaultWhenQuiet, DefaultCanBeOffered
<1>4. StillLegal(r)'
  BY <1>1 DEF StillLegal
<1>5. ASSUME ~ overlapped'
      PROVE  \A v \in Admins : v # w => admin'[v] = Idle
  BY <1>1, <1>5
<1>6. admin'[w] = r
  BY <1>1
<1>7. QuietInv'
  <2>1. SUFFICES ASSUME ~ overlapped'
                 PROVE  /\ \A u, v \in Admins : admin'[u] # Idle /\ admin'[v] # Idle => u = v
                        /\ \A v \in Admins : admin'[v] # Idle => StillLegal(admin[v])'
    BY DEF QuietInv
  <2>2. \A v \in Admins : admin'[v] # Idle => v = w
    BY <1>5, <2>1
  <2>3. StillLegal(admin[w])'
    BY <1>4, <1>6 DEF StillLegal
  <2>4. QED
    BY <2>2, <2>3
<1>8. QED
  BY <1>2, <1>3, <1>7 DEF PlansInv, PlansSafe

LEMMA CreateKeeps ==
  ASSUME PlansInv, NEW w \in Admins, NEW p \in Plans, NEW row \in Row, Create(w, p, row)
  PROVE  PlansInv'
<1>. DEFINE first == BecomesDefault(row.default)
            new == [row EXCEPT !.active = @ \/ first, !.default = first]
            r == [kind |-> "insert", plan |-> p, row |-> new]
<1>1. /\ plan[p] = NoPlan /\ Begin(w, r)
  BY DEF Create
<1>2. first \in BOOLEAN /\ (first <=> row.default \/ Defaults(plan) = {})
  BY DEF BecomesDefault, Row
<1>. HIDE DEF first
<1>3. new \in Row /\ new.default = first /\ (first => new.active)
  BY <1>2 DEF Row
<1>. HIDE DEF new
<1>4. r \in Requests /\ r.kind = "insert" /\ r.plan = p /\ r.row = new
  BY <1>3 DEF Requests
<1>5. StillLegal(r)
  BY <1>1, <1>2, <1>3, <1>4 DEF StillLegal, DefaultIsActive
<1>6. QED
  BY <1>1, <1>4, <1>5, BeginKeeps

LEMMA UpdateKeeps ==
  ASSUME PlansInv, NEW w \in Admins, NEW p \in Plans, NEW patch \in Patches,
         Update(w, p, patch)
  PROVE  PlansInv'
<1>. DEFINE next == Patched(plan[p], patch)
            marks == next.default /\ ~plan[p].default
            r == [kind |-> "update", plan |-> p, patch |-> patch, makeDefault |-> marks]
<1>1. /\ plan[p] # NoPlan /\ DefaultIsActive(next)
      /\ plan[p].default /\ ~(next.default /\ next.active) => MayRelease(plan)
      /\ Begin(w, r)
  BY DEF Update
<1>2. marks \in BOOLEAN
  OBVIOUS
<1>3. /\ r \in Requests /\ r.kind = "update" /\ r.plan = p /\ r.patch = patch
      /\ r.makeDefault = marks
  <2>. HIDE DEF marks
  <2>1. QED
    BY <1>2 DEF Requests
<1>4. StillLegal(r)
  BY <1>1, <1>3 DEF StillLegal
<1>5. QED
  BY <1>1, <1>3, <1>4, BeginKeeps

LEMMA MarkKeeps ==
  ASSUME PlansInv, NEW w \in Admins, NEW p \in Plans, SetDefault(w, p) \/ Delete(w, p)
  PROVE  PlansInv'
<1>1. CASE SetDefault(w, p)
  <2>. DEFINE r == [kind |-> "setDefault", plan |-> p]
  <2>1. r \in Requests /\ r.kind = "setDefault" /\ r.plan = p
    BY DEF Requests
  <2>2. StillLegal(r) /\ Begin(w, r)
    BY <1>1, <2>1 DEF SetDefault, StillLegal
  <2>3. QED
    BY <2>1, <2>2, BeginKeeps
<1>2. CASE Delete(w, p)
  <2>. DEFINE r == [kind |-> "delete", plan |-> p]
  <2>1. r \in Requests /\ r.kind = "delete" /\ r.plan = p
    BY DEF Requests
  <2>2. StillLegal(r) /\ Begin(w, r)
    BY <1>2, <2>1 DEF Delete, StillLegal
  <2>3. QED
    BY <2>1, <2>2, BeginKeeps
<1>3. QED
  BY <1>1, <1>2

\* A request that was alone leaves a default that can be offered.
LEMMA WrittenIsOffered ==
  ASSUME PlansInv, ~ overlapped, NEW r \in Requests, StillLegal(r),
         Stored(Written(r)) # {}
  PROVE  \E q \in Defaults(Written(r)) : Written(r)[q].active
<1>. DEFINE rows == Written(r)
<1>0. /\ plan \in Rows /\ AtMostOneDefault /\ DefaultCanBeOffered
      /\ ~ MayRelease(plan)
      /\ r.kind \in {"insert", "update", "setDefault", "delete"}
  BY ManyDefaults DEF PlansInv, PlansSafe, PlansTypeOK, Rows, DefaultWhenQuiet, Requests
<1>1. \A q \in Plans : rows[q] # NoPlan /\ rows[q].default /\ rows[q].active =>
        \E x \in Defaults(rows) : rows[x].active
  BY DEF Defaults, Stored
<1>2. \A q \in Row : q # NoPlan
  BY PlansAssumption
\* Where nothing is cleared the old default is still there, if it is another row.
<1>3. ASSUME NEW p \in Plans, \A q \in Plans \ {p} : rows[q] = plan[q],
             plan[p] = NoPlan \/ ~ plan[p].default, Stored(plan) # {}
      PROVE  \E x \in Defaults(rows) : rows[x].active
  <2>1. PICK q \in Defaults(plan) : plan[q].active
    BY <1>0, <1>3 DEF DefaultCanBeOffered
  <2>2. q \in Plans /\ plan[q] # NoPlan /\ plan[q].default /\ q # p
    BY <1>3, <2>1 DEF Defaults, Stored
  <2>3. QED
    BY <1>1, <1>3, <2>1, <2>2
<1>4. CASE r.kind = "insert"
  <2>1. /\ rows \in Rows /\ r.plan \in Plans /\ r.row \in Row /\ rows[r.plan] = r.row
        /\ \A q \in Plans \ {r.plan} :
             rows[q] = IF r.row.default THEN ClearDefaults[q] ELSE plan[q]
    BY <1>0, <1>4, WrittenInsert
  <2>2. /\ plan[r.plan] = NoPlan /\ (r.row.default => r.row.active)
        /\ r.row.default \/ Defaults(plan) # {}
    BY <1>4 DEF StillLegal, DefaultIsActive
  <2>3. CASE r.row.default
    BY <1>1, <1>2, <2>1, <2>2, <2>3
  <2>4. CASE ~ r.row.default
    <3>1. Stored(plan) # {}
      BY <2>2, <2>4 DEF Defaults
    <3>2. QED
      BY <1>3, <2>1, <2>2, <2>4, <3>1
  <2>5. QED
    BY <2>3, <2>4
<1>5. CASE r.kind = "update"
  <2>. DEFINE next == Patched(plan[r.plan], r.patch)
  <2>1. /\ plan[r.plan] # NoPlan /\ DefaultIsActive(next)
        /\ plan[r.plan].default => next.default /\ next.active
        /\ r.makeDefault = (next.default /\ ~plan[r.plan].default)
    BY <1>0, <1>5 DEF StillLegal
  <2>2. /\ rows \in Rows /\ r.plan \in Plans /\ plan[r.plan] \in Row /\ next \in Row
        /\ rows[r.plan] \in Row /\ rows[r.plan].active = next.active
        /\ rows[r.plan].default = (r.makeDefault \/ next.default)
        /\ \A q \in Plans \ {r.plan} :
             rows[q] = IF r.makeDefault THEN ClearDefaults[q] ELSE plan[q]
    BY <1>0, <1>5, <2>1, WrittenUpdate
  <2>3. next.default \in BOOLEAN /\ next.active \in BOOLEAN /\ plan[r.plan].default \in BOOLEAN
    BY <2>2 DEF Row
  <2>. HIDE DEF next
  <2>4. CASE next.default
    <3>1. next.active
      BY <2>1, <2>4 DEF DefaultIsActive
    <3>2. QED
      BY <1>1, <1>2, <2>2, <2>3, <2>4, <3>1
  <2>5. CASE ~ next.default
    <3>1. ~ plan[r.plan].default /\ r.makeDefault = FALSE
      <4>1. plan[r.plan].default = FALSE
        BY <2>1, <2>3, <2>5
      <4>2. QED
        BY <2>1, <2>5, <4>1
    <3>2. Stored(plan) # {}
      BY <2>1, <2>2, DefaultsOf
    <3>3. \A q \in Plans \ {r.plan} : rows[q] = plan[q]
      BY <2>2, <3>1
    <3>4. QED
      BY <1>3, <2>2, <3>1, <3>2, <3>3
  <2>6. QED
    BY <2>3, <2>4, <2>5
<1>6. CASE r.kind = "setDefault"
  <2>1. plan[r.plan] # NoPlan /\ plan[r.plan].active
    BY <1>6 DEF StillLegal
  <2>2. /\ r.plan \in Plans /\ rows[r.plan] \in Row /\ rows[r.plan].active = plan[r.plan].active
        /\ rows[r.plan].default
    BY <1>0, <1>6, <2>1, WrittenDefault
  <2>3. QED
    BY <1>1, <1>2, <2>1, <2>2
<1>7. CASE r.kind = "delete"
  <2>1. plan[r.plan] # NoPlan /\ ~ plan[r.plan].default
    BY <1>0, <1>7 DEF StillLegal
  <2>2. r.plan \in Plans /\ \A q \in Plans \ {r.plan} : rows[q] = plan[q]
    BY <1>0, <1>7, WrittenDelete
  <2>3. Stored(plan) # {}
    BY <2>1, <2>2, DefaultsOf
  <2>4. QED
    BY <1>3, <2>1, <2>2, <2>3
<1>8. QED
  BY <1>0, <1>4, <1>5, <1>6, <1>7

LEMMA WriteKeeps ==
  ASSUME PlansInv, NEW w \in Admins, Write(w) \/ WriteRefused(w)
  PROVE  PlansInv'
<1>. DEFINE r == admin[w]
<1>1. /\ plan \in Rows /\ admin \in [Admins -> Requests \cup {Idle}]
      /\ overlapped \in BOOLEAN /\ overlapped' = overlapped
      /\ r # Idle /\ r \in Requests
      /\ admin' = [admin EXCEPT ![w] = Idle]
  BY DEF Write, WriteRefused, PlansInv, PlansSafe, PlansTypeOK, Rows
<1>2. plan' = plan \/ (plan' = Written(r) /\ OneDefault(Written(r)))
  BY DEF Write, WriteRefused
<1>3. plan' \in Rows /\ AtMostOneDefault'
  BY <1>1, <1>2, WrittenTyped
  DEF OneDefault, AtMostOneDefault, PlansInv, PlansSafe
<1>4. PlansTypeOK'
  BY <1>1, <1>3 DEF PlansTypeOK, Rows
<1>5. ~ overlapped => \A v \in Admins : admin'[v] = Idle
  BY <1>1 DEF PlansInv, QuietInv
<1>6. QuietInv'
  BY <1>1, <1>5 DEF QuietInv
<1>7. DefaultWhenQuiet'
  <2>1. SUFFICES ASSUME ~ overlapped PROVE DefaultCanBeOffered'
    BY <1>1 DEF DefaultWhenQuiet
  <2>2. CASE plan' = plan
    BY <2>1, <2>2 DEF PlansInv, PlansSafe, DefaultWhenQuiet, DefaultCanBeOffered
  <2>3. CASE plan' = Written(r)
    <3>1. StillLegal(r)
      BY <1>1, <2>1 DEF PlansInv, QuietInv
    <3>2. Stored(Written(r)) # {} => \E q \in Defaults(Written(r)) : Written(r)[q].active
      BY <1>1, <2>1, <3>1, WrittenIsOffered
    <3>3. QED
      BY <2>3, <3>2 DEF DefaultCanBeOffered
  <2>4. QED
    BY <1>2, <2>2, <2>3
<1>8. QED
  BY <1>3, <1>4, <1>6, <1>7 DEF PlansInv, PlansSafe

LEMMA PlansNextKeeps ==
  ASSUME PlansInv, PlansNext
  PROVE  PlansInv'
  BY CreateKeeps, UpdateKeeps, MarkKeeps, WriteKeeps DEF PlansNext

LEMMA PlansStutter ==
  ASSUME PlansInv, UNCHANGED planVars
  PROVE  PlansInv'
  BY DEF PlansInv, PlansSafe, PlansTypeOK, AtMostOneDefault, DefaultWhenQuiet,
         DefaultCanBeOffered, QuietInv, StillLegal, planVars, MayRelease

LEMMA PlansBegin ==
  ASSUME PlansInit
  PROVE  PlansInv
<1>1. Stored(plan) = {} /\ Defaults(plan) = {}
  BY DEF PlansInit, Stored, Defaults
<1>2. PlansTypeOK
  BY DEF PlansInit, PlansTypeOK
<1>3. AtMostOneDefault
  <2>1. Cardinality({}) = 0
    BY FS_EmptySet
  <2>2. QED
    BY <1>1, <2>1 DEF AtMostOneDefault
<1>4. DefaultWhenQuiet
  BY <1>1 DEF DefaultWhenQuiet, DefaultCanBeOffered
<1>5. QuietInv
  BY DEF PlansInit, QuietInv
<1>6. QED
  BY <1>2, <1>3, <1>4, <1>5 DEF PlansInv, PlansSafe

-----------------------------------------------------------------------------
(* The menu: the n-th number is an active plan.                             *)

LEMMA ActivePlans ==
  ASSUME NEW rows \in Rows
  PROVE  /\ IsFiniteSet(Active(rows)) /\ Active(rows) \subseteq Plans
         /\ Cardinality(Active(rows)) \in Nat
         /\ \A p \in Active(rows) : rows[p] \in Row /\ rows[p].default \in BOOLEAN
<1>1. Active(rows) \subseteq Plans
  BY DEF Active, Stored
<1>2. IsFiniteSet(Active(rows))
  BY <1>1, FS_Subset, PlansAssumption
<1>3. \A p \in Active(rows) : rows[p] \in Row
  BY DEF Active, Stored, Rows
<1>4. QED
  BY <1>1, <1>2, <1>3, FS_CardinalityType DEF Row

LEMMA RankBelow ==
  ASSUME NEW rows \in Rows, NEW p \in Active(rows), NEW q \in Active(rows), p # q,
         p \in Before(rows, q)
  PROVE  Cardinality(Before(rows, p)) < Cardinality(Before(rows, q))
<1>. DEFINE P == Before(rows, p)
            Q == Before(rows, q)
<1>1. /\ p \in Int /\ q \in Int
      /\ \A x \in Active(rows) : x \in Int /\ rows[x].default \in BOOLEAN
  BY ActivePlans, PlansAssumption
<1>2. p \notin P
  BY <1>1 DEF Before
<1>3. P \cup {p} \subseteq Q
  <2>1. SUFFICES ASSUME NEW x \in P PROVE x \in Q
    OBVIOUS
  <2>2. x \in Active(rows) /\ p \in Active(rows) /\ q \in Active(rows)
    BY DEF Before
  <2>3. \/ rows[x].default /\ ~rows[p].default
        \/ rows[x].default = rows[p].default /\ x < p
    BY DEF Before
  <2>4. \/ rows[p].default /\ ~rows[q].default
        \/ rows[p].default = rows[q].default /\ p < q
    BY DEF Before
  <2>5. \/ rows[x].default /\ ~rows[q].default
        \/ rows[x].default = rows[q].default /\ x < q
    BY <1>1, <2>2, <2>3, <2>4
  <2>6. QED
    BY <2>2, <2>5 DEF Before
<1>4. IsFiniteSet(Active(rows)) /\ P \subseteq Active(rows) /\ Q \subseteq Active(rows)
  BY ActivePlans DEF Before
<1>. HIDE DEF P, Q
<1>5. IsFiniteSet(P) /\ IsFiniteSet(Q)
  BY <1>4, FS_Subset
<1>6. Cardinality(P \cup {p}) = Cardinality(P) + 1
  BY <1>2, <1>5, FS_AddElement
<1>7. Cardinality(P \cup {p}) <= Cardinality(Q)
  BY <1>3, <1>5, FS_Subset
<1>8. Cardinality(P) \in Nat /\ Cardinality(Q) \in Nat
  BY <1>5, FS_CardinalityType
<1>9. Cardinality(P) < Cardinality(Q)
  BY <1>6, <1>7, <1>8
<1>10. QED
  BY <1>9 DEF P, Q

LEMMA MenuHasPlans ==
  ASSUME NEW rows \in Rows, NEW i \in 1 .. Cardinality(Active(rows))
  PROVE  MenuOf(rows)[i] \in Active(rows)
<1>. DEFINE A == Active(rows)
            n == Cardinality(A)
            T == 0 .. n - 1
            rank == [p \in A |-> Cardinality(Before(rows, p))]
<1>1. IsFiniteSet(A) /\ n \in Nat /\ A \subseteq Plans
  BY ActivePlans
<1>2. \A p \in A : rank[p] \in T
  <2>1. SUFFICES ASSUME NEW p \in A PROVE rank[p] \in T
    OBVIOUS
  <2>2. p \notin Before(rows, p) /\ Before(rows, p) \subseteq A \ {p}
    <3>1. p \in Int /\ p \in A
      BY <1>1, PlansAssumption
    <3>2. ~ (p < p)
      BY <3>1
    <3>3. QED
      BY <3>2 DEF Before
  <2>3. IsFiniteSet(A \ {p}) /\ Cardinality(A \ {p}) = n - 1
    BY <1>1, FS_RemoveElement
  <2>4. IsFiniteSet(Before(rows, p)) /\ Cardinality(Before(rows, p)) <= n - 1
    BY <2>2, <2>3, FS_Subset
  <2>5. Cardinality(Before(rows, p)) \in Nat
    BY <2>4, FS_CardinalityType
  <2>6. QED
    BY <1>1, <2>4, <2>5
<1>3. ASSUME NEW p \in A, NEW q \in A, p # q
      PROVE  rank[p] # rank[q]
  <2>1. p \in Before(rows, q) \/ q \in Before(rows, p)
    <3>1. p \in Int /\ q \in Int /\ rows[p].default \in BOOLEAN /\ rows[q].default \in BOOLEAN
      BY ActivePlans, PlansAssumption
    <3>2. QED
      BY <1>3, <3>1 DEF Before
  <2>2. rank[p] < rank[q] \/ rank[q] < rank[p]
    BY <1>3, <2>1, RankBelow
  <2>3. rank[p] \in Int /\ rank[q] \in Int
    BY <1>1, <1>2
  <2>. HIDE DEF rank
  <2>4. QED
    BY <2>2, <2>3
<1>4. rank \in Injection(A, T)
  <2>1. rank \in [A -> T]
    BY <1>2
  <2>2. QED
    BY <1>3, <2>1 DEF Injection, IsInjective
<1>5. IsFiniteSet(T) /\ Cardinality(T) = n
  <2>. HIDE DEF n
  <2>1. IsFiniteSet(T) /\ Cardinality(T) = IF 0 > n - 1 THEN 0 ELSE (n - 1) - 0 + 1
    BY <1>1, FS_Interval
  <2>2. QED
    BY <1>1, <2>1
<1>6. rank \in Surjection(A, T)
  BY <1>4, <1>5, FS_Injection
<1>7. i - 1 \in T
  BY <1>1
<1>8. \E p \in A : rank[p] = i - 1
  BY <1>6, <1>7 DEF Surjection
<1>9. \E p \in A : Cardinality(Before(rows, p)) = i - 1
  BY <1>8
<1>10. QED
  BY <1>9 DEF MenuOf

-----------------------------------------------------------------------------
(* The types, in parts that a step changes or leaves alone.                 *)

AppOK == app \in Applications

WorldOK ==
  /\ settings \in [clientChooses : BOOLEAN, override : BOOLEAN,
                   interestLocked : BOOLEAN]
  /\ borrower \in [blocked : BOOLEAN, limit : {0, Limit}]
  /\ locked \in Coordinators \cup {NoOne}
  /\ shown \in Shown
  /\ agreed \in Shown
  /\ calm \in BOOLEAN

CreditsOK == credits \in Seq(CreditRows) /\ Len(credits) <= MaxCredits

CoordOK == coord \in [Coordinators -> CoordRequests]

MsgOK == msg \in [Messages -> MessageStates]

LEMMA TypeParts ==
  TypeOK <=> PlansTypeOK /\ AppOK /\ WorldOK /\ CreditsOK /\ CoordOK /\ MsgOK
  BY DEF TypeOK, AppOK, WorldOK, CreditsOK, CoordOK, MsgOK

LEMMA CoordOf ==
  ASSUME NEW r \in CoordRequests
  PROVE  /\ r.at \in {"idle", "reject", "offer", "offered", "approve", "grant", "commit"}
         /\ r.at = "idle" <=> r = Free
         /\ r.at = "offer" => r.seen \in Offers /\ r.principal \in Principals
         /\ r.at = "offered" => r.send \in Shown
         /\ r.at = "approve" =>
              /\ r.app \in Applications /\ r.plan \in Plans \cup {NoPlan}
              /\ r.terms \in Terms /\ r.principal \in Principals
         /\ r.at \in {"grant", "commit"} => r.credit \in CreditRows
<1>1. CASE r \in [at : {"idle", "reject"}]
  BY <1>1 DEF Free
<1>2. CASE r \in [at : {"offer"}, seen : Offers, principal : Principals]
  BY <1>2 DEF Free
<1>3. CASE r \in [at : {"offered"}, send : Shown]
  BY <1>3 DEF Free
<1>4. CASE r \in [at : {"approve"}, app : Applications, plan : Plans \cup {NoPlan},
                  terms : Terms, principal : Principals]
  BY <1>4 DEF Free
<1>5. CASE r \in [at : {"grant", "commit"}, credit : CreditRows]
  BY <1>5 DEF Free
<1>6. QED
  BY <1>1, <1>2, <1>3, <1>4, <1>5 DEF CoordRequests

LEMMA CoordMakes ==
  /\ Free \in CoordRequests /\ Free.at = "idle"
  /\ [at |-> "reject"] \in CoordRequests
  /\ \A o \in Offers, x \in Principals :
       [at |-> "offer", seen |-> o, principal |-> x] \in CoordRequests
  /\ \A s \in Shown : [at |-> "offered", send |-> s] \in CoordRequests
  /\ \A a \in Applications, p \in Plans \cup {NoPlan}, t \in Terms, x \in Principals :
       [at |-> "approve", app |-> a, plan |-> p, terms |-> t, principal |-> x]
         \in CoordRequests
  /\ \A k \in CreditRows : [at |-> "grant", credit |-> k] \in CoordRequests
  BY DEF CoordRequests, Free

LEMMA ToCommit ==
  ASSUME NEW r \in CoordRequests, r.at = "grant"
  PROVE  /\ [r EXCEPT !.at = "commit"] \in CoordRequests
         /\ [r EXCEPT !.at = "commit"].at = "commit"
         /\ [r EXCEPT !.at = "commit"].credit = r.credit
  BY DEF CoordRequests, Free

LEMMA MessageOf ==
  ASSUME NEW r \in MessageStates
  PROVE  /\ r.at \in {"unsaid", "sent", "answer", "done", "select", "selected"}
         /\ r.about \in Shown
         /\ r.at # "unsaid" => r.answer \in Answers
         /\ r.at = "select" => r.principal \in Principals
         /\ r.at = "selected" => r.send \in Shown
  BY DEF MessageStates, Shown

LEMMA MessageMakes ==
  ASSUME NEW a \in Shown, NEW y \in Answers
  PROVE  /\ [at |-> "sent", about |-> a, answer |-> y] \in MessageStates
         /\ \A x \in Principals :
              [at |-> "select", about |-> a, answer |-> y, principal |-> x]
                \in MessageStates
         /\ \A s \in Shown :
              [at |-> "selected", about |-> a, answer |-> y, send |-> s] \in MessageStates
  BY DEF MessageStates

LEMMA MessageMoves ==
  ASSUME NEW r \in MessageStates, r.at # "unsaid"
  PROVE  /\ [r EXCEPT !.at = "done"] \in MessageStates
         /\ [r EXCEPT !.at = "done"].at = "done"
         /\ r.at = "sent" => /\ [r EXCEPT !.at = "answer"] \in MessageStates
                             /\ [r EXCEPT !.at = "answer"].at = "answer"
                             /\ [r EXCEPT !.at = "answer"].about = r.about
  BY DEF MessageStates

LEMMA ShownMakes ==
  /\ Nothing \in Shown
  /\ \A s \in SUBSET Plans : Menu(s) \in Shown
  /\ \A p \in Plans, t \in Terms, x \in Principals : Schedule(p, t, x) \in Shown
  BY DEF Shown, Nothing, Menu, Schedule

-----------------------------------------------------------------------------
(* Every action keeps the types.                                            *)

OwnOK == AppOK /\ WorldOK /\ CreditsOK /\ CoordOK /\ MsgOK

LEMMA AppFields ==
  ASSUME NEW a \in Applications
  PROVE  /\ a = [status |-> a.status, offer |-> a.offer, plan |-> a.plan,
                 principal |-> a.principal, expired |-> a.expired]
         /\ a.offer \in Offers /\ a.plan \in Plans \cup {NoPlan}
         /\ a.principal \in Principals \cup {0} /\ a.expired \in BOOLEAN
         /\ a.status \in {"IN_REVIEW", "APPROVED", "REJECTED"}
         /\ a.offer # "NOT_OFFERED" => a.principal \in Principals
         /\ a.plan # NoPlan => a.offer # "NOT_OFFERED"
  BY DEF Applications

LEMMA AppMakes ==
  ASSUME NEW s \in {"IN_REVIEW", "APPROVED", "REJECTED"}, NEW o \in Offers,
         NEW p \in Plans \cup {NoPlan}, NEW x \in Principals \cup {0}, NEW e \in BOOLEAN,
         o # "NOT_OFFERED" => x \in Principals, p # NoPlan => o # "NOT_OFFERED"
  PROVE  [status |-> s, offer |-> o, plan |-> p, principal |-> x, expired |-> e]
           \in Applications
  BY DEF Applications

LEMMA Unchanging ==
  /\ AppOK /\ app' = app => AppOK'
  /\ WorldOK /\ UNCHANGED <<settings, borrower, locked, shown, agreed, calm>> => WorldOK'
  /\ CreditsOK /\ credits' = credits => CreditsOK'
  /\ CoordOK /\ coord' = coord => CoordOK'
  /\ MsgOK /\ msg' = msg => MsgOK'
  BY DEF AppOK, WorldOK, CreditsOK, CoordOK, MsgOK

LEMMA CoordPut ==
  ASSUME CoordOK, NEW c \in Coordinators, NEW r \in CoordRequests,
         coord' = [coord EXCEPT ![c] = r]
  PROVE  /\ CoordOK' /\ coord'[c] = r
         /\ \A d \in Coordinators : d # c => coord'[d] = coord[d]
  BY DEF CoordOK

LEMMA MsgPut ==
  ASSUME MsgOK, NEW m \in Messages, NEW r \in MessageStates,
         msg' = [msg EXCEPT ![m] = r]
  PROVE  /\ MsgOK' /\ msg'[m] = r
         /\ \A n \in Messages : n # m => msg'[n] = msg[n]
  BY DEF MsgOK

LEMMA PlanTyped ==
  ASSUME PlansTypeOK
  PROVE  /\ plan \in Rows
         /\ \A p \in Plans : plan[p] # NoPlan => plan[p] \in Row /\ plan[p].terms \in Terms
  BY DEF PlansTypeOK, Rows, Row

LEMMA ActiveTyped ==
  ASSUME PlansTypeOK, NEW p
  PROVE  /\ p \in Active(plan) => p \in Plans /\ plan[p] # NoPlan
         /\ p \in Defaults(plan) => p \in Plans /\ plan[p] # NoPlan
  BY DEF Active, Stored, Defaults

LEMMA NoPlanOutside == NoPlan \notin Plans
  BY PlansAssumption

\* The application with another offer on it.
LEMMA AppOffered ==
  ASSUME AppOK, NEW o \in Offers \ {"NOT_OFFERED"}, NEW p \in Plans \cup {NoPlan},
         NEW x \in Principals, NEW e \in BOOLEAN,
         app' = [app EXCEPT !.offer = o, !.plan = p, !.principal = x, !.expired = e]
  PROVE  /\ AppOK'
         /\ app'.offer = o /\ app'.plan = p /\ app'.principal = x
         /\ app'.status = app.status
<1>. DEFINE new == [status |-> app.status, offer |-> o, plan |-> p, principal |-> x,
                    expired |-> e]
<1>1. app \in Applications
  BY DEF AppOK
<1>2. app' = new
  BY <1>1 DEF Applications
<1>3. new \in Applications
  BY <1>1, AppFields, AppMakes
<1>4. QED
  BY <1>2, <1>3 DEF AppOK

LEMMA StartOfferTyped ==
  ASSUME TypeOK, NEW c \in Coordinators, NEW x \in Principals, StartOffer(c, x)
  PROVE  OwnOK'
<1>1. /\ CoordOK /\ app \in Applications
      /\ coord' = [coord EXCEPT ![c] = [at |-> "offer", seen |-> app.offer,
                                        principal |-> x]]
  BY TypeParts DEF StartOffer, AppOK
<1>2. [at |-> "offer", seen |-> app.offer, principal |-> x] \in CoordRequests
  BY <1>1, CoordMakes, AppFields
<1>3. CoordOK'
  BY <1>1, <1>2, CoordPut
<1>4. WorldOK'
  BY TypeParts DEF StartOffer, StartsAlone, WorldOK
<1>5. AppOK' /\ CreditsOK' /\ MsgOK'
  BY TypeParts, Unchanging DEF StartOffer
<1>6. QED
  BY <1>3, <1>4, <1>5 DEF OwnOK

LEMMA MarkOfferedTyped ==
  ASSUME TypeOK, NEW c \in Coordinators, MarkOffered(c)
  PROVE  OwnOK'
<1>1. CoordOK /\ AppOK /\ coord[c] \in CoordRequests /\ coord[c].at = "offer"
  BY TypeParts DEF MarkOffered, CoordOK
<1>2. coord[c].principal \in Principals
  BY <1>1, CoordOf
<1>3. WorldOK' /\ CreditsOK' /\ MsgOK'
  BY TypeParts, Unchanging DEF MarkOffered
<1>4. PICK x \in Principals : x = coord[c].principal
  BY <1>2
<1>5. AppOK' /\ CoordOK'
  <2>1. CASE settings.clientChooses
    <3>1. /\ app' = [app EXCEPT !.offer = "AWAITING_SELECTION", !.plan = NoPlan,
                                !.principal = x, !.expired = FALSE]
          /\ coord' = [coord EXCEPT ![c] = [at |-> "offered", send |-> Menu(Active(plan))]]
      BY <1>4, <2>1 DEF MarkOffered
    <3>2. "AWAITING_SELECTION" \in Offers \ {"NOT_OFFERED"}
      BY DEF Offers
    <3>3. AppOK'
      BY <1>1, <3>1, <3>2, AppOffered
    <3>4. Menu(Active(plan)) \in Shown
      BY ShownMakes DEF Active, Stored
    <3>5. [at |-> "offered", send |-> Menu(Active(plan))] \in CoordRequests
      BY <3>4, CoordMakes
    <3>6. QED
      BY <1>1, <3>1, <3>3, <3>5, CoordPut
  <2>2. CASE ~settings.clientChooses
    <3>1. PICK p \in Defaults(plan) :
             /\ app' = [app EXCEPT !.offer = "AWAITING_ACCEPTANCE", !.plan = p,
                                   !.principal = coord[c].principal, !.expired = FALSE]
             /\ coord' = [coord EXCEPT ![c] =
                  [at |-> "offered",
                   send |-> Schedule(p, plan[p].terms, coord[c].principal)]]
      BY <2>2 DEF MarkOffered
    <3>2. "AWAITING_ACCEPTANCE" \in Offers \ {"NOT_OFFERED"}
      BY DEF Offers
    <3>3. PlansTypeOK
      BY TypeParts
    <3>4. p \in Plans /\ plan[p].terms \in Terms
      BY <3>3, ActiveTyped, PlanTyped
    <3>5. AppOK'
      BY <1>1, <1>4, <3>1, <3>2, <3>4, AppOffered
    <3>6. Schedule(p, plan[p].terms, x) \in Shown
      BY <3>4, ShownMakes
    <3>7. [at |-> "offered", send |-> Schedule(p, plan[p].terms, x)] \in CoordRequests
      BY <3>6, CoordMakes
    <3>8. QED
      BY <1>1, <1>4, <3>1, <3>5, <3>7, CoordPut
  <2>3. QED
    BY <2>1, <2>2
<1>6. QED
  BY <1>3, <1>5 DEF OwnOK

LEMMA SendOfferTyped ==
  ASSUME TypeOK, NEW c \in Coordinators, SendOffer(c)
  PROVE  OwnOK'
<1>1. /\ CoordOK /\ coord[c] \in CoordRequests /\ coord[c].at = "offered"
      /\ coord' = [coord EXCEPT ![c] = Free]
  BY TypeParts DEF SendOffer, CoordOK
<1>2. CoordOK'
  BY <1>1, CoordMakes, CoordPut
<1>3. coord[c].send \in Shown
  BY <1>1, CoordOf
<1>4. WorldOK'
  BY <1>3, TypeParts DEF SendOffer, Deliver, WorldOK
<1>5. AppOK' /\ CreditsOK' /\ MsgOK'
  BY TypeParts, Unchanging DEF SendOffer
<1>6. QED
  BY <1>2, <1>4, <1>5 DEF OwnOK

LEMMA ExpireTyped ==
  ASSUME TypeOK, Expire
  PROVE  /\ OwnOK'
         /\ app'.status = app.status /\ app'.offer = app.offer /\ app'.plan = app.plan
         /\ app'.principal = app.principal
<1>1. WorldOK' /\ CreditsOK' /\ MsgOK' /\ CoordOK'
  BY TypeParts, Unchanging DEF Expire
<1>2. AppOK /\ app' = [app EXCEPT !.expired = TRUE]
  BY TypeParts DEF Expire
<1>. DEFINE new == [status |-> app.status, offer |-> app.offer, plan |-> app.plan,
                    principal |-> app.principal, expired |-> TRUE]
<1>3. app' = new
  BY <1>2 DEF AppOK, Applications
<1>4. new \in Applications
  BY <1>2, AppFields, AppMakes DEF AppOK
<1>5. AppOK' /\ app'.status = app.status /\ app'.offer = app.offer /\ app'.plan = app.plan
      /\ app'.principal = app.principal
  BY <1>2, <1>3, <1>4 DEF AppOK
<1>6. QED
  BY <1>1, <1>5 DEF OwnOK

LEMMA SayTyped ==
  ASSUME TypeOK, NEW m \in Messages, NEW y \in Answers, Say(m, y)
  PROVE  OwnOK'
<1>1. shown \in Shown /\ MsgOK
      /\ msg' = [msg EXCEPT ![m] = [at |-> "sent", about |-> shown, answer |-> y]]
  BY TypeParts DEF Say, WorldOK
<1>2. MsgOK'
  BY <1>1, MessageMakes, MsgPut
<1>3. AppOK' /\ WorldOK' /\ CreditsOK' /\ CoordOK'
  BY TypeParts, Unchanging DEF Say
<1>4. QED
  BY <1>2, <1>3 DEF OwnOK

\* A message that moves on within its handler.
LEMMA Moved ==
  ASSUME MsgOK, NEW m \in Messages
  PROVE  /\ To(m, "done") /\ msg[m].at # "unsaid" =>
              /\ MsgOK' /\ msg'[m].at = "done"
              /\ \A n \in Messages : n # m => msg'[n] = msg[n]
         /\ To(m, "answer") /\ msg[m].at = "sent" =>
              /\ MsgOK' /\ msg'[m].at = "answer" /\ msg'[m].about = msg[m].about
              /\ \A n \in Messages : n # m => msg'[n] = msg[n]
<1>1. PICK r \in MessageStates : r = msg[m]
  BY DEF MsgOK
<1>2. ASSUME To(m, "done"), msg[m].at # "unsaid"
      PROVE  /\ MsgOK' /\ msg'[m].at = "done"
             /\ \A n \in Messages : n # m => msg'[n] = msg[n]
  <2>. DEFINE new == [r EXCEPT !.at = "done"]
  <2>1. msg' = [msg EXCEPT ![m] = new]
    BY <1>1, <1>2 DEF To
  <2>2. new \in MessageStates /\ new.at = "done"
    BY <1>1, <1>2, MessageMoves
  <2>. HIDE DEF new
  <2>3. QED
    BY <2>1, <2>2, MsgPut
<1>3. ASSUME To(m, "answer"), msg[m].at = "sent"
      PROVE  /\ MsgOK' /\ msg'[m].at = "answer" /\ msg'[m].about = msg[m].about
             /\ \A n \in Messages : n # m => msg'[n] = msg[n]
  <2>. DEFINE new == [r EXCEPT !.at = "answer"]
  <2>1. msg' = [msg EXCEPT ![m] = new]
    BY <1>1, <1>3 DEF To
  <2>2. new \in MessageStates /\ new.at = "answer" /\ new.about = msg[m].about
    BY <1>1, <1>3, MessageMoves
  <2>. HIDE DEF new
  <2>3. QED
    BY <2>1, <2>2, MsgPut
<1>4. QED
  BY <1>2, <1>3

LEMMA ServeTyped ==
  ASSUME TypeOK, NEW m \in Messages, Serve(m)
  PROVE  OwnOK'
<1>1. MsgOK /\ AppOK /\ WorldOK /\ msg[m].at = "sent" /\ msg[m] \in MessageStates
  BY TypeParts DEF Serve, MsgOK
<1>2. AppOK' /\ CreditsOK' /\ CoordOK'
  BY TypeParts, Unchanging DEF Serve
<1>3. WorldOK'
  BY <1>1 DEF Serve, WorldOK
<1>4. MsgOK'
  <2>1. CASE To(m, "done") \/ To(m, "answer")
    BY <1>1, <2>1, Moved
  <2>2. CASE /\ app.offer = "AWAITING_SELECTION"
             /\ msg' = [msg EXCEPT ![m] =
                   [at |-> "select", about |-> @.about, answer |-> @.answer,
                    principal |-> app.principal]]
    <3>1. app.principal \in Principals
      BY <1>1, <2>2, AppFields DEF AppOK
    <3>2. msg[m].about \in Shown /\ msg[m].answer \in Answers
      BY <1>1, MessageOf
    <3>3. [at |-> "select", about |-> msg[m].about, answer |-> msg[m].answer,
           principal |-> app.principal] \in MessageStates
      BY <3>1, <3>2, MessageMakes
    <3>4. QED
      BY <1>1, <2>2, <3>3, MsgPut
  <2>3. QED
    BY <2>1, <2>2 DEF Serve
<1>5. QED
  BY <1>2, <1>3, <1>4 DEF OwnOK

\* What a choice does: it stands as the offer, or the menu is shown again.
LEMMA ChooseDoes ==
  ASSUME TypeOK, NEW m \in Messages, Choose(m)
  PROVE  /\ msg[m].at = "select"
         /\ \/ \E p \in Active(plan) :
                 /\ app' = [app EXCEPT !.offer = "AWAITING_ACCEPTANCE", !.plan = p]
                 /\ msg' = [msg EXCEPT ![m] =
                      [at |-> "selected", about |-> @.about, answer |-> @.answer,
                       send |-> Schedule(p, plan[p].terms, @.principal)]]
                 /\ shown' = shown
            \/ shown' = Menu(Active(plan)) /\ To(m, "done") /\ app' = app
<1>1. plan \in Rows /\ msg[m] \in MessageStates /\ msg[m].at = "select"
  BY TypeParts, PlanTyped DEF Choose, MsgOK
<1>2. PICK rows \in Rows : rows = plan
  BY <1>1
<1>3. CASE /\ msg[m].answer.says = "number"
           /\ msg[m].answer.number <= Cardinality(Active(plan))
  <2>1. msg[m].answer \in Answers
    BY <1>1, MessageOf
  <2>2. msg[m].answer.number \in 1 .. Cardinality(Plans)
    BY <1>3, <2>1 DEF Answers
  <2>3. Cardinality(Active(rows)) \in Nat /\ Cardinality(Plans) \in Nat
    BY ActivePlans, PlansAssumption, FS_CardinalityType
  <2>4. PICK i \in 1 .. Cardinality(Active(rows)) : i = msg[m].answer.number
    BY <1>2, <1>3, <2>2, <2>3
  <2>5. MenuOf(rows)[i] \in Active(rows)
    BY MenuHasPlans
  <2>6. PICK p \in Active(plan) : p = MenuOf(plan)[msg[m].answer.number]
    BY <1>2, <2>4, <2>5
  <2>7. QED
    BY <1>1, <1>3, <2>6 DEF Choose
<1>4. CASE ~ (/\ msg[m].answer.says = "number"
              /\ msg[m].answer.number <= Cardinality(Active(plan)))
  BY <1>1, <1>4 DEF Choose
<1>5. QED
  BY <1>3, <1>4

LEMMA ChooseTyped ==
  ASSUME TypeOK, ServedIsOffered, NEW m \in Messages, Choose(m)
  PROVE  OwnOK'
<1>1. MsgOK /\ AppOK /\ WorldOK /\ PlansTypeOK /\ msg[m] \in MessageStates
      /\ msg[m].at = "select"
  BY TypeParts DEF Choose, MsgOK
<1>2. CreditsOK' /\ CoordOK'
  BY TypeParts, Unchanging DEF Choose
<1>3. UNCHANGED <<settings, borrower, locked, agreed, calm>>
  BY DEF Choose
<1>4. CASE \E p \in Active(plan) :
             /\ app' = [app EXCEPT !.offer = "AWAITING_ACCEPTANCE", !.plan = p]
             /\ msg' = [msg EXCEPT ![m] =
                  [at |-> "selected", about |-> @.about, answer |-> @.answer,
                   send |-> Schedule(p, plan[p].terms, @.principal)]]
             /\ shown' = shown
  <2>1. PICK p \in Active(plan) :
             /\ app' = [app EXCEPT !.offer = "AWAITING_ACCEPTANCE", !.plan = p]
             /\ msg' = [msg EXCEPT ![m] =
                  [at |-> "selected", about |-> @.about, answer |-> @.answer,
                   send |-> Schedule(p, plan[p].terms, @.principal)]]
             /\ shown' = shown
    BY <1>4
  <2>2. p \in Plans /\ plan[p].terms \in Terms
    BY <1>1, ActiveTyped, PlanTyped
  <2>3. AppOK'
    <3>1. app' = [status |-> app.status, offer |-> "AWAITING_ACCEPTANCE", plan |-> p,
                  principal |-> app.principal, expired |-> app.expired]
      BY <1>1, <2>1 DEF AppOK, Applications
    <3>2. app.offer # "NOT_OFFERED"
      BY <1>1 DEF ServedIsOffered, Busy
    <3>3. app.principal \in Principals /\ "AWAITING_ACCEPTANCE" \in Offers
      BY <1>1, <3>2, AppFields DEF AppOK, Offers
    <3>4. [status |-> app.status, offer |-> "AWAITING_ACCEPTANCE", plan |-> p,
           principal |-> app.principal, expired |-> app.expired] \in Applications
      BY <1>1, <2>2, <3>3, AppFields, AppMakes DEF AppOK
    <3>5. QED
      BY <3>1, <3>4 DEF AppOK
  <2>4. msg[m].about \in Shown /\ msg[m].answer \in Answers /\ msg[m].principal \in Principals
    BY <1>1, MessageOf
  <2>5. Schedule(p, plan[p].terms, msg[m].principal) \in Shown
    BY <2>2, <2>4, ShownMakes
  <2>6. [at |-> "selected", about |-> msg[m].about, answer |-> msg[m].answer,
         send |-> Schedule(p, plan[p].terms, msg[m].principal)] \in MessageStates
    BY <2>4, <2>5, MessageMakes
  <2>7. MsgOK'
    BY <1>1, <2>1, <2>6, MsgPut
  <2>8. WorldOK'
    BY <1>1, <1>3, <2>1, Unchanging
  <2>9. QED
    BY <1>2, <2>3, <2>7, <2>8 DEF OwnOK
<1>5. CASE shown' = Menu(Active(plan)) /\ To(m, "done") /\ app' = app
  <2>1. Menu(Active(plan)) \in Shown
    BY ShownMakes DEF Active, Stored
  <2>2. WorldOK'
    BY <1>1, <1>3, <1>5, <2>1 DEF WorldOK
  <2>3. MsgOK'
    BY <1>1, <1>5, Moved
  <2>4. AppOK'
    BY <1>1, <1>5, Unchanging
  <2>5. QED
    BY <1>2, <2>2, <2>3, <2>4 DEF OwnOK
<1>6. QED
  BY <1>4, <1>5, ChooseDoes

LEMMA SendScheduleTyped ==
  ASSUME TypeOK, NEW m \in Messages, SendSchedule(m)
  PROVE  OwnOK'
<1>1. MsgOK /\ WorldOK /\ msg[m] \in MessageStates /\ msg[m].at = "selected"
  BY TypeParts DEF SendSchedule, MsgOK
<1>2. msg[m].send \in Shown
  BY <1>1, MessageOf
<1>3. WorldOK'
  BY <1>1, <1>2 DEF SendSchedule, Deliver, WorldOK
<1>4. MsgOK'
  BY <1>1, Moved DEF SendSchedule
<1>5. AppOK' /\ CreditsOK' /\ CoordOK'
  BY TypeParts, Unchanging DEF SendSchedule
<1>6. QED
  BY <1>3, <1>4, <1>5 DEF OwnOK

LEMMA AnswerTyped ==
  ASSUME TypeOK, ServedIsOffered, NEW m \in Messages, Answer(m)
  PROVE  OwnOK'
<1>1. MsgOK /\ AppOK /\ WorldOK /\ msg[m] \in MessageStates /\ msg[m].at = "answer"
  BY TypeParts DEF Answer, MsgOK
<1>2. CreditsOK' /\ CoordOK'
  BY TypeParts, Unchanging DEF Answer
<1>3. MsgOK'
  BY <1>1, Moved DEF Answer
<1>4. WorldOK'
  <2>1. msg[m].about \in Shown
    BY <1>1, MessageOf
  <2>2. QED
    BY <1>1, <2>1 DEF Answer, WorldOK
<1>5. AppOK'
  <2>1. app.offer # "NOT_OFFERED"
    BY <1>1 DEF ServedIsOffered, Busy
  <2>2. ASSUME NEW o \in {"ACCEPTED", "DECLINED"}, app' = [app EXCEPT !.offer = o]
        PROVE  AppOK'
    <3>1. app' = [status |-> app.status, offer |-> o, plan |-> app.plan,
                  principal |-> app.principal, expired |-> app.expired]
      BY <1>1, <2>2 DEF AppOK, Applications
    <3>2. o \in Offers
      BY DEF Offers
    <3>3. [status |-> app.status, offer |-> o, plan |-> app.plan,
           principal |-> app.principal, expired |-> app.expired] \in Applications
      BY <1>1, <2>1, <3>2, AppFields, AppMakes DEF AppOK
    <3>4. QED
      BY <3>1, <3>3 DEF AppOK
  <2>3. QED
    BY <1>1, <2>2, Unchanging DEF Answer
<1>6. QED
  BY <1>2, <1>3, <1>4, <1>5 DEF OwnOK

\* A request that begins, and one that ends, with nothing else written.
LEMMA StartRequestTyped ==
  ASSUME TypeOK, NEW c \in Coordinators, NEW r \in CoordRequests,
         coord' = [coord EXCEPT ![c] = r], StartsAlone \/ calm' = calm,
         UNCHANGED <<app, settings, borrower, credits, locked, shown, msg, agreed>>
  PROVE  OwnOK'
<1>1. CoordOK'
  BY TypeParts, CoordPut
<1>2. WorldOK'
  BY TypeParts DEF StartsAlone, WorldOK
<1>3. QED
  BY <1>1, <1>2, TypeParts, Unchanging DEF OwnOK

LEMMA BeginDecisionTyped ==
  ASSUME TypeOK, NEW c \in Coordinators,
         \/ \E p \in Plans \cup {NoPlan}, t \in Terms, x \in Principals :
              StartApprove(c, p, t, x) \/ StartDirect(c, p, t, x)
         \/ StartReject(c)
         \/ GiveUp(c)
  PROVE  OwnOK'
<1>1. CASE \E p \in Plans \cup {NoPlan}, t \in Terms, x \in Principals :
             StartApprove(c, p, t, x)
  <2>1. PICK p \in Plans \cup {NoPlan}, t \in Terms, x \in Principals :
             StartApprove(c, p, t, x)
    BY <1>1
  <2>2. [at |-> "approve", app |-> app, plan |-> p, terms |-> t, principal |-> x]
          \in CoordRequests
    BY TypeParts, CoordMakes DEF AppOK
  <2>3. QED
    BY <2>1, <2>2, StartRequestTyped DEF StartApprove
<1>2. CASE \E p \in Plans \cup {NoPlan}, t \in Terms, x \in Principals :
             StartDirect(c, p, t, x)
  <2>1. PICK p \in Plans \cup {NoPlan}, t \in Terms, x \in Principals :
             StartDirect(c, p, t, x)
    BY <1>2
  <2>. DEFINE k == [origin |-> "direct", plan |-> p, terms |-> t, principal |-> x,
                    override |-> FALSE, paid |-> FALSE]
  <2>2. k \in CreditRows
    BY DEF CreditRows
  <2>. HIDE DEF k
  <2>3. [at |-> "grant", credit |-> k] \in CoordRequests
    BY <2>2, CoordMakes
  <2>4. QED
    BY <2>1, <2>3, StartRequestTyped DEF StartDirect, k
<1>3. CASE StartReject(c)
  BY <1>3, CoordMakes, StartRequestTyped DEF StartReject
<1>4. CASE GiveUp(c)
  BY <1>4, CoordMakes, StartRequestTyped DEF GiveUp
<1>5. QED
  BY <1>1, <1>2, <1>3, <1>4

LEMMA CreditOfTyped ==
  ASSUME TypeOK, NEW r \in CoordRequests, r.at = "approve"
  PROVE  CreditOf(r) \in CreditRows
<1>1. /\ r.app \in Applications /\ r.plan \in Plans \cup {NoPlan}
      /\ r.terms \in Terms /\ r.principal \in Principals
  BY CoordOf
<1>2. CASE Negotiated(r)
  <2>1. r.app.plan \in Plans /\ r.app.plan # NoPlan /\ plan[r.app.plan] # NoPlan
    BY <1>1, <1>2, AppFields DEF Negotiated
  <2>2. r.app.principal \in Principals
    BY <1>1, <2>1, AppFields
  <2>3. plan[r.app.plan].terms \in Terms
    BY <2>1, TypeParts, PlanTyped
  <2>4. CreditOf(r) = [origin |-> "application", plan |-> r.app.plan,
                       terms |-> plan[r.app.plan].terms, principal |-> r.app.principal,
                       override |-> r.app.offer # "ACCEPTED", paid |-> FALSE]
    BY <1>2 DEF CreditOf, PrincipalOf
  <2>5. QED
    BY <2>1, <2>2, <2>3, <2>4 DEF CreditRows
<1>3. CASE ~ Negotiated(r)
  <2>1. CreditOf(r) = [origin |-> "application", plan |-> r.plan, terms |-> r.terms,
                       principal |-> r.principal,
                       override |-> r.app.offer # "ACCEPTED", paid |-> FALSE]
    BY <1>3 DEF CreditOf, PrincipalOf
  <2>2. QED
    BY <1>1, <2>1 DEF CreditRows
<1>4. QED
  BY <1>2, <1>3

LEMMA ResolveTyped ==
  ASSUME TypeOK, NEW c \in Coordinators, ResolveTerms(c)
  PROVE  OwnOK'
<1>1. coord[c] \in CoordRequests /\ coord[c].at = "approve"
      /\ coord' = [coord EXCEPT ![c] = [at |-> "grant", credit |-> CreditOf(coord[c])]]
  BY TypeParts DEF ResolveTerms, CoordOK
<1>2. CreditOf(coord[c]) \in CreditRows
  BY <1>1, CreditOfTyped
<1>3. [at |-> "grant", credit |-> CreditOf(coord[c])] \in CoordRequests
  BY <1>2, CoordMakes
<1>4. QED
  BY <1>1, <1>3, StartRequestTyped DEF ResolveTerms

\* What the transaction that grants does to its request and the lock.
LEMMA LockTyped ==
  ASSUME TypeOK, NEW c \in Coordinators, LockBorrower(c)
  PROVE  /\ OwnOK'
         /\ coord'[c].at = "commit" /\ coord'[c].credit = coord[c].credit
         /\ \A d \in Coordinators : d # c => coord'[d] = coord[d]
<1>1. CoordOK /\ coord[c] \in CoordRequests /\ coord[c].at = "grant"
  BY TypeParts DEF LockBorrower, CoordOK
<1>. DEFINE new == [coord[c] EXCEPT !.at = "commit"]
<1>2. coord' = [coord EXCEPT ![c] = new]
  BY DEF LockBorrower
<1>3. new \in CoordRequests /\ new.at = "commit" /\ new.credit = coord[c].credit
  BY <1>1, ToCommit
<1>. HIDE DEF new
<1>4. /\ CoordOK' /\ coord'[c] = new
      /\ \A d \in Coordinators : d # c => coord'[d] = coord[d]
  BY <1>1, <1>2, <1>3, CoordPut
<1>5. WorldOK'
  BY TypeParts DEF LockBorrower, WorldOK
<1>6. AppOK' /\ CreditsOK' /\ MsgOK'
  BY TypeParts, Unchanging DEF LockBorrower
<1>7. QED
  BY <1>3, <1>4, <1>5, <1>6 DEF OwnOK

\* The status of the application is all that a decision writes of it.
LEMMA StatusWritten ==
  ASSUME AppOK, NEW s \in {"APPROVED", "REJECTED"}, app' = [app EXCEPT !.status = s]
  PROVE  /\ AppOK' /\ app'.offer = app.offer /\ app'.plan = app.plan
         /\ app'.principal = app.principal
<1>1. app' = [status |-> s, offer |-> app.offer, plan |-> app.plan,
              principal |-> app.principal, expired |-> app.expired]
  BY DEF AppOK, Applications
<1>2. [status |-> s, offer |-> app.offer, plan |-> app.plan,
       principal |-> app.principal, expired |-> app.expired] \in Applications
  BY AppFields, AppMakes DEF AppOK
<1>3. QED
  BY <1>1, <1>2 DEF AppOK

LEMMA CommitTyped ==
  ASSUME TypeOK, NEW c \in Coordinators, Commit(c)
  PROVE  /\ OwnOK'
         /\ app'.offer = app.offer /\ app'.plan = app.plan
         /\ app'.principal = app.principal
<1>1. /\ CoordOK /\ CreditsOK /\ AppOK /\ WorldOK
      /\ coord[c] \in CoordRequests /\ coord[c].at = "commit"
  BY TypeParts DEF Commit, CoordOK
<1>2. coord[c].credit \in CreditRows
  BY <1>1, CoordOf
<1>3. CreditsOK'
  <2>1. credits' = Append(credits, coord[c].credit) /\ Len(credits) < MaxCredits
    BY DEF Commit
  <2>2. QED
    BY <1>1, <1>2, <2>1, OriginationAssumption DEF CreditsOK
<1>4. CoordOK'
  BY <1>1, CoordMakes, CoordPut DEF Commit
<1>5. WorldOK'
  BY <1>1 DEF Commit, WorldOK
<1>6. MsgOK'
  BY TypeParts, Unchanging DEF Commit
<1>7. /\ AppOK' /\ app'.offer = app.offer /\ app'.plan = app.plan
      /\ app'.principal = app.principal
  BY <1>1, StatusWritten, Unchanging DEF Commit
<1>8. QED
  BY <1>3, <1>4, <1>5, <1>6, <1>7 DEF OwnOK

LEMMA EndTyped ==
  ASSUME TypeOK, NEW c \in Coordinators, Rollback(c) \/ Reject(c)
  PROVE  /\ OwnOK'
         /\ app'.offer = app.offer /\ app'.plan = app.plan
         /\ app'.principal = app.principal
<1>1. CoordOK /\ AppOK /\ WorldOK
  BY TypeParts
<1>2. coord' = [coord EXCEPT ![c] = Free]
  BY DEF Rollback, Reject
<1>3. CoordOK'
  BY <1>1, <1>2, CoordMakes, CoordPut
<1>4. WorldOK'
  BY <1>1 DEF Rollback, Reject, WorldOK
<1>5. CreditsOK' /\ MsgOK'
  BY TypeParts, Unchanging DEF Rollback, Reject
<1>6. /\ AppOK' /\ app'.offer = app.offer /\ app'.plan = app.plan
      /\ app'.principal = app.principal
  BY <1>1, StatusWritten, Unchanging DEF Rollback, Reject
<1>7. QED
  BY <1>3, <1>4, <1>5, <1>6 DEF OwnOK

\* A credit that is paid is the same credit.
LEMMA PayOffTyped ==
  ASSUME TypeOK, NEW i \in DOMAIN credits, PayOff(i)
  PROVE  /\ OwnOK'
         /\ DOMAIN credits' = DOMAIN credits /\ Len(credits') = Len(credits)
         /\ credits'[i].paid
         /\ \A j \in DOMAIN credits : j # i => credits'[j] = credits[j]
         /\ \A j \in DOMAIN credits :
              /\ credits'[j] \in CreditRows /\ credits[j] \in CreditRows
              /\ credits'[j].origin = credits[j].origin
              /\ credits'[j].override = credits[j].override
              /\ credits'[j].plan = credits[j].plan
              /\ credits'[j].terms = credits[j].terms
              /\ credits'[j].principal = credits[j].principal
<1>1. CreditsOK /\ credits' = [credits EXCEPT ![i] = [credits[i] EXCEPT !.paid = TRUE]]
  BY TypeParts DEF PayOff
<1>2. PICK k \in CreditRows : k = credits[i]
  BY <1>1 DEF CreditsOK
<1>. DEFINE new == [origin |-> k.origin, plan |-> k.plan, terms |-> k.terms,
                    principal |-> k.principal, override |-> k.override, paid |-> TRUE]
<1>3. [k EXCEPT !.paid = TRUE] = new
  <2>1. PICK old : old = [k EXCEPT !.paid = TRUE]
    OBVIOUS
  <2>2. old \in [{"origin", "plan", "terms", "principal", "override", "paid"} ->
                 {k.origin, k.plan, k.terms, k.principal, k.override, TRUE}]
    BY <2>1 DEF CreditRows
  <2>3. /\ old.origin = k.origin /\ old.plan = k.plan /\ old.terms = k.terms
        /\ old.principal = k.principal /\ old.override = k.override /\ old.paid = TRUE
    BY <2>1 DEF CreditRows
  <2>4. QED
    BY <2>1, <2>2, <2>3
<1>4. credits' = [credits EXCEPT ![i] = new]
  BY <1>1, <1>2, <1>3
<1>5. /\ new.paid /\ new.origin = k.origin /\ new.plan = k.plan /\ new.terms = k.terms
      /\ new.principal = k.principal /\ new.override = k.override
  OBVIOUS
<1>6. new \in CreditRows
  BY DEF CreditRows
<1>. HIDE DEF new
<1>7. credits \in Seq(CreditRows) /\ Len(credits) <= MaxCredits
  BY <1>1 DEF CreditsOK
<1>8. /\ credits' \in Seq(CreditRows) /\ Len(credits') = Len(credits)
      /\ DOMAIN credits' = DOMAIN credits
  <2>1. i \in 1 .. Len(credits) /\ DOMAIN credits = 1 .. Len(credits)
    BY <1>7, LenProperties
  <2>2. credits' \in Seq(CreditRows) /\ Len(credits') = Len(credits)
    BY <1>4, <1>6, <1>7, <2>1, ExceptSeq
  <2>3. DOMAIN credits' = 1 .. Len(credits')
    BY <2>2, LenProperties
  <2>4. QED
    BY <2>1, <2>2, <2>3
<1>9. /\ credits'[i] = new
      /\ \A j \in DOMAIN credits : j # i => credits'[j] = credits[j]
  BY <1>4, <1>7
<1>10. CreditsOK'
  BY <1>7, <1>8 DEF CreditsOK
<1>11. AppOK' /\ WorldOK' /\ CoordOK' /\ MsgOK'
  BY TypeParts, Unchanging DEF PayOff
<1>12. ASSUME NEW j \in DOMAIN credits
       PROVE  /\ credits'[j] \in CreditRows /\ credits[j] \in CreditRows
              /\ credits'[j].origin = credits[j].origin
              /\ credits'[j].override = credits[j].override
              /\ credits'[j].plan = credits[j].plan
              /\ credits'[j].terms = credits[j].terms
              /\ credits'[j].principal = credits[j].principal
  <2>1. credits[j] \in CreditRows
    BY <1>7
  <2>2. CASE j = i
    BY <1>2, <1>5, <1>6, <1>9, <2>1, <2>2
  <2>3. CASE j # i
    BY <1>9, <2>1, <2>3
  <2>4. QED
    BY <2>2, <2>3
<1>13. QED
  BY <1>5, <1>8, <1>9, <1>10, <1>11, <1>12 DEF OwnOK

LEMMA SetBlockedTyped ==
  ASSUME TypeOK, NEW b \in BOOLEAN, SetBlocked(b)
  PROVE  OwnOK'
<1>1. WorldOK'
  BY TypeParts DEF SetBlocked, WorldOK
<1>2. AppOK' /\ CreditsOK' /\ CoordOK' /\ MsgOK'
  BY TypeParts, Unchanging DEF SetBlocked
<1>3. QED
  BY <1>1, <1>2 DEF OwnOK

LEMMA EditTyped ==
  ASSUME TypeOK, EditPlans
  PROVE  OwnOK'
<1>1. WorldOK'
  BY TypeParts DEF EditPlans, WorldOK
<1>2. AppOK' /\ CreditsOK' /\ CoordOK' /\ MsgOK'
  BY TypeParts, Unchanging DEF EditPlans
<1>3. QED
  BY <1>1, <1>2 DEF OwnOK

-----------------------------------------------------------------------------
(* Every step keeps the types, the plans, and that an offer is not taken    *)
(* back.                                                                    *)

GroundInv == PlansInv /\ TypeOK /\ ServedIsOffered

LEMMA OfferStays ==
  ASSUME ServedIsOffered,
         app'.offer # "NOT_OFFERED"
           \/ (app'.offer = app.offer /\ \A m \in Messages : Busy(m)' => Busy(m))
  PROVE  ServedIsOffered'
  BY DEF ServedIsOffered

LEMMA MessagesStay ==
  ASSUME msg' = msg
  PROVE  \A m \in Messages : Busy(m)' => Busy(m)
  BY DEF Busy

LEMMA MessageEnds ==
  ASSUME MsgOK, NEW m \in Messages, To(m, "done"), msg[m].at # "unsaid"
  PROVE  \A n \in Messages : Busy(n)' => Busy(n)
<1>1. /\ msg'[m].at = "done"
      /\ \A n \in Messages : n # m => msg'[n] = msg[n]
  BY Moved
<1>2. QED
  BY <1>1 DEF Busy

LEMMA MarkOffers ==
  ASSUME TypeOK, NEW c \in Coordinators, MarkOffered(c)
  PROVE  /\ app'.offer \in {"AWAITING_SELECTION", "AWAITING_ACCEPTANCE"}
         /\ app.offer # "ACCEPTED" \/ coord[c].seen # app.offer
<1>1. app \in Applications
  BY TypeParts DEF AppOK
<1>2. app'.offer \in {"AWAITING_SELECTION", "AWAITING_ACCEPTANCE"}
  BY <1>1 DEF MarkOffered, Applications
<1>3. QED
  BY <1>2 DEF MarkOffered, MayOffer

LEMMA TypeNext ==
  ASSUME PlansTypeOK', OwnOK'
  PROVE  TypeOK'
  BY DEF TypeOK, OwnOK, AppOK, WorldOK, CreditsOK, CoordOK, MsgOK

LEMMA NegotiateGround ==
  ASSUME GroundInv, Negotiate
  PROVE  OwnOK' /\ ServedIsOffered' /\ UNCHANGED planVars
<1>. USE DEF GroundInv
<1>0. MsgOK /\ app \in Applications
  BY TypeParts DEF AppOK
<1>1. ASSUME NEW c \in Coordinators, NEW x \in Principals, StartOffer(c, x)
      PROVE  OwnOK' /\ ServedIsOffered' /\ UNCHANGED planVars
  <2>1. app' = app /\ msg' = msg /\ UNCHANGED planVars
    BY <1>1 DEF StartOffer
  <2>2. QED
    BY <1>1, <2>1, StartOfferTyped, OfferStays, MessagesStay
<1>2. ASSUME NEW c \in Coordinators, MarkOffered(c)
      PROVE  OwnOK' /\ ServedIsOffered' /\ UNCHANGED planVars
  <2>1. UNCHANGED planVars
    BY <1>2 DEF MarkOffered
  <2>2. app'.offer # "NOT_OFFERED"
    BY <1>2, MarkOffers
  <2>3. QED
    BY <1>2, <2>1, <2>2, MarkOfferedTyped, OfferStays
<1>3. ASSUME NEW c \in Coordinators, SendOffer(c)
      PROVE  OwnOK' /\ ServedIsOffered' /\ UNCHANGED planVars
  <2>1. app' = app /\ msg' = msg /\ UNCHANGED planVars
    BY <1>3 DEF SendOffer
  <2>2. QED
    BY <1>3, <2>1, SendOfferTyped, OfferStays, MessagesStay
<1>4. ASSUME Expire
      PROVE  OwnOK' /\ ServedIsOffered' /\ UNCHANGED planVars
  <2>1. msg' = msg /\ UNCHANGED planVars
    BY <1>4 DEF Expire
  <2>2. QED
    BY <1>4, <2>1, ExpireTyped, OfferStays, MessagesStay
<1>5. ASSUME NEW m \in Messages, NEW y \in Answers, Say(m, y)
      PROVE  OwnOK' /\ ServedIsOffered' /\ UNCHANGED planVars
  <2>1. /\ app' = app /\ UNCHANGED planVars
        /\ msg' = [msg EXCEPT ![m] = [at |-> "sent", about |-> shown, answer |-> y]]
    BY <1>5 DEF Say
  <2>2. \A n \in Messages : Busy(n)' => Busy(n)
    BY <1>0, <2>1 DEF MsgOK, Busy
  <2>3. QED
    BY <1>5, <2>1, <2>2, SayTyped, OfferStays
<1>6. ASSUME NEW m \in Messages, Serve(m)
      PROVE  OwnOK' /\ ServedIsOffered' /\ UNCHANGED planVars
  <2>1. app' = app /\ UNCHANGED planVars
    BY <1>6 DEF Serve
  <2>2. app.offer # "NOT_OFFERED" \/ To(m, "done")
    BY <1>6 DEF Serve
  <2>3. msg[m].at # "unsaid"
    BY <1>6 DEF Serve
  <2>4. ServedIsOffered'
    BY <1>0, <2>1, <2>2, <2>3, OfferStays, MessageEnds
  <2>5. QED
    BY <1>6, <2>1, <2>4, ServeTyped
<1>7. ASSUME NEW m \in Messages, Choose(m)
      PROVE  OwnOK' /\ ServedIsOffered' /\ UNCHANGED planVars
  <2>1. UNCHANGED planVars
    BY <1>7 DEF Choose
  <2>2. app.offer # "NOT_OFFERED"
    BY <1>7 DEF Choose, ServedIsOffered, Busy
  <2>3. app'.offer # "NOT_OFFERED"
    BY <1>0, <1>7, <2>2, ChooseDoes DEF Applications
  <2>4. QED
    BY <1>7, <2>1, <2>3, ChooseTyped, OfferStays
<1>8. ASSUME NEW m \in Messages, SendSchedule(m)
      PROVE  OwnOK' /\ ServedIsOffered' /\ UNCHANGED planVars
  <2>1. app' = app /\ UNCHANGED planVars /\ To(m, "done") /\ msg[m].at # "unsaid"
    BY <1>8 DEF SendSchedule
  <2>2. QED
    BY <1>0, <1>8, <2>1, SendScheduleTyped, OfferStays, MessageEnds
<1>9. ASSUME NEW m \in Messages, Answer(m)
      PROVE  OwnOK' /\ ServedIsOffered' /\ UNCHANGED planVars
  <2>1. UNCHANGED planVars
    BY <1>9 DEF Answer
  <2>2. app.offer # "NOT_OFFERED"
    BY <1>9 DEF Answer, ServedIsOffered, Busy
  <2>3. app'.offer # "NOT_OFFERED"
    BY <1>0, <1>9, <2>2 DEF Answer, Applications
  <2>4. QED
    BY <1>9, <2>1, <2>3, AnswerTyped, OfferStays
<1>10. QED
  BY <1>1, <1>2, <1>3, <1>4, <1>5, <1>6, <1>7, <1>8, <1>9 DEF Negotiate

LEMMA DecideGround ==
  ASSUME GroundInv, Decide
  PROVE  OwnOK' /\ ServedIsOffered' /\ UNCHANGED planVars
<1>. USE DEF GroundInv
<1>1. UNCHANGED <<planVars, msg>>
  BY DEF Decide, StartApprove, StartDirect, ResolveTerms, LockBorrower, Commit, Rollback,
         StartReject, Reject, GiveUp
<1>2. ASSUME NEW c \in Coordinators,
             \/ \E p \in Plans \cup {NoPlan}, t \in Terms, x \in Principals :
                  StartApprove(c, p, t, x) \/ StartDirect(c, p, t, x)
             \/ StartReject(c)
             \/ GiveUp(c)
      PROVE  OwnOK' /\ app'.offer = app.offer
  <2>1. app' = app
    BY <1>2 DEF StartApprove, StartDirect, StartReject, GiveUp
  <2>2. QED
    BY <1>2, <2>1, BeginDecisionTyped
<1>3. ASSUME NEW c \in Coordinators, ResolveTerms(c)
      PROVE  OwnOK' /\ app'.offer = app.offer
  BY <1>3, ResolveTyped DEF ResolveTerms
<1>4. ASSUME NEW c \in Coordinators, LockBorrower(c)
      PROVE  OwnOK' /\ app'.offer = app.offer
  BY <1>4, LockTyped DEF LockBorrower
<1>5. ASSUME NEW c \in Coordinators, Commit(c) \/ Rollback(c) \/ Reject(c)
      PROVE  OwnOK' /\ app'.offer = app.offer
  BY <1>5, CommitTyped, EndTyped
<1>6. OwnOK' /\ app'.offer = app.offer
  BY <1>2, <1>3, <1>4, <1>5 DEF Decide
<1>7. QED
  BY <1>1, <1>6, OfferStays, MessagesStay

LEMMA GroundBegins ==
  ASSUME Init
  PROVE  GroundInv
<1>1. PlansInv /\ PlansTypeOK
  BY PlansBegin DEF Init, PlansInv, PlansSafe
<1>2. AppOK
  <2>1. app = [status |-> "IN_REVIEW", offer |-> "NOT_OFFERED", plan |-> NoPlan,
               principal |-> 0, expired |-> FALSE]
    BY DEF Init, OwnInit
  <2>2. "NOT_OFFERED" \in Offers
    BY DEF Offers
  <2>3. QED
    BY <2>1, <2>2, AppMakes DEF AppOK
<1>3. WorldOK
  BY ShownMakes DEF Init, OwnInit, WorldOK
<1>4. CreditsOK
  BY OriginationAssumption DEF Init, OwnInit, CreditsOK
<1>5. CoordOK
  BY CoordMakes DEF Init, OwnInit, CoordOK
<1>6. MsgOK
  <2>1. [at |-> "unsaid", about |-> Nothing] \in MessageStates
    BY DEF MessageStates
  <2>2. QED
    BY <2>1 DEF Init, OwnInit, MsgOK
<1>7. ServedIsOffered
  BY DEF Init, OwnInit, ServedIsOffered, Busy
<1>8. QED
  BY <1>1, <1>2, <1>3, <1>4, <1>5, <1>6, <1>7, TypeParts DEF GroundInv

LEMMA GroundKeeps ==
  ASSUME GroundInv, [Next]_vars
  PROVE  GroundInv'
<1>. USE DEF GroundInv
<1>1. CASE EditPlans
  <2>1. PlansInv'
    BY <1>1, PlansNextKeeps DEF EditPlans
  <2>2. OwnOK'
    BY <1>1, EditTyped
  <2>3. ServedIsOffered'
    BY <1>1, OfferStays, MessagesStay DEF EditPlans
  <2>4. QED
    BY <2>1, <2>2, <2>3, TypeNext DEF PlansInv, PlansSafe
<1>2. ASSUME UNCHANGED planVars, OwnOK', ServedIsOffered'
      PROVE  GroundInv'
  <2>1. PlansInv'
    BY <1>2, PlansStutter
  <2>2. QED
    BY <1>2, <2>1, TypeNext DEF PlansInv, PlansSafe
<1>3. CASE Negotiate
  BY <1>2, <1>3, NegotiateGround
<1>4. CASE Decide
  BY <1>2, <1>4, DecideGround
<1>5. ASSUME NEW i \in DOMAIN credits, PayOff(i)
      PROVE  GroundInv'
  <2>1. UNCHANGED <<planVars, app, msg>>
    BY <1>5 DEF PayOff
  <2>2. OwnOK'
    BY <1>5, PayOffTyped
  <2>3. QED
    BY <1>2, <2>1, <2>2, OfferStays, MessagesStay
<1>6. ASSUME NEW b \in BOOLEAN, SetBlocked(b)
      PROVE  GroundInv'
  <2>1. UNCHANGED <<planVars, app, msg>>
    BY <1>6 DEF SetBlocked
  <2>2. OwnOK'
    BY <1>6, SetBlockedTyped
  <2>3. QED
    BY <1>2, <2>1, <2>2, OfferStays, MessagesStay
<1>7. CASE UNCHANGED vars
  <2>1. UNCHANGED <<planVars, app, msg, settings, borrower, credits, coord, locked, shown,
                    agreed, calm>>
    BY <1>7 DEF vars, ownVars
  <2>2. OwnOK'
    BY <2>1, TypeParts, Unchanging DEF OwnOK
  <2>3. QED
    BY <1>2, <2>1, <2>2, OfferStays, MessagesStay
<1>8. QED
  BY <1>1, <1>3, <1>4, <1>5, <1>6, <1>7 DEF Next

-----------------------------------------------------------------------------
(* The lock of the borrower's row.                                          *)

LEMMA LockLeft ==
  ASSUME LockInv, UNCHANGED <<locked, borrower, credits>>,
         \A c \in Coordinators : coord'[c].at = "commit" => coord'[c] = coord[c]
  PROVE  LockInv'
  BY DEF LockInv, CanReceive, Outstanding, AmountDue

LEMMA LockEmpty ==
  ASSUME \A c \in Coordinators : coord'[c].at # "commit"
  PROVE  LockInv'
  BY DEF LockInv

\* A request moved to a place that is not the commit.
LEMMA LockAside ==
  ASSUME LockInv, CoordOK, UNCHANGED <<locked, borrower, credits>>,
         NEW c \in Coordinators, NEW r \in CoordRequests, r.at # "commit",
         coord' = [coord EXCEPT ![c] = r]
  PROVE  LockInv'
  BY CoordPut, LockLeft

LEMMA NoneAtCommit ==
  ASSUME LockInv, locked = NoOne
  PROVE  \A c \in Coordinators : coord[c].at # "commit"
  BY OriginationAssumption DEF LockInv

LEMMA OnlyHolder ==
  ASSUME LockInv, NEW c \in Coordinators, coord[c].at = "commit", CoordOK,
         coord' = [coord EXCEPT ![c] = Free]
  PROVE  \A d \in Coordinators : coord'[d].at # "commit"
<1>1. /\ coord'[c] = Free
      /\ \A d \in Coordinators : d # c => coord'[d] = coord[d]
  BY CoordMakes, CoordPut
<1>2. Free.at # "commit"
  BY DEF Free
<1>3. QED
  BY <1>1, <1>2 DEF LockInv

LEMMA CreditAmounts ==
  ASSUME NEW k \in CreditRows
  PROVE  k.principal \in Nat /\ k.terms \in Nat
<1>1. k.principal \in Principals /\ k.terms \in Terms
  BY DEF CreditRows
<1>2. QED
  BY <1>1, PlansAssumption, OriginationAssumption

\* What is owed only falls when a credit is paid.
LEMMA PaymentLowers ==
  ASSUME TypeOK, NEW i \in DOMAIN credits, PayOff(i)
  PROVE  /\ Outstanding \in Int /\ Outstanding' \in Int
         /\ Outstanding' <= Outstanding
<1>. DEFINE due(k) == IF k.paid THEN 0 ELSE AmountDue(k)
            S == DOMAIN credits
            old == [j \in DOMAIN credits |-> due(credits[j])]
            new == [j \in DOMAIN credits' |-> due(credits'[j])]
<1>1. \A k \in CreditRows : due(k) \in Int /\ due(k) >= 0
  <2>1. SUFFICES ASSUME NEW k \in CreditRows
                 PROVE  due(k) \in Int /\ due(k) >= 0
    OBVIOUS
  <2>2. k.principal \in Nat /\ k.terms \in Nat
    BY CreditAmounts
  <2>3. AmountDue(k) \in Int /\ AmountDue(k) >= 0
    BY <2>2 DEF AmountDue
  <2>4. QED
    BY <2>3
<1>2. credits \in Seq(CreditRows) /\ IsFiniteSet(S)
  <2>1. credits \in Seq(CreditRows)
    BY TypeParts DEF CreditsOK
  <2>2. S = 1 .. Len(credits) /\ Len(credits) \in Nat
    BY <2>1, LenProperties
  <2>3. QED
    BY <2>1, <2>2, FS_Interval
<1>3. /\ DOMAIN credits' = S
      /\ \A j \in S : credits[j] \in CreditRows /\ credits'[j] \in CreditRows
      /\ \A j \in S : j # i => credits'[j] = credits[j]
      /\ credits'[i].paid
  BY PayOffTyped
<1>4. \A j \in S : new[j] \in Int /\ old[j] \in Int /\ new[j] <= old[j]
  <2>1. SUFFICES ASSUME NEW j \in S
                 PROVE  new[j] \in Int /\ old[j] \in Int /\ new[j] <= old[j]
    OBVIOUS
  <2>2. new[j] = due(credits'[j]) /\ old[j] = due(credits[j])
    BY <1>3
  <2>3. due(credits[j]) \in Int /\ due(credits[j]) >= 0
    BY <1>1, <1>3
  <2>4. CASE j = i
    <3>1. due(credits'[j]) = 0
      BY <1>3, <2>4
    <3>2. QED
      BY <2>2, <2>3, <3>1
  <2>5. CASE j # i
    <3>1. credits'[j] = credits[j]
      BY <1>3, <2>5
    <3>2. QED
      BY <2>2, <2>3, <3>1
  <2>6. QED
    BY <2>4, <2>5
<1>5. Outstanding = SumOver(old, S) /\ Outstanding' = SumOver(new, DOMAIN credits')
  BY DEF Outstanding, AmountDue
<1>. HIDE DEF old, new
<1>6. /\ SumOver(new, S) \in Int /\ SumOver(old, S) \in Int
      /\ SumOver(new, S) <= SumOver(old, S)
  BY <1>2, <1>4, SumAtMost
<1>7. QED
  BY <1>3, <1>5, <1>6

LEMMA LockKeeps ==
  ASSUME GroundInv, LockInv, [Next]_vars
  PROVE  LockInv'
<1>0. TypeOK /\ CoordOK /\ WorldOK
  BY TypeParts DEF GroundInv
<1>1. ASSUME NEW c \in Coordinators,
             \/ \E x \in Principals : StartOffer(c, x)
             \/ MarkOffered(c) \/ SendOffer(c)
      PROVE  LockInv'
  <2>1. UNCHANGED <<locked, borrower, credits>>
    BY <1>1 DEF StartOffer, MarkOffered, SendOffer
  <2>2. \A d \in Coordinators : coord'[d].at = "commit" => coord'[d] = coord[d]
    <3>1. CASE \E x \in Principals : StartOffer(c, x)
      BY <1>0, <3>1 DEF StartOffer, CoordOK
    <3>2. CASE MarkOffered(c)
      <4>1. PICK content : coord' = [coord EXCEPT ![c] = [at |-> "offered",
                                                          send |-> content]]
        BY <3>2 DEF MarkOffered
      <4>2. QED
        BY <1>0, <4>1 DEF CoordOK
    <3>3. CASE SendOffer(c)
      BY <1>0, <3>3 DEF SendOffer, Free, CoordOK
    <3>4. QED
      BY <1>1, <3>1, <3>2, <3>3
  <2>3. QED
    BY <2>1, <2>2, LockLeft
<1>2. CASE /\ UNCHANGED <<locked, borrower, credits, coord>>
  BY <1>2, LockLeft
<1>3. ASSUME NEW c \in Coordinators,
             \/ \E p \in Plans \cup {NoPlan}, t \in Terms, x \in Principals :
                  StartApprove(c, p, t, x) \/ StartDirect(c, p, t, x)
             \/ ResolveTerms(c)
             \/ StartReject(c) \/ Reject(c) \/ GiveUp(c)
      PROVE  LockInv'
  <2>1. UNCHANGED <<locked, borrower, credits>>
    BY <1>3 DEF StartApprove, StartDirect, ResolveTerms, StartReject, Reject, GiveUp
  <2>2. PICK r : coord' = [coord EXCEPT ![c] = r] /\ r.at # "commit"
    BY <1>3 DEF StartApprove, StartDirect, ResolveTerms, StartReject, Reject, GiveUp, Free
  <2>3. \A d \in Coordinators : coord'[d].at = "commit" => coord'[d] = coord[d]
    BY <1>0, <2>2 DEF CoordOK
  <2>4. QED
    BY <2>1, <2>3, LockLeft
<1>4. ASSUME NEW c \in Coordinators, LockBorrower(c)
      PROVE  LockInv'
  <2>1. /\ locked = NoOne /\ locked' = c /\ borrower' = borrower /\ credits' = credits
        /\ CanReceive(coord[c].credit.principal)
    BY <1>4 DEF LockBorrower, RowFree
  <2>2. /\ coord'[c].credit = coord[c].credit
        /\ \A d \in Coordinators : d # c => coord'[d] = coord[d]
    BY <1>0, <1>4, LockTyped
  <2>3. \A d \in Coordinators : coord[d].at # "commit"
    BY <2>1, NoneAtCommit
  <2>4. CanReceive(coord[c].credit.principal)'
    BY <2>1, <2>2 DEF CanReceive, Outstanding, AmountDue
  <2>5. QED
    BY <2>1, <2>2, <2>3, <2>4 DEF LockInv
<1>5. ASSUME NEW c \in Coordinators, Commit(c) \/ Rollback(c)
      PROVE  LockInv'
  <2>1. coord[c].at = "commit" /\ coord' = [coord EXCEPT ![c] = Free]
    BY <1>5 DEF Commit, Rollback
  <2>2. \A d \in Coordinators : coord'[d].at # "commit"
    BY <1>0, <2>1, OnlyHolder
  <2>3. QED
    BY <2>2, LockEmpty
<1>6. ASSUME NEW i \in DOMAIN credits, PayOff(i)
      PROVE  LockInv'
  <2>1. UNCHANGED <<locked, coord, borrower>>
    BY <1>6 DEF PayOff
  <2>2. Outstanding \in Int /\ Outstanding' \in Int /\ Outstanding' <= Outstanding
    BY <1>0, <1>6, PaymentLowers
  <2>3. ASSUME NEW c \in Coordinators, coord[c].at = "commit",
               CanReceive(coord[c].credit.principal)
        PROVE  CanReceive(coord[c].credit.principal)'
    <3>1. coord[c].credit \in CreditRows
      BY <1>0, <2>3, CoordOf DEF CoordOK
    <3>2. PICK x \in Int : x = coord[c].credit.principal
      BY <3>1, CreditAmounts
    <3>3. borrower.limit \in Int
      BY <1>0, OriginationAssumption DEF WorldOK
    <3>4. ~borrower.blocked /\ (borrower.limit > 0 => Outstanding + x <= borrower.limit)
      BY <2>3, <3>2 DEF CanReceive
    <3>5. borrower.limit > 0 => Outstanding' + x <= borrower.limit
      BY <2>2, <3>3, <3>4
    <3>6. QED
      BY <2>1, <3>2, <3>4, <3>5 DEF CanReceive
  <2>4. QED
    BY <2>1, <2>3 DEF LockInv
<1>7. ASSUME NEW b \in BOOLEAN, SetBlocked(b)
      PROVE  LockInv'
  <2>1. locked = NoOne /\ coord' = coord
    BY <1>7 DEF SetBlocked
  <2>2. \A d \in Coordinators : coord'[d].at # "commit"
    BY <2>1, NoneAtCommit
  <2>3. QED
    BY <2>2, LockEmpty
<1>8. ASSUME NEW m \in Messages,
             \/ \E y \in Answers : Say(m, y)
             \/ Serve(m) \/ Choose(m) \/ SendSchedule(m) \/ Answer(m)
      PROVE  LockInv'
  <2>1. UNCHANGED <<locked, borrower, credits, coord>>
    BY <1>8 DEF Say, Serve, Choose, SendSchedule, Answer
  <2>2. QED
    BY <1>2, <2>1
<1>9. CASE Expire \/ EditPlans \/ UNCHANGED vars
  <2>1. UNCHANGED <<locked, borrower, credits, coord>>
    BY <1>9 DEF Expire, EditPlans, vars, ownVars
  <2>2. QED
    BY <1>2, <2>1
<1>10. CASE Negotiate
  BY <1>1, <1>8, <1>9, <1>10 DEF Negotiate
<1>11. CASE Decide
  BY <1>3, <1>4, <1>5, <1>11 DEF Decide
<1>12. QED
  BY <1>6, <1>7, <1>9, <1>10, <1>11 DEF Next

LEMMA LockBegins ==
  ASSUME Init
  PROVE  LockInv
  BY DEF Init, OwnInit, LockInv, Free

\* Only a commit grants, and it grants what it checked under the lock.
LEMMA GrantIsChecked ==
  ASSUME TypeOK, LockInv, [Next]_vars, Len(credits') > Len(credits)
  PROVE  CanReceive(credits'[Len(credits')].principal)
<1>0. credits \in Seq(CreditRows) /\ CoordOK /\ Len(credits) \in Nat
  BY TypeParts, LenProperties DEF CreditsOK
<1>1. credits' # credits
  BY <1>0
<1>2. ASSUME NEW i \in DOMAIN credits, PayOff(i)
      PROVE  FALSE
  <2>1. Len(credits') = Len(credits)
    BY <1>2, PayOffTyped
  <2>2. QED
    BY <1>0, <2>1
<1>3. PICK c \in Coordinators : Commit(c)
  BY <1>1, <1>2
     DEF Next, Negotiate, Decide, EditPlans, SetBlocked, StartOffer, MarkOffered, SendOffer,
         Expire, Say, Serve, Choose, SendSchedule, Answer, StartApprove, StartDirect,
         ResolveTerms, LockBorrower, Rollback, StartReject, Reject, GiveUp, vars, ownVars
<1>4. coord[c] \in CoordRequests /\ coord[c].at = "commit"
  BY <1>0, <1>3 DEF CoordOK, Commit
<1>5. PICK k \in CreditRows : k = coord[c].credit
  BY <1>4, CoordOf
<1>6. credits' = Append(credits, k)
  BY <1>3, <1>5 DEF Commit
<1>7. credits'[Len(credits')] = k
  BY <1>0, <1>6, AppendProperties
<1>8. CanReceive(k.principal)
  BY <1>4, <1>5 DEF LockInv
<1>9. QED
  BY <1>7, <1>8

-----------------------------------------------------------------------------
(* While nothing overtakes anything: what each request read is still so.    *)

RequestsCurrent == \A c \in Coordinators : RequestCurrent(coord[c])
MessagesCurrent == \A m \in Messages : MessageCurrent(msg[m])
CalmParts ==
  OneAtATime /\ RequestsCurrent /\ MessagesCurrent /\ OfferStands /\ CreditsAccepted

\* The offer is the same after the step.
SameOffer ==
  /\ app'.offer = app.offer /\ app'.plan = app.plan /\ app'.principal = app.principal
  /\ plan' = plan /\ agreed' = agreed

Alone(c) ==
  /\ \A d \in Coordinators : d # c => coord[d] = Free
  /\ \A m \in Messages : ~Busy(m)

Served(m) ==
  /\ \A d \in Coordinators : coord[d] = Free
  /\ \A n \in Messages : n # m => ~Busy(n)

LEMMA CalmIs == CalmInv <=> (calm => CalmParts)
  BY DEF CalmInv, CalmParts, RequestsCurrent, MessagesCurrent

LEMMA SameMeans ==
  ASSUME SameOffer
  PROVE  /\ \A x : AboutToSend(x)' <=> AboutToSend(x)
         /\ \A x : StandingIs(x)' <=> StandingIs(x)
         /\ \A k : Accepted(k)' <=> Accepted(k)
  BY DEF SameOffer, AboutToSend, StandingIs, Standing, Accepted

LEMMA SameRequests ==
  ASSUME SameOffer, NEW c, coord'[c] = coord[c], RequestCurrent(coord[c])
  PROVE  RequestCurrent(coord[c])'
<1>1. PICK r : r = coord[c]
  OBVIOUS
<1>2. RequestCurrent(r)'
  BY <1>1, SameMeans DEF RequestCurrent, SameOffer
<1>3. QED
  BY <1>1, <1>2

LEMMA FreeIsCurrent ==
  ASSUME NEW c, coord'[c] = Free
  PROVE  RequestCurrent(coord[c])'
  BY DEF RequestCurrent, Free

LEMMA IdleIsCurrent ==
  ASSUME NEW m, ~Busy(m)'
  PROVE  MessageCurrent(msg[m])'
  BY DEF Busy, MessageCurrent

LEMMA RequestAlone ==
  ASSUME OneAtATime, CoordOK, NEW c \in Coordinators, coord[c].at # "idle"
  PROVE  Alone(c)
<1>1. coord[c] # Free
  BY DEF Free
<1>2. QED
  BY <1>1 DEF OneAtATime, Alone

LEMMA MessageAlone ==
  ASSUME OneAtATime, NEW m \in Messages, Busy(m)
  PROVE  Served(m)
  BY DEF OneAtATime, Served

LEMMA NothingInFlight ==
  ASSUME ~InFlight
  PROVE  /\ \A d \in Coordinators : coord[d] = Free
         /\ \A n \in Messages : ~Busy(n)
  BY DEF InFlight, Busy

\* A request of a coordinator moves, and it is the only one.
LEMMA RequestMoves ==
  ASSUME NEW c \in Coordinators, Alone(c), msg' = msg,
         \A d \in Coordinators : d # c => coord'[d] = coord[d],
         RequestCurrent(coord[c])'
  PROVE  OneAtATime' /\ RequestsCurrent' /\ MessagesCurrent'
<1>1. /\ \A d \in Coordinators : d # c => coord'[d] = Free
      /\ \A m \in Messages : ~Busy(m)'
  BY DEF Alone, Busy
<1>2. OneAtATime'
  BY <1>1 DEF OneAtATime
<1>3. RequestsCurrent'
  <2>1. ASSUME NEW d \in Coordinators PROVE RequestCurrent(coord[d])'
    BY <1>1, FreeIsCurrent
  <2>2. QED
    BY <2>1 DEF RequestsCurrent
<1>4. MessagesCurrent'
  <2>1. ASSUME NEW m \in Messages PROVE MessageCurrent(msg[m])'
    BY <1>1, IdleIsCurrent
  <2>2. QED
    BY <2>1 DEF MessagesCurrent
<1>5. QED
  BY <1>2, <1>3, <1>4

\* The handler of a message moves, and it is the only one.
LEMMA MessageAdvances ==
  ASSUME NEW m \in Messages, Served(m), coord' = coord,
         \A n \in Messages : n # m => msg'[n] = msg[n],
         MessageCurrent(msg[m])'
  PROVE  OneAtATime' /\ RequestsCurrent' /\ MessagesCurrent'
<1>1. /\ \A d \in Coordinators : coord'[d] = Free
      /\ \A n \in Messages : n # m => ~Busy(n)'
  BY DEF Served, Busy
<1>2. OneAtATime'
  BY <1>1 DEF OneAtATime
<1>3. RequestsCurrent'
  <2>1. ASSUME NEW d \in Coordinators PROVE RequestCurrent(coord[d])'
    BY <1>1, FreeIsCurrent
  <2>2. QED
    BY <2>1 DEF RequestsCurrent
<1>4. MessagesCurrent'
  <2>1. ASSUME NEW n \in Messages PROVE MessageCurrent(msg[n])'
    BY <1>1, IdleIsCurrent
  <2>2. QED
    BY <2>1 DEF MessagesCurrent
<1>5. QED
  BY <1>2, <1>3, <1>4

\* Nothing of the offer, the requests and the messages changes.
LEMMA NothingMoves ==
  ASSUME CalmParts, SameOffer, UNCHANGED <<coord, shown>>,
         \A m \in Messages : msg'[m] = msg[m] \/ (~Busy(m) /\ ~Busy(m)')
  PROVE  OneAtATime' /\ RequestsCurrent' /\ MessagesCurrent' /\ OfferStands'
<1>1. \A m \in Messages : Busy(m)' <=> Busy(m)
  BY DEF Busy
<1>2. OneAtATime'
  BY <1>1 DEF OneAtATime, CalmParts
<1>3. RequestsCurrent'
  <2>1. ASSUME NEW c \in Coordinators PROVE RequestCurrent(coord[c])'
    BY SameRequests DEF RequestsCurrent, CalmParts
  <2>2. QED
    BY <2>1 DEF RequestsCurrent
<1>4. MessagesCurrent'
  <2>1. ASSUME NEW m \in Messages PROVE MessageCurrent(msg[m])'
    <3>1. CASE msg'[m] = msg[m]
      <4>1. PICK r : r = msg[m]
        OBVIOUS
      <4>2. MessageCurrent(r)
        BY <4>1 DEF MessagesCurrent, CalmParts
      <4>3. MessageCurrent(r)'
        BY <4>2, SameMeans DEF MessageCurrent, SameOffer
      <4>4. QED
        BY <3>1, <4>1, <4>3
    <3>2. CASE ~Busy(m)'
      BY <3>2, IdleIsCurrent
    <3>3. QED
      BY <3>1, <3>2
  <2>2. QED
    BY <2>1 DEF MessagesCurrent
<1>5. OfferStands'
  <2>1. Sending' <=> Sending
    <3>1. ASSUME NEW m \in Messages PROVE msg'[m].at = "selected" <=> msg[m].at = "selected"
      BY DEF Busy
    <3>2. QED
      BY <3>1 DEF Sending
  <2>2. app'.offer = app.offer /\ shown' = shown /\ agreed' = agreed
    BY DEF SameOffer
  <2>3. OfferStands
    BY DEF CalmParts
  <2>4. QED
    BY <2>1, <2>2, <2>3, SameMeans DEF OfferStands
<1>6. QED
  BY <1>2, <1>3, <1>4, <1>5

LEMMA SameCredits ==
  ASSUME CreditsAccepted, SameOffer, credits' = credits
  PROVE  CreditsAccepted'
  BY SameMeans DEF CreditsAccepted

\* Before the client accepts there is no credit of his acceptance.
LEMMA NoneAccepted ==
  ASSUME CreditsAccepted, app.offer # "ACCEPTED", credits' = credits
  PROVE  CreditsAccepted'
  BY DEF CreditsAccepted, Accepted

LEMMA SamePlans ==
  ASSUME UNCHANGED <<planVars, app, agreed>>
  PROVE  SameOffer /\ plan' = plan
  BY DEF SameOffer, planVars

\* The offer stands as it did while no schedule is being sent.
LEMMA OfferStandsStill ==
  ASSUME CalmParts, SameOffer, shown' = shown, ~Sending
  PROVE  OfferStands'
  BY SameMeans DEF CalmParts, OfferStands, SameOffer

LEMMA NotSending ==
  ASSUME \A c \in Coordinators : coord[c].at # "offered",
         \A m \in Messages : msg[m].at # "selected"
  PROVE  ~Sending
  BY DEF Sending

LEMMA AloneSends ==
  ASSUME NEW c \in Coordinators, Alone(c), coord[c].at # "offered"
  PROVE  ~Sending
  BY DEF Alone, Busy, Free, Sending

LEMMA ServedSends ==
  ASSUME NEW m \in Messages, Served(m), msg[m].at # "selected"
  PROVE  ~Sending
  BY DEF Served, Busy, Free, Sending

\* The requests that start, alone, and what they read.
LEMMA StartCalm ==
  ASSUME GroundInv, CalmInv, calm', NEW c \in Coordinators, NEW r,
         coord[c] = Free, coord' = [coord EXCEPT ![c] = r], StartsAlone,
         UNCHANGED <<planVars, app, credits, shown, msg, agreed>>,
         RequestCurrent(r)
  PROVE  CalmParts'
<1>1. calm /\ ~InFlight /\ CalmParts /\ CoordOK /\ SameOffer
  BY CalmIs, TypeParts, SamePlans DEF StartsAlone, GroundInv
<1>2. Alone(c)
  BY <1>1, NothingInFlight DEF Alone
<1>3. coord'[c] = r /\ \A d \in Coordinators : d # c => coord'[d] = coord[d]
  BY <1>1 DEF CoordOK
<1>4. RequestCurrent(coord[c])'
  <2>1. PICK q : q = r
    OBVIOUS
  <2>2. RequestCurrent(q)'
    BY <1>1, <2>1, SameMeans DEF RequestCurrent, SameOffer
  <2>3. QED
    BY <1>3, <2>1, <2>2
<1>5. OneAtATime' /\ RequestsCurrent' /\ MessagesCurrent'
  BY <1>2, <1>3, <1>4, RequestMoves
<1>6. ~Sending
  BY <1>2, AloneSends DEF Free
<1>7. OfferStands' /\ CreditsAccepted'
  BY <1>1, <1>6, OfferStandsStill, SameCredits DEF CalmParts
<1>8. QED
  BY <1>5, <1>7 DEF CalmParts

\* A request that moves on, with nothing written but its own place.
LEMMA StepCalm ==
  ASSUME GroundInv, CalmInv, calm, NEW c \in Coordinators, NEW r,
         coord[c].at \notin {"idle", "offered"}, coord' = [coord EXCEPT ![c] = r],
         SameOffer, UNCHANGED <<shown, msg>>,
         RequestCurrent(r)
  PROVE  OneAtATime' /\ RequestsCurrent' /\ MessagesCurrent' /\ OfferStands'
<1>1. CalmParts /\ CoordOK
  BY CalmIs, TypeParts DEF GroundInv
<1>2. Alone(c)
  BY <1>1, RequestAlone DEF CalmParts
<1>3. coord'[c] = r /\ \A d \in Coordinators : d # c => coord'[d] = coord[d]
  BY <1>1 DEF CoordOK
<1>4. RequestCurrent(coord[c])'
  <2>1. PICK q : q = r
    OBVIOUS
  <2>2. RequestCurrent(q)'
    BY <2>1, SameMeans DEF RequestCurrent, SameOffer
  <2>3. QED
    BY <1>3, <2>1, <2>2
<1>5. OneAtATime' /\ RequestsCurrent' /\ MessagesCurrent'
  BY <1>2, <1>3, <1>4, RequestMoves
<1>6. ~Sending
  BY <1>2, AloneSends
<1>7. OfferStands'
  BY <1>1, <1>6, OfferStandsStill
<1>8. QED
  BY <1>5, <1>7

LEMMA FreeCurrent == RequestCurrent(Free)
  BY DEF RequestCurrent, Free

LEMMA StartsCalm ==
  ASSUME GroundInv, CalmInv, calm', NEW c \in Coordinators,
         \/ \E x \in Principals : StartOffer(c, x)
         \/ \E p \in Plans \cup {NoPlan}, t \in Terms, x \in Principals :
              StartApprove(c, p, t, x) \/ StartDirect(c, p, t, x)
         \/ StartReject(c)
  PROVE  CalmParts'
<1>1. ASSUME NEW x \in Principals, StartOffer(c, x)
      PROVE  CalmParts'
  <2>1. RequestCurrent([at |-> "offer", seen |-> app.offer, principal |-> x])
    BY DEF RequestCurrent
  <2>2. QED
    BY <1>1, <2>1, StartCalm DEF StartOffer
<1>2. ASSUME NEW p \in Plans \cup {NoPlan}, NEW t \in Terms, NEW x \in Principals,
             StartApprove(c, p, t, x)
      PROVE  CalmParts'
  <2>1. RequestCurrent([at |-> "approve", app |-> app, plan |-> p, terms |-> t,
                        principal |-> x])
    BY DEF RequestCurrent
  <2>2. QED
    BY <1>2, <2>1, StartCalm DEF StartApprove
<1>3. ASSUME NEW p \in Plans \cup {NoPlan}, NEW t \in Terms, NEW x \in Principals,
             StartDirect(c, p, t, x)
      PROVE  CalmParts'
  <2>. DEFINE k == [origin |-> "direct", plan |-> p, terms |-> t, principal |-> x,
                    override |-> FALSE, paid |-> FALSE]
  <2>1. Accepted(k)
    BY DEF Accepted
  <2>. HIDE DEF k
  <2>2. RequestCurrent([at |-> "grant", credit |-> k])
    BY <2>1 DEF RequestCurrent
  <2>3. QED
    BY <1>3, <2>2, StartCalm DEF StartDirect, k
<1>4. ASSUME StartReject(c)
      PROVE  CalmParts'
  <2>1. RequestCurrent([at |-> "reject"])
    BY DEF RequestCurrent
  <2>2. QED
    BY <1>4, <2>1, StartCalm DEF StartReject
<1>5. QED
  BY <1>1, <1>2, <1>3, <1>4

\* An offer is recorded: it replaces one that was not accepted.
LEMMA MarkCalm ==
  ASSUME GroundInv, CalmInv, calm, NEW c \in Coordinators, MarkOffered(c)
  PROVE  CalmParts'
<1>1. CalmParts /\ CoordOK /\ app \in Applications
  BY CalmIs, TypeParts DEF GroundInv, AppOK
<1>2. coord[c].at = "offer" /\ coord[c].seen = app.offer /\ app.offer # "ACCEPTED"
  BY <1>1 DEF MarkOffered, MayOffer, CalmParts, RequestsCurrent, RequestCurrent
<1>3. Alone(c)
  BY <1>1, <1>2, RequestAlone DEF CalmParts
<1>4. /\ UNCHANGED <<planVars, credits, shown, msg, agreed>>
      /\ plan' = plan
  BY DEF MarkOffered, planVars
<1>5. /\ coord'[c].at = "offered"
      /\ \A d \in Coordinators : d # c => coord'[d] = coord[d]
      /\ app'.offer \in {"AWAITING_SELECTION", "AWAITING_ACCEPTANCE"}
      /\ AboutToSend(coord[c].send)'
  <2>1. CASE settings.clientChooses
    <3>1. /\ app' = [app EXCEPT !.offer = "AWAITING_SELECTION", !.plan = NoPlan,
                                !.principal = coord[c].principal, !.expired = FALSE]
          /\ coord' = [coord EXCEPT ![c] = [at |-> "offered", send |-> Menu(Active(plan))]]
      BY <2>1 DEF MarkOffered
    <3>2. app'.offer = "AWAITING_SELECTION"
      BY <1>1, <3>1 DEF Applications
    <3>3. /\ coord'[c].at = "offered"
          /\ \A d \in Coordinators : d # c => coord'[d] = coord[d]
      BY <1>1, <3>1 DEF CoordOK
    <3>4. QED
      BY <3>2, <3>3 DEF AboutToSend
  <2>2. CASE ~settings.clientChooses
    <3>1. PICK p \in Defaults(plan) :
             /\ app' = [app EXCEPT !.offer = "AWAITING_ACCEPTANCE", !.plan = p,
                                   !.principal = coord[c].principal, !.expired = FALSE]
             /\ coord' = [coord EXCEPT ![c] =
                  [at |-> "offered",
                   send |-> Schedule(p, plan[p].terms, coord[c].principal)]]
      BY <2>2 DEF MarkOffered
    <3>2. /\ app'.offer = "AWAITING_ACCEPTANCE" /\ app'.plan = p
          /\ app'.principal = coord[c].principal
      BY <1>1, <3>1 DEF Applications
    <3>3. /\ coord'[c].at = "offered"
          /\ coord'[c].send = Schedule(p, plan[p].terms, coord[c].principal)
          /\ \A d \in Coordinators : d # c => coord'[d] = coord[d]
      BY <1>1, <3>1 DEF CoordOK
    <3>4. p \in Plans /\ plan[p] # NoPlan
      BY DEF Defaults, Stored
    <3>5. coord'[c].send = Schedule(p, plan'[p].terms, app'.principal)
      BY <1>4, <3>2, <3>3
    <3>6. AboutToSend(coord[c].send)'
      BY <1>4, <3>2, <3>4, <3>5 DEF AboutToSend, StandingIs, Standing
    <3>7. QED
      BY <3>2, <3>3, <3>6
  <2>3. QED
    BY <2>1, <2>2
<1>6. RequestCurrent(coord[c])'
  BY <1>5 DEF RequestCurrent
<1>7. OneAtATime' /\ RequestsCurrent' /\ MessagesCurrent'
  BY <1>3, <1>4, <1>5, <1>6, RequestMoves
<1>8. OfferStands'
  <2>1. Sending'
    BY <1>5 DEF Sending
  <2>2. QED
    BY <1>5, <2>1 DEF OfferStands
<1>9. CreditsAccepted'
  BY <1>1, <1>2, <1>4, NoneAccepted DEF CalmParts
<1>10. QED
  BY <1>7, <1>8, <1>9 DEF CalmParts

\* What was about to be sent is what the client has in his hands.
LEMMA SentStands ==
  ASSUME CalmParts, SameOffer, NEW content, shown' = content, AboutToSend(content)
  PROVE  OfferStands'
<1>1. app'.offer = "AWAITING_ACCEPTANCE" => StandingIs(content)'
  BY SameMeans DEF AboutToSend, SameOffer
<1>2. app'.offer = "ACCEPTED" => StandingIs(agreed)'
  BY SameMeans DEF CalmParts, OfferStands, SameOffer
<1>3. QED
  BY <1>1, <1>2 DEF OfferStands

LEMMA SendOfferCalm ==
  ASSUME GroundInv, CalmInv, calm', NEW c \in Coordinators, SendOffer(c)
  PROVE  CalmParts'
<1>1. calm /\ shown' = coord[c].send /\ coord[c].at = "offered"
      /\ coord' = [coord EXCEPT ![c] = Free] /\ UNCHANGED <<msg, credits>>
  BY DEF SendOffer, Deliver
<1>2. CalmParts /\ CoordOK /\ SameOffer
  BY <1>1, CalmIs, TypeParts, SamePlans DEF GroundInv, SendOffer
<1>3. Alone(c)
  BY <1>1, <1>2, RequestAlone DEF CalmParts
<1>4. coord'[c] = Free /\ \A d \in Coordinators : d # c => coord'[d] = coord[d]
  BY <1>1, <1>2 DEF CoordOK
<1>5. OneAtATime' /\ RequestsCurrent' /\ MessagesCurrent'
  BY <1>1, <1>3, <1>4, FreeIsCurrent, RequestMoves
<1>6. AboutToSend(coord[c].send)
  BY <1>1, <1>2 DEF CalmParts, RequestsCurrent, RequestCurrent
<1>7. OfferStands'
  BY <1>1, <1>2, <1>6, SentStands
<1>8. CreditsAccepted'
  BY <1>1, <1>2, SameCredits DEF CalmParts
<1>9. QED
  BY <1>5, <1>7, <1>8 DEF CalmParts

LEMMA SayCalm ==
  ASSUME GroundInv, CalmInv, calm', NEW m \in Messages, NEW y \in Answers, Say(m, y)
  PROVE  CalmParts'
<1>1. CalmParts /\ SameOffer /\ UNCHANGED <<coord, shown, credits>> /\ MsgOK
  BY CalmIs, TypeParts, SamePlans DEF GroundInv, Say
<1>2. /\ msg[m].at = "unsaid"
      /\ msg' = [msg EXCEPT ![m] = [at |-> "sent", about |-> shown, answer |-> y]]
  BY DEF Say
<1>3. \A n \in Messages : msg'[n] = msg[n] \/ (~Busy(n) /\ ~Busy(n)')
  BY <1>1, <1>2 DEF MsgOK, Busy
<1>4. OneAtATime' /\ RequestsCurrent' /\ MessagesCurrent' /\ OfferStands'
  BY <1>1, <1>3, NothingMoves
<1>5. QED
  BY <1>1, <1>4, SameCredits DEF CalmParts

LEMMA ServeCalm ==
  ASSUME GroundInv, CalmInv, calm', NEW m \in Messages, Serve(m)
  PROVE  CalmParts'
<1>1. calm /\ SameOffer /\ UNCHANGED <<coord, shown, credits>> /\ MsgOK /\ msg[m].at = "sent"
  BY TypeParts, SamePlans DEF GroundInv, Serve
<1>2. CalmParts
  BY <1>1, CalmIs
<1>3. CreditsAccepted'
  BY <1>1, <1>2, SameCredits DEF CalmParts
<1>4. CASE To(m, "done")
  <2>1. msg'[m].at = "done" /\ \A n \in Messages : n # m => msg'[n] = msg[n]
    BY <1>1, <1>4, Moved
  <2>2. \A n \in Messages : msg'[n] = msg[n] \/ (~Busy(n) /\ ~Busy(n)')
    BY <1>1, <2>1 DEF Busy
  <2>3. OneAtATime' /\ RequestsCurrent' /\ MessagesCurrent' /\ OfferStands'
    BY <1>1, <1>2, <2>2, NothingMoves
  <2>4. QED
    BY <1>3, <2>3 DEF CalmParts
<1>5. CASE /\ ~InFlight /\ msg[m].about = shown
           /\ \/ /\ app.offer = "AWAITING_SELECTION"
                 /\ msg' = [msg EXCEPT ![m] =
                      [at |-> "select", about |-> @.about, answer |-> @.answer,
                       principal |-> app.principal]]
              \/ app.offer = "AWAITING_ACCEPTANCE" /\ To(m, "answer")
  <2>1. Served(m)
    BY <1>5, NothingInFlight DEF Served
  <2>2. /\ \A n \in Messages : n # m => msg'[n] = msg[n]
        /\ MessageCurrent(msg[m])'
        /\ msg'[m].at # "selected"
    <3>1. CASE /\ app.offer = "AWAITING_SELECTION"
               /\ msg' = [msg EXCEPT ![m] =
                      [at |-> "select", about |-> @.about, answer |-> @.answer,
                       principal |-> app.principal]]
      BY <1>1, <3>1 DEF MsgOK, MessageCurrent, SameOffer
    <3>2. CASE app.offer = "AWAITING_ACCEPTANCE" /\ To(m, "answer")
      <4>1. /\ msg'[m].at = "answer" /\ msg'[m].about = msg[m].about
            /\ \A n \in Messages : n # m => msg'[n] = msg[n]
        BY <1>1, <3>2, Moved
      <4>2. QED
        BY <1>1, <1>5, <3>2, <4>1 DEF MessageCurrent, SameOffer
    <3>3. QED
      BY <1>5, <3>1, <3>2
  <2>3. OneAtATime' /\ RequestsCurrent' /\ MessagesCurrent'
    BY <1>1, <2>1, <2>2, MessageAdvances
  <2>4. ~Sending
    BY <1>1, <2>1, ServedSends
  <2>5. OfferStands'
    BY <1>1, <1>2, <2>4, OfferStandsStill
  <2>6. QED
    BY <1>3, <2>3, <2>5 DEF CalmParts
<1>6. QED
  BY <1>4, <1>5 DEF Serve

LEMMA ChooseCalm ==
  ASSUME GroundInv, CalmInv, calm, NEW m \in Messages, Choose(m)
  PROVE  CalmParts'
<1>1. /\ CalmParts /\ MsgOK /\ app \in Applications /\ msg[m].at = "select"
      /\ UNCHANGED <<planVars, coord, credits, agreed>> /\ plan' = plan
  BY CalmIs, TypeParts DEF GroundInv, AppOK, Choose, planVars
<1>2. app.offer = "AWAITING_SELECTION" /\ msg[m].principal = app.principal
  BY <1>1 DEF CalmParts, MessagesCurrent, MessageCurrent
<1>3. Served(m)
  BY <1>1, MessageAlone DEF Busy, CalmParts
<1>4. CreditsAccepted'
  BY <1>1, <1>2, NoneAccepted DEF CalmParts
<1>5. CASE \E p \in Active(plan) :
             /\ app' = [app EXCEPT !.offer = "AWAITING_ACCEPTANCE", !.plan = p]
             /\ msg' = [msg EXCEPT ![m] =
                  [at |-> "selected", about |-> @.about, answer |-> @.answer,
                   send |-> Schedule(p, plan[p].terms, @.principal)]]
             /\ shown' = shown
  <2>1. PICK p \in Active(plan) :
             /\ app' = [app EXCEPT !.offer = "AWAITING_ACCEPTANCE", !.plan = p]
             /\ msg' = [msg EXCEPT ![m] =
                  [at |-> "selected", about |-> @.about, answer |-> @.answer,
                   send |-> Schedule(p, plan[p].terms, @.principal)]]
             /\ shown' = shown
    BY <1>5
  <2>2. p \in Plans /\ plan[p] # NoPlan
    BY DEF Active, Stored
  <2>3. /\ app'.offer = "AWAITING_ACCEPTANCE" /\ app'.plan = p
        /\ app'.principal = app.principal
    BY <1>1, <2>1 DEF Applications
  <2>4. /\ msg'[m].at = "selected"
        /\ msg'[m].send = Schedule(p, plan[p].terms, msg[m].principal)
        /\ \A n \in Messages : n # m => msg'[n] = msg[n]
    BY <1>1, <2>1 DEF MsgOK
  <2>5. msg'[m].send = Schedule(p, plan'[p].terms, app'.principal)
    BY <1>1, <1>2, <2>3, <2>4
  <2>6. AboutToSend(msg[m].send)'
    BY <1>1, <2>2, <2>3, <2>5 DEF AboutToSend, StandingIs, Standing
  <2>7. MessageCurrent(msg[m])'
    BY <2>4, <2>6 DEF MessageCurrent
  <2>8. OneAtATime' /\ RequestsCurrent' /\ MessagesCurrent'
    BY <1>1, <1>3, <2>4, <2>7, MessageAdvances
  <2>9. Sending'
    BY <2>4 DEF Sending
  <2>10. OfferStands'
    BY <2>3, <2>9 DEF OfferStands
  <2>11. QED
    BY <1>4, <2>8, <2>10 DEF CalmParts
<1>6. CASE shown' = Menu(Active(plan)) /\ To(m, "done") /\ app' = app
  <2>1. msg'[m].at = "done" /\ \A n \in Messages : n # m => msg'[n] = msg[n]
    BY <1>1, <1>6, Moved
  <2>2. MessageCurrent(msg[m])'
    BY <2>1 DEF MessageCurrent
  <2>3. OneAtATime' /\ RequestsCurrent' /\ MessagesCurrent'
    BY <1>1, <1>3, <2>1, <2>2, MessageAdvances
  <2>4. OfferStands'
    BY <1>2, <1>6 DEF OfferStands
  <2>5. QED
    BY <1>4, <2>3, <2>4 DEF CalmParts
<1>7. QED
  BY <1>5, <1>6, ChooseDoes DEF GroundInv

LEMMA SendScheduleCalm ==
  ASSUME GroundInv, CalmInv, calm', NEW m \in Messages, SendSchedule(m)
  PROVE  CalmParts'
<1>1. /\ calm /\ shown' = msg[m].send /\ msg[m].at = "selected" /\ To(m, "done")
      /\ UNCHANGED <<coord, credits>>
  BY DEF SendSchedule, Deliver
<1>2. CalmParts /\ MsgOK /\ SameOffer
  BY <1>1, CalmIs, TypeParts, SamePlans DEF GroundInv, SendSchedule
<1>3. Served(m)
  BY <1>1, <1>2, MessageAlone DEF Busy, CalmParts
<1>4. msg'[m].at = "done" /\ \A n \in Messages : n # m => msg'[n] = msg[n]
  BY <1>1, <1>2, Moved
<1>5. MessageCurrent(msg[m])'
  BY <1>4 DEF MessageCurrent
<1>6. OneAtATime' /\ RequestsCurrent' /\ MessagesCurrent'
  BY <1>1, <1>3, <1>4, <1>5, MessageAdvances
<1>7. AboutToSend(msg[m].send)
  BY <1>1, <1>2 DEF CalmParts, MessagesCurrent, MessageCurrent
<1>8. OfferStands'
  BY <1>1, <1>2, <1>7, SentStands
<1>9. CreditsAccepted'
  BY <1>1, <1>2, SameCredits DEF CalmParts
<1>10. QED
  BY <1>6, <1>8, <1>9 DEF CalmParts

\* The client says yes to what he was shown, which is the offer that stands.
LEMMA AnswerCalm ==
  ASSUME GroundInv, CalmInv, calm, NEW m \in Messages, Answer(m)
  PROVE  CalmParts'
<1>1. /\ CalmParts /\ MsgOK /\ app \in Applications /\ msg[m].at = "answer"
      /\ To(m, "done")
      /\ UNCHANGED <<planVars, coord, credits, shown>> /\ plan' = plan
  BY CalmIs, TypeParts DEF GroundInv, AppOK, Answer, planVars
<1>2. app.offer = "AWAITING_ACCEPTANCE" /\ msg[m].about = shown
  BY <1>1 DEF CalmParts, MessagesCurrent, MessageCurrent
<1>3. Served(m)
  BY <1>1, MessageAlone DEF Busy, CalmParts
<1>4. CreditsAccepted'
  BY <1>1, <1>2, NoneAccepted DEF CalmParts
<1>5. msg'[m].at = "done" /\ \A n \in Messages : n # m => msg'[n] = msg[n]
  BY <1>1, Moved
<1>6. MessageCurrent(msg[m])'
  BY <1>5 DEF MessageCurrent
<1>7. OneAtATime' /\ RequestsCurrent' /\ MessagesCurrent'
  BY <1>1, <1>3, <1>5, <1>6, MessageAdvances
<1>8. ~Sending
  BY <1>1, <1>3, ServedSends
<1>9. StandingIs(shown)
  BY <1>1, <1>2, <1>8 DEF CalmParts, OfferStands
<1>10. OfferStands'
  <2>1. CASE app' = [app EXCEPT !.offer = "ACCEPTED"] /\ agreed' = msg[m].about
    <3>1. app'.offer = "ACCEPTED" /\ app'.plan = app.plan /\ app'.principal = app.principal
      BY <1>1, <2>1 DEF Applications
    <3>2. StandingIs(agreed)'
      BY <1>1, <1>2, <1>9, <2>1, <3>1 DEF StandingIs, Standing
    <3>3. QED
      BY <3>1, <3>2 DEF OfferStands
  <2>2. CASE app' = [app EXCEPT !.offer = "DECLINED"]
    <3>1. app'.offer = "DECLINED"
      BY <1>1, <2>2 DEF Applications
    <3>2. QED
      BY <3>1 DEF OfferStands
  <2>3. CASE app' = app
    <3>1. StandingIs(shown)'
      BY <1>1, <1>9, <2>3 DEF StandingIs, Standing
    <3>2. QED
      BY <1>2, <2>3, <3>1 DEF OfferStands
  <2>4. QED
    BY <2>1, <2>2, <2>3 DEF Answer
<1>11. QED
  BY <1>4, <1>7, <1>10 DEF CalmParts

\* An approval under a standing acceptance grants just what was accepted.
LEMMA ResolveCalm ==
  ASSUME GroundInv, CalmInv, calm, NEW c \in Coordinators, ResolveTerms(c)
  PROVE  CalmParts'
<1>1. /\ CalmParts /\ SameOffer /\ UNCHANGED <<msg, shown, credits>>
      /\ coord[c].at = "approve"
      /\ coord' = [coord EXCEPT ![c] = [at |-> "grant", credit |-> CreditOf(coord[c])]]
  BY CalmIs, SamePlans DEF GroundInv, ResolveTerms
<1>2. /\ coord[c].app.offer = app.offer /\ coord[c].app.plan = app.plan
      /\ coord[c].app.principal = app.principal
  BY <1>1 DEF CalmParts, RequestsCurrent, RequestCurrent
<1>3. Accepted(CreditOf(coord[c]))
  <2>1. CASE app.offer # "ACCEPTED"
    <3>1. CreditOf(coord[c]).override
      BY <1>2, <2>1 DEF CreditOf
    <3>2. QED
      BY <3>1 DEF Accepted
  <2>2. CASE app.offer = "ACCEPTED"
    <3>1. StandingIs(agreed)
      BY <1>1, <2>2 DEF CalmParts, OfferStands
    <3>2. /\ app.plan \in Plans /\ plan[app.plan] # NoPlan
          /\ agreed = Schedule(app.plan, plan[app.plan].terms, app.principal)
      BY <3>1 DEF StandingIs, Standing
    <3>3. Negotiated(coord[c])
      BY <1>2, <3>2, NoPlanOutside DEF Negotiated
    <3>4. /\ CreditOf(coord[c]).plan = app.plan
          /\ CreditOf(coord[c]).terms = plan[app.plan].terms
          /\ CreditOf(coord[c]).principal = app.principal
      BY <1>2, <3>3 DEF CreditOf, PrincipalOf
    <3>5. QED
      BY <2>2, <3>2, <3>4 DEF Accepted
  <2>3. QED
    BY <2>1, <2>2
<1>4. RequestCurrent([at |-> "grant", credit |-> CreditOf(coord[c])])
  <2>1. PICK k : k = CreditOf(coord[c])
    OBVIOUS
  <2>2. Accepted(k)
    BY <1>3, <2>1
  <2>3. RequestCurrent([at |-> "grant", credit |-> k])
    BY <2>2 DEF RequestCurrent
  <2>4. QED
    BY <2>1, <2>3
<1>5. OneAtATime' /\ RequestsCurrent' /\ MessagesCurrent' /\ OfferStands'
  BY <1>1, <1>4, StepCalm
<1>6. QED
  BY <1>1, <1>5, SameCredits DEF CalmParts

LEMMA LockCalm ==
  ASSUME GroundInv, CalmInv, calm, NEW c \in Coordinators, LockBorrower(c)
  PROVE  CalmParts'
<1>1. /\ CalmParts /\ SameOffer /\ UNCHANGED <<msg, shown, credits>>
      /\ coord[c].at = "grant" /\ coord[c] \in CoordRequests
      /\ coord' = [coord EXCEPT ![c].at = "commit"]
  BY CalmIs, SamePlans, TypeParts DEF GroundInv, LockBorrower, CoordOK
<1>. DEFINE new == [coord[c] EXCEPT !.at = "commit"]
<1>2. coord' = [coord EXCEPT ![c] = new]
  BY <1>1
<1>3. new.at = "commit" /\ new.credit = coord[c].credit
  BY <1>1, ToCommit
<1>. HIDE DEF new
<1>4. Accepted(coord[c].credit)
  BY <1>1 DEF CalmParts, RequestsCurrent, RequestCurrent
<1>5. RequestCurrent(new)
  BY <1>3, <1>4 DEF RequestCurrent
<1>6. OneAtATime' /\ RequestsCurrent' /\ MessagesCurrent' /\ OfferStands'
  BY <1>1, <1>2, <1>5, StepCalm
<1>7. QED
  BY <1>1, <1>6, SameCredits DEF CalmParts

\* A request ends: the status is all that it writes of the application.
LEMMA EndCalm ==
  ASSUME GroundInv, CalmInv, calm, NEW c \in Coordinators,
         Rollback(c) \/ Reject(c) \/ GiveUp(c)
  PROVE  CalmParts'
<1>1. /\ CalmParts /\ UNCHANGED <<msg, shown, credits>>
      /\ coord[c].at \notin {"idle", "offered"}
      /\ coord' = [coord EXCEPT ![c] = Free]
  BY CalmIs DEF Rollback, Reject, GiveUp
<1>2. SameOffer
  <2>1. /\ app'.offer = app.offer /\ app'.plan = app.plan
        /\ app'.principal = app.principal
    BY EndTyped DEF GroundInv, GiveUp
  <2>2. plan' = plan /\ agreed' = agreed
    BY DEF Rollback, Reject, GiveUp, planVars
  <2>3. QED
    BY <2>1, <2>2 DEF SameOffer
<1>3. OneAtATime' /\ RequestsCurrent' /\ MessagesCurrent' /\ OfferStands'
  BY <1>1, <1>2, FreeCurrent, StepCalm
<1>4. QED
  BY <1>1, <1>2, <1>3, SameCredits DEF CalmParts

LEMMA CommitCalm ==
  ASSUME GroundInv, CalmInv, calm, NEW c \in Coordinators, Commit(c)
  PROVE  CalmParts'
<1>1. /\ CalmParts /\ UNCHANGED <<msg, shown>>
      /\ coord[c].at = "commit" /\ coord[c] \in CoordRequests
      /\ coord' = [coord EXCEPT ![c] = Free]
      /\ credits \in Seq(CreditRows)
  BY CalmIs, TypeParts DEF Commit, GroundInv, CoordOK, CreditsOK
<1>2. SameOffer
  <2>1. /\ app'.offer = app.offer /\ app'.plan = app.plan
        /\ app'.principal = app.principal
    BY CommitTyped DEF GroundInv
  <2>2. plan' = plan /\ agreed' = agreed
    BY DEF Commit, planVars
  <2>3. QED
    BY <2>1, <2>2 DEF SameOffer
<1>3. OneAtATime' /\ RequestsCurrent' /\ MessagesCurrent' /\ OfferStands'
  BY <1>1, <1>2, FreeCurrent, StepCalm
<1>4. PICK k \in CreditRows : k = coord[c].credit
  BY <1>1, CoordOf
<1>5. Accepted(k)
  BY <1>1, <1>4 DEF CalmParts, RequestsCurrent, RequestCurrent
<1>6. credits' = Append(credits, k)
  BY <1>4 DEF Commit
<1>7. CreditsAccepted'
  <2>1. /\ DOMAIN credits = 1 .. Len(credits) /\ Len(credits) \in Nat
        /\ credits' \in Seq(CreditRows) /\ Len(credits') = Len(credits) + 1
        /\ \A i \in 1 .. Len(credits) : credits'[i] = credits[i]
        /\ credits'[Len(credits) + 1] = k
    BY <1>1, <1>6, AppendProperties, LenProperties
  <2>2. DOMAIN credits' = 1 .. Len(credits) + 1
    BY <2>1, LenProperties
  <2>3. ASSUME NEW i \in DOMAIN credits' PROVE Accepted(credits[i])'
    <3>1. PICK x : x = credits'[i]
      OBVIOUS
    <3>2. CASE i = Len(credits) + 1
      <4>1. x = k
        BY <2>1, <3>1, <3>2
      <4>2. Accepted(x)'
        BY <1>2, <1>5, <4>1, SameMeans
      <4>3. QED
        BY <3>1, <4>2
    <3>3. CASE i # Len(credits) + 1
      <4>1. i \in DOMAIN credits
        BY <2>1, <2>2, <3>3
      <4>2. x = credits[i]
        BY <2>1, <3>1, <4>1
      <4>3. Accepted(x)
        BY <1>1, <4>1, <4>2 DEF CalmParts, CreditsAccepted
      <4>4. Accepted(x)'
        BY <1>2, <4>3, SameMeans
      <4>5. QED
        BY <3>1, <4>4
    <3>4. QED
      BY <3>2, <3>3
  <2>4. QED
    BY <2>3 DEF CreditsAccepted
<1>8. QED
  BY <1>3, <1>7 DEF CalmParts

\* Plans are left alone while one is on offer.
LEMMA EditCalm ==
  ASSUME GroundInv, CalmInv, calm', EditPlans
  PROVE  CalmParts'
<1>1. /\ CalmParts /\ UNCHANGED <<app, agreed, coord, msg, shown, credits>>
  BY CalmIs DEF EditPlans
<1>2. CASE plan' = plan
  <2>1. SameOffer
    BY <1>1, <1>2 DEF SameOffer
  <2>2. OneAtATime' /\ RequestsCurrent' /\ MessagesCurrent' /\ OfferStands'
    BY <1>1, <2>1, NothingMoves
  <2>3. QED
    BY <1>1, <2>1, <2>2, SameCredits DEF CalmParts
<1>3. CASE app.offer = "NOT_OFFERED" /\ \A c \in Coordinators : coord[c] = Free
  <2>1. \A m \in Messages : ~Busy(m)'
    BY <1>1, <1>3 DEF GroundInv, ServedIsOffered, Busy
  <2>2. OneAtATime'
    BY <1>1, <1>3, <2>1 DEF OneAtATime
  <2>3. \A c \in Coordinators : RequestCurrent(coord[c])'
    BY <1>1, <1>3, FreeIsCurrent
  <2>4. \A m \in Messages : MessageCurrent(msg[m])'
    BY <2>1, IdleIsCurrent
  <2>5. OfferStands'
    BY <1>1, <1>3 DEF OfferStands
  <2>6. CreditsAccepted'
    BY <1>1, <1>3, NoneAccepted DEF CalmParts
  <2>7. QED
    BY <2>2, <2>3, <2>4, <2>5, <2>6 DEF CalmParts, RequestsCurrent, MessagesCurrent
<1>4. QED
  BY <1>2, <1>3 DEF EditPlans

LEMMA WorldCalm ==
  ASSUME GroundInv, CalmInv, calm',
         \/ Expire
         \/ \E b \in BOOLEAN : SetBlocked(b)
         \/ UNCHANGED vars
  PROVE  CalmParts'
<1>1. calm /\ UNCHANGED <<planVars, agreed, coord, msg, shown, credits>>
  BY DEF Expire, SetBlocked, vars, ownVars
<1>2. SameOffer
  <2>1. /\ app'.offer = app.offer /\ app'.plan = app.plan
        /\ app'.principal = app.principal
    BY ExpireTyped DEF GroundInv, SetBlocked, vars, ownVars
  <2>2. QED
    BY <1>1, <2>1 DEF SameOffer, planVars
<1>3. CalmParts
  BY <1>1, CalmIs
<1>4. OneAtATime' /\ RequestsCurrent' /\ MessagesCurrent' /\ OfferStands'
  BY <1>1, <1>2, <1>3, NothingMoves
<1>5. QED
  BY <1>1, <1>2, <1>3, <1>4, SameCredits DEF CalmParts

LEMMA PayOffCalm ==
  ASSUME GroundInv, CalmInv, calm', NEW i \in DOMAIN credits, PayOff(i)
  PROVE  CalmParts'
<1>1. calm /\ UNCHANGED <<planVars, app, agreed, coord, msg, shown>>
  BY DEF PayOff
<1>2. CalmParts /\ SameOffer
  BY <1>1, CalmIs, SamePlans
<1>3. OneAtATime' /\ RequestsCurrent' /\ MessagesCurrent' /\ OfferStands'
  BY <1>1, <1>2, NothingMoves
<1>4. CreditsAccepted'
  <2>1. DOMAIN credits' = DOMAIN credits
    BY PayOffTyped DEF GroundInv
  <2>2. ASSUME NEW j \in DOMAIN credits PROVE Accepted(credits[j])'
    <3>1. PICK x : x = credits[j]
      OBVIOUS
    <3>2. PICK y : y = credits'[j]
      OBVIOUS
    <3>3. /\ y.origin = x.origin /\ y.override = x.override /\ y.plan = x.plan
          /\ y.terms = x.terms /\ y.principal = x.principal
      BY <3>1, <3>2, PayOffTyped DEF GroundInv
    <3>4. Accepted(x)'
      BY <1>2, <3>1, SameMeans DEF CalmParts, CreditsAccepted
    <3>5. Accepted(y)'
      BY <3>3, <3>4 DEF Accepted
    <3>6. QED
      BY <3>2, <3>5
  <2>3. QED
    BY <2>1, <2>2 DEF CreditsAccepted
<1>5. QED
  BY <1>3, <1>4 DEF CalmParts

LEMMA CalmKeeps ==
  ASSUME GroundInv, CalmInv, [Next]_vars
  PROVE  CalmInv'
<1>0. SUFFICES ASSUME calm' PROVE CalmParts'
  BY DEF CalmInv, CalmParts, RequestsCurrent, MessagesCurrent
<1>1. CASE Negotiate
  <2>1. ASSUME NEW c \in Coordinators,
               \/ \E x \in Principals : StartOffer(c, x)
               \/ MarkOffered(c) \/ SendOffer(c)
        PROVE  CalmParts'
    <3>1. CASE MarkOffered(c)
      <4>1. calm
        BY <1>0, <3>1 DEF MarkOffered
      <4>2. QED
        BY <3>1, <4>1, MarkCalm
    <3>2. QED
      BY <1>0, <2>1, <3>1, StartsCalm, SendOfferCalm
  <2>2. ASSUME NEW m \in Messages,
               \/ \E y \in Answers : Say(m, y)
               \/ Serve(m) \/ Choose(m) \/ SendSchedule(m) \/ Answer(m)
        PROVE  CalmParts'
    <3>1. CASE Choose(m) \/ Answer(m)
      <4>1. calm
        BY <1>0, <3>1 DEF Choose, Answer
      <4>2. QED
        BY <3>1, <4>1, ChooseCalm, AnswerCalm
    <3>2. QED
      BY <1>0, <2>2, <3>1, SayCalm, ServeCalm, SendScheduleCalm
  <2>3. CASE Expire
    BY <1>0, <2>3, WorldCalm
  <2>4. QED
    BY <1>1, <2>1, <2>2, <2>3 DEF Negotiate
<1>2. ASSUME NEW c \in Coordinators,
             \/ \E p \in Plans \cup {NoPlan}, t \in Terms, x \in Principals :
                  StartApprove(c, p, t, x) \/ StartDirect(c, p, t, x)
             \/ StartReject(c)
      PROVE  CalmParts'
  BY <1>0, <1>2, StartsCalm
<1>3. ASSUME NEW c \in Coordinators,
             \/ ResolveTerms(c) \/ LockBorrower(c) \/ Commit(c) \/ Rollback(c)
             \/ Reject(c) \/ GiveUp(c)
      PROVE  CalmParts'
  <2>1. calm
    BY <1>0, <1>3 DEF ResolveTerms, LockBorrower, Commit, Rollback, Reject, GiveUp
  <2>2. QED
    BY <1>3, <2>1, ResolveCalm, LockCalm, CommitCalm, EndCalm
<1>4. CASE Decide
  BY <1>2, <1>3, <1>4 DEF Decide
<1>5. QED
  BY <1>0, <1>1, <1>4, EditCalm, PayOffCalm, WorldCalm DEF Next

LEMMA CalmBegins ==
  ASSUME Init
  PROVE  CalmInv
<1>1. /\ \A c \in Coordinators : coord[c] = Free
      /\ \A m \in Messages : msg[m].at = "unsaid"
      /\ app.offer = "NOT_OFFERED" /\ credits = <<>>
  BY DEF Init, OwnInit
<1>2. OneAtATime
  BY <1>1 DEF OneAtATime, Busy
<1>3. \A c \in Coordinators : RequestCurrent(coord[c])
  BY <1>1, FreeCurrent
<1>4. \A m \in Messages : MessageCurrent(msg[m])
  BY <1>1 DEF MessageCurrent
<1>5. OfferStands /\ CreditsAccepted
  BY <1>1 DEF OfferStands, CreditsAccepted
<1>6. QED
  BY <1>2, <1>3, <1>4, <1>5 DEF CalmInv

-----------------------------------------------------------------------------
(* The theorems.                                                            *)

\* The inductive invariant: the types, the plans with what each pending edit decided
\* on, the lock of the borrower's row, and what is so while nothing overtakes
\* anything.
OriginationInv == GroundInv /\ LockInv /\ CalmInv

\* Whatever administrators, coordinators and clients do at once, a tenant has one
\* default plan, a grant holds the row it checked, and while nothing overtakes
\* anything each request acts on what is still so (manage-payment-plans.ts,
\* approve-application-review.ts, grant-credit.ts).
THEOREM LendingAlwaysSafe == Spec => []OriginationInv
<1>1. Init => OriginationInv
  BY GroundBegins, LockBegins, CalmBegins DEF OriginationInv
<1>2. OriginationInv /\ [Next]_vars => OriginationInv'
  BY GroundKeeps, LockKeeps, CalmKeeps DEF OriginationInv
<1>3. QED
  BY <1>1, <1>2, PTL DEF Spec

\* The plans of a tenant have one default at most, and one that can be offered unless
\* two edits overlapped, for any plans, terms and administrators.
THEOREM PlansAlwaysSafe == Spec => []PlansSafe
<1>1. OriginationInv => PlansSafe
  BY DEF OriginationInv, GroundInv, PlansInv
<1>2. QED
  BY <1>1, LendingAlwaysSafe, PTL

\* Nobody grants to a blocked borrower or past the limit, whoever grants at the same
\* time: the check is repeated under the lock of the row.
THEOREM GrantsKeepPolicy == Spec => GrantedWithinPolicy
<1>1. OriginationInv /\ [Next]_vars =>
        [Len(credits') > Len(credits) =>
           CanReceive(credits'[Len(credits')].principal)]_vars
  BY GrantIsChecked DEF OriginationInv, GroundInv
<1>2. QED
  BY <1>1, LendingAlwaysSafe, PTL DEF Spec, GrantedWithinPolicy

\* A credit granted under the client's acceptance is the one he accepted, with its plan,
\* terms and principal, as long as no request overtook another.
THEOREM CreditsAsAgreed == Spec => []AgreedWhenCalm
<1>1. OriginationInv => AgreedWhenCalm
  BY DEF OriginationInv, CalmInv, CreditsAccepted, Accepted, AgreedWhenCalm,
         CreditAsAgreed
<1>2. QED
  BY <1>1, LendingAlwaysSafe, PTL

==============================================================================
