--------------------------- MODULE ProgressProofs ---------------------------
(***************************************************************************)
(* Proofs about the photograph of a period and the three processes of      *)
(* MCProgress, for every value of their constants.  SettlementPhoto: the   *)
(* photograph accounts for every entry once, by boxes, by zones and by     *)
(* views.  SettlementPeriods: the periods of a tenant are a chain that     *)
(* counts each entry once, and what is sealed stays so.  OfflineSync: no   *)
(* collection of the phone is in its queue twice, and none is credited     *)
(* twice.  Intake: the applications of an applicant, whatever is delivered *)
(* twice, restarted or cut by a crash.                                     *)
(***************************************************************************)
EXTENDS SettlementPeriods, OfflineSync, Intake, SettlementPhoto, ArithmeticProofs,
        SequenceTheorems
-----------------------------------------------------------------------------
(* SettlementPhoto: what the entries of the open period add up to.          *)

\* The boxes are as many as their order lists.
LEMMA BoxesFinite == IsFiniteSet(Boxes)
<1>1. IsFiniteSet(DOMAIN BoxOrder)
  BY PhotoAssumption, FS_Interval
<1>2. BoxOrder \in Surjection(DOMAIN BoxOrder, Boxes)
  BY PhotoAssumption DEF Surjection, Boxes
<1> QED
  BY <1>1, <1>2, FS_Surjection

\* The sum of some of the entries is an amount.
LEMMA RowsSum ==
  ASSUME PhotoTypeOK, NEW rows \in SUBSET DOMAIN flows
  PROVE  /\ IsFiniteSet(rows) /\ \A e \in rows : flows[e] \in Int
         /\ SumOver(flows, rows) \in Nat
<1>1. IsFiniteSet(rows) /\ \A e \in rows : flows[e] \in Nat
  BY FS_Subset DEF PhotoTypeOK
<1> QED
  BY <1>1, SumNat

\* What a posting adds to the sum of the entries of a kind D.
SumPosted(f, X, a, D) ==
  SumOver(Posted(f, X, a), (DOMAIN f \cup X) \cap D)
    = SumOver(f, DOMAIN f \cap D) + a * Cardinality(X \cap D)

\* Whatever the kind D, what is posted adds its amount for each entry of that kind.
LEMMA PostedSum ==
  ASSUME NEW f, IsFiniteSet(DOMAIN f), \A e \in DOMAIN f : f[e] \in Int,
         NEW X, IsFiniteSet(X), NEW a \in Int, NEW D
  PROVE  SumPosted(f, X, a, D)
<1> DEFINE S == (DOMAIN f \cup X) \cap D
           F == DOMAIN f \cap D
           Y == X \cap D
           old == [e \in S |-> IF e \in DOMAIN f THEN f[e] ELSE 0]
           new == [e \in S |-> IF e \in X THEN a ELSE 0]
           P == Posted(f, X, a)
<1>1. IsFiniteSet(S) /\ F \in SUBSET S /\ Y \in SUBSET S /\ IsFiniteSet(F) /\ IsFiniteSet(Y)
  BY FS_Union, FS_Subset
<1>2. \A e \in S : old[e] \in Int /\ new[e] \in Int /\ P[e] = old[e] + new[e]
  BY DEF Posted
<1>3. /\ \A e \in F : old[e] = f[e]
      /\ \A e \in S \ F : old[e] = 0
      /\ \A e \in Y : new[e] = a
      /\ \A e \in S \ Y : new[e] = 0
  OBVIOUS
<1>4. Cardinality(Y) \in Nat /\ SumOver(f, F) \in Int
  BY <1>1, FS_CardinalityType, SumInt
<1> HIDE DEF old, new, P, S, F, Y
<1>5. SumOver(P, S) = SumOver(old, S) + SumOver(new, S)
  BY <1>1, <1>2, SumPlus
<1>6. SumOver(old, S) = SumOver(f, F)
  <2>1. SumOver(old, S) = SumOver(old, F)
    BY <1>1, <1>2, <1>3, SumExtra
  <2>2. SumOver(old, F) = SumOver(f, F)
    BY <1>1, <1>3, SumEqual
  <2> QED
    BY <2>1, <2>2
<1>7. SumOver(new, S) = a * Cardinality(Y)
  <2>1. SumOver(new, S) = SumOver(new, Y)
    BY <1>1, <1>2, <1>3, SumExtra
  <2>2. SumOver(new, Y) = a * Cardinality(Y)
    BY <1>1, <1>3, SumConst
  <2> QED
    BY <2>1, <2>2
<1>8. SumOver(P, S) = SumOver(f, F) + a * Cardinality(Y)
  BY <1>5, <1>6, <1>7
<1> QED
  BY <1>8 DEF P, S, F, Y, SumPosted

\* The line of a box sums its entries in and its entries out.
BoxRows(b, d) == {e \in DOMAIN flows : e.box = b /\ e.direction = d}

LineIsOf(b) ==
  /\ BoxLine(b).opening = opening[b]
  /\ BoxLine(b).in = SumOver(flows, BoxRows(b, "IN"))
  /\ BoxLine(b).out = SumOver(flows, BoxRows(b, "OUT"))
  /\ BoxLine(b).closing = opening[b] + BoxLine(b).in - BoxLine(b).out
  /\ BoxLine(b).zone = BoxZone[b]
  /\ BoxLine(b).concepts =
       [c \in Concepts |-> SumOver(flows, {e \in DOMAIN flows : e.box = b /\ ConceptOf(e) = c})]

\* Each line of the photograph is made of its entries.
LEMMA LineOfBox ==
  ASSUME NEW b \in Boxes
  PROVE  LineIsOf(b)
<1> DEFINE rows == {e \in DOMAIN flows : e.box = b}
<1>1. /\ {e \in rows : e.direction = "IN"} = BoxRows(b, "IN")
      /\ {e \in rows : e.direction = "OUT"} = BoxRows(b, "OUT")
  BY DEF BoxRows
<1>2. /\ ConceptsOf(rows).in = SumOver(flows, BoxRows(b, "IN"))
      /\ ConceptsOf(rows).out = SumOver(flows, BoxRows(b, "OUT"))
  <2> HIDE DEF rows
  <2> QED
    BY <1>1 DEF ConceptsOf
<1>3. ConceptsOf(rows).concepts =
        [c \in Concepts |-> SumOver(flows, {e \in DOMAIN flows : e.box = b /\ ConceptOf(e) = c})]
  <2>1. \A c \in Concepts :
          {e \in rows : ConceptOf(e) = c} = {e \in DOMAIN flows : e.box = b /\ ConceptOf(e) = c}
    OBVIOUS
  <2>2. ConceptsOf(rows).concepts =
          [c \in Concepts |-> SumOver(flows, {e \in rows : ConceptOf(e) = c})]
    BY DEF ConceptsOf
  <2> QED
    BY <2>1, <2>2
<1>4. BoxLine(b) = LET c == ConceptsOf(rows) IN
                   [zone |-> BoxZone[b], opening |-> opening[b], in |-> c.in, out |-> c.out,
                    closing |-> opening[b] + c.in - c.out, concepts |-> c.concepts]
  BY DEF BoxLine
<1> HIDE DEF rows
<1> QED
  BY <1>2, <1>3, <1>4 DEF LineIsOf

\* So it is after a step.
LEMMA LineOfBoxNext == \A b \in Boxes : LineIsOf(b)'
<1>1. \A b \in Boxes : LineIsOf(b)
  BY LineOfBox
<1>2. (\A b \in Boxes : LineIsOf(b))'
  BY <1>1, PTL
<1> QED
  BY <1>2

\* Entries of one direction.
AllOf(S, d) == S \subseteq LedgerEntries /\ IsFiniteSet(S) /\ \A e \in S : e.direction = d

\* A posting whose entries come in and go out as they say keeps what the boxes have.
LEMMA PostKeeps ==
  ASSUME PhotoInv, NEW in, NEW out, NEW a \in Nat, Post(in, out, a),
         AllOf(in, "IN"), AllOf(out, "OUT")
  PROVE  /\ worth' \in [Boxes -> Int]
         /\ DOMAIN flows' \subseteq LedgerEntries /\ IsFiniteSet(DOMAIN flows')
         /\ flows' \in [DOMAIN flows' -> Nat]
         /\ BoxesClose'
<1> DEFINE X == in \cup out
           Of(S, b) == {e \in S : e.box = b}
<1>1. IsFiniteSet(X) /\ flows' = Posted(flows, X, a) /\ PhotoTypeOK /\ opening' = opening
  <2>1. IsFiniteSet(X)
    BY FS_Union DEF AllOf
  <2> QED
    BY <2>1 DEF Post, PhotoInv
<1>2. /\ DOMAIN flows' = DOMAIN flows \cup X
      /\ DOMAIN flows' \subseteq LedgerEntries /\ IsFiniteSet(DOMAIN flows')
      /\ flows' \in [DOMAIN flows' -> Nat]
  <2>1. DOMAIN flows' = DOMAIN flows \cup X
    BY <1>1 DEF Posted
  <2>2. DOMAIN flows' \subseteq LedgerEntries /\ IsFiniteSet(DOMAIN flows')
    <3>1. IsFiniteSet(DOMAIN flows \cup X)
      <4> HIDE DEF X
      <4> QED
        BY <1>1, FS_Union DEF PhotoTypeOK
    <3>2. X \subseteq LedgerEntries
      BY DEF AllOf
    <3> HIDE DEF X
    <3> QED
      BY <1>1, <2>1, <3>1, <3>2 DEF PhotoTypeOK
  <2>3. \A e \in DOMAIN flows \cup X : Posted(flows, X, a)[e] \in Nat
    BY <1>1 DEF Posted, PhotoTypeOK
  <2>4. flows' = [e \in DOMAIN flows' |-> flows'[e]]
    BY <1>1, <2>1 DEF Posted
  <2> HIDE DEF X
  <2> QED
    BY <1>1, <2>1, <2>2, <2>3, <2>4
<1>3. \A b \in Boxes : /\ IsFiniteSet(Of(in, b)) /\ IsFiniteSet(Of(out, b))
                       /\ Cardinality(Of(in, b)) \in Nat /\ Cardinality(Of(out, b)) \in Nat
  <2>1. ASSUME NEW S, IsFiniteSet(S), NEW b
        PROVE  IsFiniteSet(Of(S, b)) /\ Cardinality(Of(S, b)) \in Nat
    BY <2>1, FS_Subset, FS_CardinalityType
  <2>2. IsFiniteSet(in) /\ IsFiniteSet(out)
    BY DEF AllOf
  <2> HIDE DEF Of
  <2> QED
    BY <2>1, <2>2
<1>4. worth' = [b \in Boxes |-> worth[b] + a * Cardinality(Of(in, b)) - a * Cardinality(Of(out, b))]
  BY DEF Post
<1>5. worth' \in [Boxes -> Int]
  <2>1. \A b \in Boxes : worth[b] \in Int
    BY <1>1 DEF PhotoTypeOK
  <2>2. \A n \in Nat : a * n \in Int
    OBVIOUS
  <2>3. \A b \in Boxes : worth[b] + a * Cardinality(Of(in, b)) - a * Cardinality(Of(out, b)) \in Int
    <3> HIDE DEF Of
    <3> QED
      BY <1>3, <2>1, <2>2
  <2> HIDE DEF Of
  <2> QED
    BY <1>4, <2>3
<1>6. ASSUME NEW b \in Boxes
      PROVE  BoxLine(b).closing' = worth'[b]
  <2> DEFINE Sum(d) == SumOver(flows, BoxRows(b, d))
             Entered == a * Cardinality(Of(in, b))
             Left == a * Cardinality(Of(out, b))
  <2>1. \A d : SumOver(flows', BoxRows(b, d)')
                 = Sum(d) + a * Cardinality({e \in X : e.box = b /\ e.direction = d})
    <3> SUFFICES ASSUME NEW d
                 PROVE  SumOver(flows', BoxRows(b, d)')
                          = Sum(d) + a * Cardinality({e \in X : e.box = b /\ e.direction = d})
      OBVIOUS
    <3> DEFINE D == {e \in LedgerEntries : e.box = b /\ e.direction = d}
    <3>1. /\ BoxRows(b, d)' = (DOMAIN flows \cup X) \cap D
          /\ BoxRows(b, d) = DOMAIN flows \cap D
          /\ {e \in X : e.box = b /\ e.direction = d} = X \cap D
      BY <1>1, <1>2 DEF BoxRows, PhotoTypeOK
    <3>2. IsFiniteSet(DOMAIN flows) /\ \A e \in DOMAIN flows : flows[e] \in Int
      BY <1>1 DEF PhotoTypeOK
    <3>3. IsFiniteSet(X) /\ a \in Int
      BY <1>1
    <3>4. SumPosted(flows, X, a, D)
      <4> HIDE DEF X, D
      <4> QED
        BY <3>2, <3>3, PostedSum
    <3> HIDE DEF X, D
    <3> QED
      BY <1>1, <3>1, <3>4 DEF SumPosted
  <2>2. /\ {e \in X : e.box = b /\ e.direction = "IN"} = Of(in, b)
        /\ {e \in X : e.box = b /\ e.direction = "OUT"} = Of(out, b)
    BY DEF AllOf
  <2>3. /\ SumOver(flows', BoxRows(b, "IN")') = Sum("IN") + Entered
        /\ SumOver(flows', BoxRows(b, "OUT")') = Sum("OUT") + Left
    <3> HIDE DEF Of, Sum, X
    <3> QED
      BY <2>1, <2>2
  <2>4. /\ Sum("IN") \in Int /\ Sum("OUT") \in Int /\ opening[b] \in Int /\ worth[b] \in Int
    <3>1. BoxRows(b, "IN") \in SUBSET DOMAIN flows /\ BoxRows(b, "OUT") \in SUBSET DOMAIN flows
      BY DEF BoxRows
    <3> QED
      BY <1>1, <3>1, RowsSum DEF PhotoTypeOK
  <2>5. Entered \in Int /\ Left \in Int
    <3>1. \A n \in Nat : a * n \in Int
      OBVIOUS
    <3> HIDE DEF Of
    <3> QED
      BY <1>3, <3>1
  <2>6. worth[b] = opening[b] + Sum("IN") - Sum("OUT")
    BY LineOfBox DEF LineIsOf, PhotoInv, BoxesClose
  <2>7. BoxLine(b).closing' = opening[b] + SumOver(flows', BoxRows(b, "IN")') - SumOver(flows', BoxRows(b, "OUT")')
    BY <1>1, LineOfBoxNext DEF LineIsOf
  <2>8. worth'[b] = worth[b] + Entered - Left
    BY <1>4
  <2> HIDE DEF Sum, Entered, Left
  <2> QED
    BY <2>3, <2>4, <2>5, <2>6, <2>7, <2>8
<1> QED
  BY <1>2, <1>5, <1>6 DEF BoxesClose

\* What an entry attributes is of the tenant.
LEMMA EntryAlone ==
  ASSUME PhotoInv, NEW b \in Boxes, NEW sort \in DOMAIN EntersAs \cup DOMAIN Outgoing,
         NEW d \in {"IN", "OUT"}, NEW z \in ZonePaths \cup {NoZone},
         NEW k \in Collectors \cup {NoCollector}
  PROVE  AllOf({Entry(b, sort, d, z, k)}, d)
<1>1. /\ BoxZone[b] \in ZonePaths \cup {NoZone}
      /\ owner[b] \in Collectors \cup {NoCollector}
  BY PhotoAssumption DEF PhotoInv, PhotoTypeOK
<1>2. Entry(b, sort, d, z, k) \in LedgerEntries /\ Entry(b, sort, d, z, k).direction = d
  BY <1>1 DEF Entry, LedgerEntries
<1>3. IsFiniteSet({Entry(b, sort, d, z, k)})
  BY FS_Singleton
<1> QED
  BY <1>2, <1>3 DEF AllOf

\* No entries are entries of any direction.
LEMMA NoneOf == \A d : AllOf({}, d)
  BY FS_EmptySet DEF AllOf

\* What is spent, moved or found keeps the invariant.
LEMMA LedgerKeeps ==
  ASSUME PhotoInv, NEW in, NEW out, NEW a \in Amounts, Ledger(in, out, a),
         AllOf(in, "IN"), AllOf(out, "OUT")
  PROVE  PhotoInv'
<1>1. a \in Nat /\ Post(in, out, a)
  BY PhotoAssumption DEF Ledger
<1>2. /\ worth' \in [Boxes -> Int]
      /\ DOMAIN flows' \subseteq LedgerEntries /\ IsFiniteSet(DOMAIN flows')
      /\ flows' \in [DOMAIN flows' -> Nat]
      /\ BoxesClose'
  BY <1>1, PostKeeps
<1>3. UNCHANGED <<owner, opening, config, earned, recovered>>
  BY <1>1 DEF Ledger, Post
<1> QED
  BY <1>2, <1>3 DEF PhotoInv, PhotoTypeOK

\* A box begins with what it has.
LEMMA PhotoStart == PhotoInit => PhotoInv
<1> SUFFICES ASSUME PhotoInit PROVE PhotoInv
  OBVIOUS
<1>1. PhotoTypeOK
  <2>1. Amounts \cup {0} \subseteq Int
    BY PhotoAssumption
  <2>2. DOMAIN flows = {} /\ flows \in [{} -> Nat] /\ IsFiniteSet({})
    BY FS_EmptySet DEF PhotoInit, NoFlows
  <2> QED
    BY <2>1, <2>2 DEF PhotoInit, PhotoTypeOK
<1>2. \A b \in Boxes : BoxLine(b).closing = worth[b]
  <2> SUFFICES ASSUME NEW b \in Boxes PROVE BoxLine(b).closing = worth[b]
    OBVIOUS
  <2>1. \A d : BoxRows(b, d) = {}
    BY DEF BoxRows, PhotoInit, NoFlows
  <2>2. BoxLine(b).closing = opening[b] + 0 - 0
    <3>1. SumOver(flows, {}) = 0
      BY SumEmpty
    <3>2. LineIsOf(b)
      BY LineOfBox
    <3> QED
      BY <2>1, <3>1, <3>2 DEF LineIsOf
  <2>3. opening[b] \in Int /\ worth = opening
    BY <1>1 DEF PhotoInit, PhotoTypeOK
  <2> QED
    BY <2>2, <2>3
<1> QED
  BY <1>1, <1>2 DEF PhotoInv, BoxesClose

\* No movement, reassignment or end of a period parts the line of a box from what the box has.
LEMMA PhotoStep == PhotoInv /\ [PhotoNext]_photoVars => PhotoInv'
<1> SUFFICES ASSUME PhotoInv, [PhotoNext]_photoVars PROVE PhotoInv'
  OBVIOUS
<1> USE DEF PhotoInv
<1>1. CASE UNCHANGED photoVars
  <2>1. LedgerEntries' = LedgerEntries
    BY DEF LedgerEntries
  <2>2. \A b \in Boxes : BoxLine(b)' = BoxLine(b)
    BY <1>1 DEF BoxLine, ConceptsOf, photoVars, ConceptOf
  <2> QED
    BY <1>1, <2>1, <2>2 DEF photoVars, PhotoTypeOK, BoxesClose
<1>2. CASE ClosePeriod
  <2>1. /\ opening' = [b \in Boxes |-> BoxLine(b).closing]
        /\ flows' = NoFlows /\ worth' = worth /\ owner' = owner /\ config' = config
        /\ earned' = [z \in ZonePaths |-> 0] /\ recovered' = [k \in Collectors |-> 0]
    BY <1>2 DEF ClosePeriod, NextOpening
  <2>2. DOMAIN flows' = {} /\ flows' \in [{} -> Nat] /\ IsFiniteSet({})
    BY <2>1, FS_EmptySet DEF NoFlows
  <2>3. \A b \in Boxes : opening'[b] = worth[b] /\ worth[b] \in Int
    BY <2>1 DEF BoxesClose, PhotoTypeOK
  <2>4. opening' \in [Boxes -> Int]
    BY <2>1, <2>3
  <2>5. PhotoTypeOK'
    BY <2>1, <2>2, <2>4 DEF PhotoTypeOK
  <2>6. ASSUME NEW b \in Boxes
        PROVE  BoxLine(b).closing' = worth'[b]
    <3>1. \A d : BoxRows(b, d)' = {}
      BY <2>2 DEF BoxRows
    <3>2. BoxLine(b).closing' = opening'[b] + 0 - 0
      <4>1. SumOver(flows', {}) = 0
        BY SumEmpty
      <4>2. LineIsOf(b)'
        BY LineOfBoxNext
      <4> QED
        BY <3>1, <4>1, <4>2 DEF LineIsOf
    <3> QED
      BY <2>1, <2>3, <3>2
  <2> QED
    BY <2>5, <2>6 DEF BoxesClose
<1>3. ASSUME NEW b \in Boxes, NEW k \in Collectors \cup {NoCollector}, Reassign(b, k)
      PROVE  PhotoInv'
  <2>1. \A c \in Boxes : BoxLine(c)' = BoxLine(c)
    BY <1>3 DEF BoxLine, ConceptsOf, Reassign, ConceptOf
  <2>2. owner' \in [Boxes -> Collectors \cup {NoCollector}]
    BY <1>3 DEF Reassign, PhotoTypeOK
  <2> QED
    BY <1>3, <2>1, <2>2 DEF Reassign, PhotoTypeOK, BoxesClose
<1>4. ASSUME NEW b \in Boxes, NEW a \in Amounts, NEW z \in ZonePaths, NEW p \in 0..a,
             CollectPayment(b, z, a, p)
      PROVE  PhotoInv'
  <2> DEFINE e == Entry(b, "PAYMENT_IN", "IN", z, NoCollector)
  <2>1. a \in Nat /\ p \in Nat /\ a - p \in Nat
    BY PhotoAssumption
  <2>2. Post({e}, {}, a) /\ AllOf({e}, "IN") /\ AllOf({}, "OUT")
    <3>1. Post({e}, {}, a)
      BY <1>4 DEF CollectPayment
    <3>2. "PAYMENT_IN" \in DOMAIN EntersAs \cup DOMAIN Outgoing
      BY DEF EntersAs
    <3>3. AllOf({e}, "IN")
      BY <3>2, EntryAlone
    <3> QED
      BY <3>1, <3>3, NoneOf
  <2>3. /\ worth' \in [Boxes -> Int]
        /\ DOMAIN flows' \subseteq LedgerEntries /\ IsFiniteSet(DOMAIN flows')
        /\ flows' \in [DOMAIN flows' -> Nat]
        /\ BoxesClose'
    <3> HIDE DEF e
    <3> QED
      BY <2>1, <2>2, PostKeeps
  <2>4. earned' \in [ZonePaths -> Nat]
    BY <1>4, <2>1 DEF CollectPayment, PhotoTypeOK
  <2>5. recovered' \in [Collectors -> Nat]
    BY <1>4, <2>1 DEF CollectPayment, PhotoTypeOK
  <2>6. UNCHANGED <<owner, opening, config>>
    BY <2>2 DEF Post
  <2> QED
    BY <2>3, <2>4, <2>5, <2>6 DEF PhotoTypeOK
<1>5. ASSUME NEW b \in Boxes, NEW a \in Amounts, NEW z \in ZonePaths, Disburse(b, z, a)
      PROVE  PhotoInv'
  <2> DEFINE e == Entry(b, "DISBURSEMENT", "OUT", z, NoCollector)
  <2>1. AllOf({e}, "OUT") /\ Ledger({}, {e}, a)
    BY <1>5, EntryAlone DEF Disburse, Outgoing
  <2> HIDE DEF e
  <2> QED
    BY <2>1, NoneOf, LedgerKeeps
<1>6. ASSUME NEW b \in Boxes, NEW a \in Amounts, NEW k \in Collectors,
             NEW z \in ZonePaths \cup {NoZone}, NEW sort \in {"EXPENSE", "COMMISSION"},
             PayFor(k, z, b, sort, a)
      PROVE  PhotoInv'
  <2> DEFINE e == Entry(b, sort, "OUT", z, k)
  <2>1. sort \in DOMAIN EntersAs \cup DOMAIN Outgoing
    BY DEF Outgoing
  <2>2. AllOf({e}, "OUT") /\ Ledger({}, {e}, a)
    BY <1>6, <2>1, EntryAlone DEF PayFor
  <2> HIDE DEF e
  <2> QED
    BY <2>2, NoneOf, LedgerKeeps
<1>7. ASSUME NEW b \in Boxes, NEW a \in Amounts, NEW c \in Boxes, Transfer(b, c, a)
      PROVE  PhotoInv'
  <2> DEFINE e == Entry(c, "TRANSFER", "IN", NoZone, NoCollector)
             f == Entry(b, "TRANSFER", "OUT", NoZone, NoCollector)
  <2>1. AllOf({e}, "IN") /\ AllOf({f}, "OUT") /\ Ledger({e}, {f}, a)
    BY <1>7, EntryAlone DEF Transfer, Outgoing
  <2> HIDE DEF e, f
  <2> QED
    BY <2>1, LedgerKeeps
<1>8. ASSUME NEW b \in Boxes, NEW a \in Amounts, NEW d \in {"IN", "OUT"},
             NEW sort \in {"UNIDENTIFIED", "ADJUSTMENT", "WITHDRAWAL"}, MoveBox(b, sort, d, a)
      PROVE  PhotoInv'
  <2> DEFINE e == Entry(b, sort, d, NoZone, NoCollector)
  <2>1. sort \in DOMAIN EntersAs \cup DOMAIN Outgoing
    BY DEF EntersAs, Outgoing
  <2>2. AllOf({e}, d)
    BY <2>1, EntryAlone
  <2>3. IF d = "IN" THEN Ledger({e}, {}, a) ELSE Ledger({}, {e}, a)
    BY <1>8 DEF MoveBox
  <2> HIDE DEF e
  <2>4. CASE d = "IN"
    BY <2>2, <2>3, <2>4, NoneOf, LedgerKeeps
  <2>5. CASE d = "OUT"
    BY <2>2, <2>3, <2>5, NoneOf, LedgerKeeps
  <2> QED
    BY <2>4, <2>5
<1>9. ASSUME NEW b \in Boxes, NEW a \in Amounts, NEW sort \in {"PAYROLL", "WRITE_OFF"},
             CloseDebt(b, sort, a)
      PROVE  PhotoInv'
  <2> DEFINE e == Entry(b, sort, "OUT", NoZone, NoCollector)
  <2>1. sort \in DOMAIN EntersAs \cup DOMAIN Outgoing
    BY DEF Outgoing
  <2>2. AllOf({e}, "OUT") /\ Ledger({}, {e}, a)
    BY <1>9, <2>1, EntryAlone DEF CloseDebt
  <2> HIDE DEF e
  <2> QED
    BY <2>2, NoneOf, LedgerKeeps
<1> QED
  BY <1>1, <1>2, <1>3, <1>4, <1>5, <1>6, <1>7, <1>8, <1>9 DEF PhotoNext

-----------------------------------------------------------------------------
(* SettlementPhoto: the figures of the photograph.                          *)

\* A function of a finite domain has finitely many values.
LEMMA RangeFinite ==
  ASSUME NEW f, IsFiniteSet(DOMAIN f)
  PROVE  IsFiniteSet({f[x] : x \in DOMAIN f})
<1> DEFINE T == {f[x] : x \in DOMAIN f}
           g == [x \in DOMAIN f |-> f[x]]
<1>1. g \in Surjection(DOMAIN f, T)
  BY DEF Surjection
<1> HIDE DEF T, g
<1>2. IsFiniteSet(T)
  BY <1>1, FS_Surjection
<1> QED
  BY <1>2 DEF T

\* Four values are finitely many.
LEMMA FourFinite == \A a, b, c, d : IsFiniteSet({a, b, c, d})
<1> SUFFICES ASSUME NEW a, NEW b, NEW c, NEW d PROVE IsFiniteSet({a, b, c, d})
  OBVIOUS
<1>1. IsFiniteSet({a}) /\ IsFiniteSet({b}) /\ IsFiniteSet({c}) /\ IsFiniteSet({d})
  BY FS_Singleton
<1>2. IsFiniteSet({a} \cup {b}) /\ IsFiniteSet({c} \cup {d})
  BY <1>1, FS_Union
<1>3. IsFiniteSet(({a} \cup {b}) \cup ({c} \cup {d}))
  BY <1>2, FS_Union
<1>4. ({a} \cup {b}) \cup ({c} \cup {d}) = {a, b, c, d}
  OBVIOUS
<1> QED
  BY <1>3, <1>4

\* The concepts are finitely many, and none is of entries in and of entries out.
LEMMA ConceptsFacts ==
  /\ IsFiniteSet(ConceptsIn) /\ IsFiniteSet(ConceptsOut)
  /\ ConceptsIn = {"COLLECTED", "UNIDENTIFIED", "TRANSFERS_IN", "ADJUSTMENTS_IN", "OTHER_IN"}
  /\ ConceptsOut = {"DISBURSED", "EXPENSES", "WITHDRAWALS", "TRANSFERS_OUT", "ADJUSTMENTS_OUT",
                    "DEBT_PAYROLL", "DEBT_WRITE_OFF", "COMMISSIONS", "OTHER_OUT"}
<1>1. /\ ConceptsIn = {"COLLECTED", "UNIDENTIFIED", "TRANSFERS_IN", "ADJUSTMENTS_IN", "OTHER_IN"}
      /\ ConceptsOut = {"DISBURSED", "EXPENSES", "WITHDRAWALS", "TRANSFERS_OUT", "ADJUSTMENTS_OUT",
                        "DEBT_PAYROLL", "DEBT_WRITE_OFF", "COMMISSIONS", "OTHER_OUT"}
  BY DEF ConceptsIn, ConceptsOut, EntersAs, Outgoing
<1>2. IsFiniteSet(ConceptsIn)
  <2> DEFINE A == {"COLLECTED", "UNIDENTIFIED", "TRANSFERS_IN", "ADJUSTMENTS_IN"}
  <2>1. IsFiniteSet(A) /\ IsFiniteSet({"OTHER_IN"})
    BY FourFinite, FS_Singleton
  <2>2. ConceptsIn = A \cup {"OTHER_IN"}
    BY <1>1
  <2> HIDE DEF A
  <2> QED
    BY <2>1, <2>2, FS_Union
<1>3. IsFiniteSet(ConceptsOut)
  <2> DEFINE A == {"DISBURSED", "EXPENSES", "WITHDRAWALS", "TRANSFERS_OUT"}
             B == {"ADJUSTMENTS_OUT", "DEBT_PAYROLL", "DEBT_WRITE_OFF", "COMMISSIONS"}
  <2>1. IsFiniteSet(A) /\ IsFiniteSet(B) /\ IsFiniteSet({"OTHER_OUT"})
    BY FourFinite, FS_Singleton
  <2>2. ConceptsOut = (A \cup B) \cup {"OTHER_OUT"}
    BY <1>1
  <2> HIDE DEF A, B
  <2>3. IsFiniteSet(A \cup B)
    BY <2>1, FS_Union
  <2> QED
    BY <2>1, <2>2, <2>3, FS_Union
<1> QED
  BY <1>1, <1>2, <1>3

\* An entry is of a concept of its direction.
LEMMA ConceptOfEntry ==
  ASSUME NEW e \in LedgerEntries
  PROVE  /\ e.direction = "IN" => ConceptOf(e) \in ConceptsIn
         /\ e.direction = "OUT" => ConceptOf(e) \in ConceptsOut
<1>1. e.direction \in {"IN", "OUT"}
  BY DEF LedgerEntries
<1>2. CASE e.direction = "IN"
  BY <1>2 DEF ConceptOf, ConceptsIn
<1>3. CASE e.direction = "OUT"
  BY <1>3 DEF ConceptOf, ConceptsOut
<1> QED
  BY <1>1, <1>2, <1>3

OfConcept(c) == {e \in DOMAIN flows : ConceptOf(e) = c}
InDirection(d) == {e \in DOMAIN flows : e.direction = d}

\* Entries shared out between groups sum to the same.
LEMMA FlowsGrouped ==
  ASSUME PhotoTypeOK, NEW S \in SUBSET DOMAIN flows, NEW T, IsFiniteSet(T),
         NEW g, NEW G, Grouping(flows, S, G, T, g)
  PROVE  /\ \A t \in T : G[t] \in Int
         /\ SumOver(G, T) = SumOver(flows, S)
<1>1. IsFiniteSet(S) /\ \A e \in S : flows[e] \in Int
  BY RowsSum
<1>2. \A t \in T : G[t] \in Int
  BY <1>1, SumGroup
<1>3. SumOver(G, T) = SumOver(flows, S)
  BY <1>1, SumGroup
<1> QED
  BY <1>2, <1>3

Lines == [b \in Boxes |-> BoxLine(b)]
Team == [k \in WithBox |-> CollectorLine(k)]
Lined == LinedZones(Team)
Tree == [z \in Lined |-> ZoneLine(z, Team)]

\* The fields of the photograph.
LEMMA PhotographIs ==
  /\ Photograph.boxes = Lines /\ Photograph.zones = Tree /\ Photograph.collectors = Team
  /\ Photograph.opening = SumOver([b \in Boxes |-> BoxLine(b).opening], Boxes)
  /\ Photograph.in = SumOver([b \in Boxes |-> BoxLine(b).in], Boxes)
  /\ Photograph.out = SumOver([b \in Boxes |-> BoxLine(b).out], Boxes)
  /\ Photograph.closing = SumOver([b \in Boxes |-> BoxLine(b).closing], Boxes)
  /\ Photograph.concepts =
       [c \in Concepts |-> SumOver([b \in Boxes |-> BoxLine(b).concepts[c]], Boxes)]
  /\ Photograph.commissions = SumOver([z \in Lined |-> ZoneLine(z, Team).commissions], Lined)
  /\ Photograph.utility = SumOver([z \in Lined |-> ZoneLine(z, Team).utility], Lined)
<1>1. Photograph = Totalled(Lines, Tree, Team)
  BY DEF Photograph, Lines, Tree, Lined, Team
<1>2. /\ Photograph.boxes = Lines /\ Photograph.zones = Tree /\ Photograph.collectors = Team
      /\ Photograph.opening = Total([b \in DOMAIN Lines |-> Lines[b].opening])
      /\ Photograph.in = Total([b \in DOMAIN Lines |-> Lines[b].in])
      /\ Photograph.out = Total([b \in DOMAIN Lines |-> Lines[b].out])
      /\ Photograph.closing = Total([b \in DOMAIN Lines |-> Lines[b].closing])
      /\ Photograph.concepts = [c \in Concepts |-> Total([b \in DOMAIN Lines |-> Lines[b].concepts[c]])]
      /\ Photograph.commissions = Total([z \in DOMAIN Tree |-> Tree[z].commissions])
      /\ Photograph.utility = Total([z \in DOMAIN Tree |-> Tree[z].utility])
  BY <1>1 DEF Totalled
<1>3. /\ DOMAIN Lines = Boxes
      /\ [b \in DOMAIN Lines |-> Lines[b].opening] = [b \in Boxes |-> BoxLine(b).opening]
      /\ [b \in DOMAIN Lines |-> Lines[b].in] = [b \in Boxes |-> BoxLine(b).in]
      /\ [b \in DOMAIN Lines |-> Lines[b].out] = [b \in Boxes |-> BoxLine(b).out]
      /\ [b \in DOMAIN Lines |-> Lines[b].closing] = [b \in Boxes |-> BoxLine(b).closing]
      /\ \A c \in Concepts : [b \in DOMAIN Lines |-> Lines[b].concepts[c]]
                               = [b \in Boxes |-> BoxLine(b).concepts[c]]
  BY DEF Lines
<1>4. /\ DOMAIN Tree = Lined
      /\ [z \in DOMAIN Tree |-> Tree[z].commissions] = [z \in Lined |-> ZoneLine(z, Team).commissions]
      /\ [z \in DOMAIN Tree |-> Tree[z].utility] = [z \in Lined |-> ZoneLine(z, Team).utility]
  BY DEF Tree
<1>5. /\ \A c \in Concepts : Total([b \in Boxes |-> BoxLine(b).concepts[c]])
                               = SumOver([b \in Boxes |-> BoxLine(b).concepts[c]], Boxes)
      /\ Total([b \in Boxes |-> BoxLine(b).opening]) = SumOver([b \in Boxes |-> BoxLine(b).opening], Boxes)
      /\ Total([b \in Boxes |-> BoxLine(b).in]) = SumOver([b \in Boxes |-> BoxLine(b).in], Boxes)
      /\ Total([b \in Boxes |-> BoxLine(b).out]) = SumOver([b \in Boxes |-> BoxLine(b).out], Boxes)
      /\ Total([b \in Boxes |-> BoxLine(b).closing]) = SumOver([b \in Boxes |-> BoxLine(b).closing], Boxes)
      /\ Total([z \in Lined |-> ZoneLine(z, Team).commissions])
           = SumOver([z \in Lined |-> ZoneLine(z, Team).commissions], Lined)
      /\ Total([z \in Lined |-> ZoneLine(z, Team).utility])
           = SumOver([z \in Lined |-> ZoneLine(z, Team).utility], Lined)
  BY DEF Total
<1>6. [c \in Concepts |-> Total([b \in DOMAIN Lines |-> Lines[b].concepts[c]])]
        = [c \in Concepts |-> SumOver([b \in Boxes |-> BoxLine(b).concepts[c]], Boxes)]
  <2>1. \A c \in Concepts : Total([b \in DOMAIN Lines |-> Lines[b].concepts[c]])
                              = SumOver([b \in Boxes |-> BoxLine(b).concepts[c]], Boxes)
    BY <1>3, <1>5
  <2> QED
    BY <2>1
<1>7. /\ Photograph.opening = SumOver([b \in Boxes |-> BoxLine(b).opening], Boxes)
      /\ Photograph.in = SumOver([b \in Boxes |-> BoxLine(b).in], Boxes)
      /\ Photograph.out = SumOver([b \in Boxes |-> BoxLine(b).out], Boxes)
      /\ Photograph.closing = SumOver([b \in Boxes |-> BoxLine(b).closing], Boxes)
  BY <1>2, <1>3, <1>5
<1>8. /\ Photograph.commissions = SumOver([z \in Lined |-> ZoneLine(z, Team).commissions], Lined)
      /\ Photograph.utility = SumOver([z \in Lined |-> ZoneLine(z, Team).utility], Lined)
  BY <1>2, <1>4, <1>5
<1> QED
  BY <1>2, <1>6, <1>7, <1>8

\* What moved through the boxes is what the entries of each direction sum.
LEMMA ColumnIn ==
  ASSUME PhotoTypeOK
  PROVE  /\ Photograph.in = SumOver(flows, InDirection("IN"))
         /\ Photograph.out = SumOver(flows, InDirection("OUT"))
<1>1. ASSUME NEW d, NEW G, \A b \in Boxes : G[b] = SumOver(flows, BoxRows(b, d))
      PROVE  SumOver(G, Boxes) = SumOver(flows, InDirection(d))
  <2> DEFINE S == InDirection(d)
             g == [e \in S |-> e.box]
  <2>1. S \in SUBSET DOMAIN flows /\ \A e \in S : e.box \in Boxes
    BY DEF InDirection, PhotoTypeOK, LedgerEntries
  <2>2. \A b \in Boxes : {e \in S : g[e] = b} = BoxRows(b, d)
    BY DEF InDirection, BoxRows
  <2>3. Grouping(flows, S, G, Boxes, g)
    BY <1>1, <2>1, <2>2 DEF Grouping
  <2> HIDE DEF S, g
  <2>4. SumOver(G, Boxes) = SumOver(flows, S)
    BY <2>1, <2>3, BoxesFinite, FlowsGrouped
  <2> QED
    BY <2>4 DEF S
<1>2. \A b \in Boxes : LineIsOf(b)
  BY LineOfBox
<1> DEFINE I == [b \in Boxes |-> BoxLine(b).in]
           U == [b \in Boxes |-> BoxLine(b).out]
<1>3. /\ \A b \in Boxes : I[b] = SumOver(flows, BoxRows(b, "IN"))
      /\ \A b \in Boxes : U[b] = SumOver(flows, BoxRows(b, "OUT"))
  BY <1>2 DEF LineIsOf
<1>4. Photograph.in = SumOver(I, Boxes) /\ Photograph.out = SumOver(U, Boxes)
  BY PhotographIs
<1> HIDE DEF I, U
<1>5. SumOver(I, Boxes) = SumOver(flows, InDirection("IN"))
  BY <1>1, <1>3
<1>6. SumOver(U, Boxes) = SumOver(flows, InDirection("OUT"))
  BY <1>1, <1>3
<1> QED
  BY <1>4, <1>5, <1>6

\* A concept of the photograph sums its entries in every box.
LEMMA ConceptColumn ==
  ASSUME PhotoTypeOK
  PROVE  Photograph.concepts = [c \in Concepts |-> SumOver(flows, OfConcept(c))]
<1>1. ASSUME NEW c \in Concepts
      PROVE  SumOver([b \in Boxes |-> BoxLine(b).concepts[c]], Boxes) = SumOver(flows, OfConcept(c))
  <2> DEFINE S == OfConcept(c)
             g == [e \in S |-> e.box]
             G == [b \in Boxes |-> BoxLine(b).concepts[c]]
  <2>1. S \in SUBSET DOMAIN flows /\ \A e \in S : e.box \in Boxes
    BY DEF OfConcept, PhotoTypeOK, LedgerEntries
  <2>2. \A b \in Boxes : {e \in S : g[e] = b} = {e \in DOMAIN flows : e.box = b /\ ConceptOf(e) = c}
    BY DEF OfConcept
  <2>3. \A b \in Boxes : G[b] = SumOver(flows, {e \in DOMAIN flows : e.box = b /\ ConceptOf(e) = c})
    <3>1. \A b \in Boxes : LineIsOf(b)
      BY LineOfBox
    <3> QED
      BY <3>1 DEF LineIsOf
  <2>4. Grouping(flows, S, G, Boxes, g)
    <3>1. \A b \in Boxes : G[b] = SumOver(flows, {e \in S : g[e] = b})
      <4> HIDE DEF S, g, G
      <4> QED
        BY <2>2, <2>3
    <3>2. \A e \in S : g[e] \in Boxes
      BY <2>1
    <3> HIDE DEF S, g, G
    <3> QED
      BY <3>1, <3>2 DEF Grouping
  <2> HIDE DEF S, g, G
  <2>5. SumOver(G, Boxes) = SumOver(flows, S)
    BY <2>1, <2>4, BoxesFinite, FlowsGrouped
  <2> QED
    BY <2>5 DEF G, S
<1>2. Photograph.concepts =
        [c \in Concepts |-> SumOver([b \in Boxes |-> BoxLine(b).concepts[c]], Boxes)]
  BY PhotographIs
<1> QED
  BY <1>1, <1>2

\* Naturals have a least one.
LEMMA SmallestNumber ==
  ASSUME NEW S \in SUBSET Nat, S # {}
  PROVE  \E n \in S : \A m \in S : n <= m
<1> DEFINE R == OpToRel(<, Nat)
<1>1. IsWellFoundedOn(R, Nat)
  BY NatLessThanWellFounded
<1>2. PICK n \in S : \A m \in S : ~ (<<m, n>> \in R)
  <2> HIDE DEF R
  <2> QED
    BY <1>1, WFMin
<1>3. \A m \in S : m < n => <<m, n>> \in R
  BY DEF OpToRel
<1>4. \A m \in S : m \in Nat /\ n \in Nat /\ ~ (m < n)
  BY <1>2, <1>3
<1> QED
  BY <1>4

\* A collector with a box is of the zone of his first box.
LEMMA ZoneOfTeam ==
  ASSUME PhotoTypeOK, NEW k \in WithBox
  PROVE  \E b \in OwnBoxes(k) : ZoneOf(k) = BoxZone[b]
<1> DEFINE D == {i \in DOMAIN BoxOrder : owner[BoxOrder[i]] = k}
           Leads(i) == owner[BoxOrder[i]] = k /\ \A j \in 1..(i - 1) : owner[BoxOrder[j]] # k
<1>1. DOMAIN BoxOrder = 1..Len(BoxOrder) /\ Len(BoxOrder) \in Nat
  BY PhotoAssumption
<1>2. D \in SUBSET Nat /\ D # {}
  BY <1>1 DEF WithBox, OwnBoxes, Boxes
<1>3. PICK n \in D : \A m \in D : n <= m
  BY <1>2, SmallestNumber
<1>4. n \in DOMAIN BoxOrder /\ Leads(n)
  <2>1. \A j \in 1..(n - 1) : j \in DOMAIN BoxOrder /\ ~ (n <= j)
    BY <1>1, <1>3
  <2> QED
    BY <1>3, <2>1
<1>5. ZoneOf(k) = BoxZone[BoxOrder[CHOOSE i \in DOMAIN BoxOrder : Leads(i)]]
  BY DEF ZoneOf
<1>6. PICK i \in DOMAIN BoxOrder : Leads(i) /\ ZoneOf(k) = BoxZone[BoxOrder[i]]
  <2>1. (CHOOSE i \in DOMAIN BoxOrder : Leads(i)) \in DOMAIN BoxOrder
        /\ Leads(CHOOSE i \in DOMAIN BoxOrder : Leads(i))
    <3> HIDE DEF Leads
    <3> QED
      BY <1>4
  <2> QED
    BY <1>5, <2>1
<1>7. BoxOrder[i] \in OwnBoxes(k)
  BY <1>6 DEF OwnBoxes, Boxes
<1> QED
  BY <1>6, <1>7

\* The lines of the collectors.
LEMMA TeamFacts ==
  ASSUME PhotoTypeOK
  PROVE  /\ IsFiniteSet(WithBox) /\ DOMAIN Team = WithBox
         /\ \A k \in WithBox : /\ Team[k] = CollectorLine(k) /\ Team[k].zone = ZoneOf(k)
                               /\ Team[k].zone \in ZonePaths \cup {NoZone}
<1>1. IsFiniteSet(WithBox)
  BY PhotoAssumption, FS_Subset DEF WithBox
<1>2. \A k \in WithBox : ZoneOf(k) \in ZonePaths \cup {NoZone}
  <2>1. \A b \in Boxes : BoxZone[b] \in ZonePaths \cup {NoZone}
    BY PhotoAssumption
  <2> QED
    BY <2>1, ZoneOfTeam DEF OwnBoxes
<1> QED
  BY <1>1, <1>2 DEF Team, CollectorLine

\* The lines of the zones: of each entry, each portfolio and each commission that is owed.
LEMMA LinedFacts ==
  ASSUME PhotoTypeOK
  PROVE  /\ Lined \subseteq ZonePaths \cup {NoZone} /\ IsFiniteSet(Lined)
         /\ \A e \in DOMAIN flows : e.zone \in Lined
         /\ \A z \in ZonePaths : earned[z] > 0 => z \in Lined
         /\ \A k \in WithBox : Team[k].commission > 0 => Team[k].zone \in Lined
<1>1. \A e \in DOMAIN flows : e.zone \in ZonePaths \cup {NoZone}
  BY DEF PhotoTypeOK, LedgerEntries
<1>2. Lined = {e.zone : e \in DOMAIN flows} \cup {z \in ZonePaths : earned[z] > 0}
                \cup {Team[k].zone : k \in {j \in WithBox : Team[j].commission > 0}}
  BY TeamFacts DEF Lined, LinedZones
<1>3. Lined \subseteq ZonePaths \cup {NoZone}
  BY <1>1, <1>2, TeamFacts
<1>4. IsFiniteSet(ZonePaths \cup {NoZone})
  BY PhotoAssumption, FS_Singleton, FS_Union
<1>5. IsFiniteSet(Lined)
  BY <1>3, <1>4, FS_Subset
<1> QED
  BY <1>2, <1>3, <1>5

\* The treasury is the ledger's.
LEMMA BoxesDoAddUp ==
  ASSUME PhotoInv
  PROVE  BoxesAddUp(Photograph)
<1>1. PhotoTypeOK
  BY DEF PhotoInv
<1>2. \A b \in Boxes : Photograph.boxes[b].closing = worth[b]
  BY PhotographIs DEF PhotoInv, BoxesClose, Lines
<1>3. ASSUME NEW d \in {"IN", "OUT"}, NEW T \in SUBSET Concepts, IsFiniteSet(T),
             \A e \in DOMAIN flows : ConceptOf(e) \in T <=> e.direction = d
      PROVE  SumOver(Photograph.concepts, T) = SumOver(flows, InDirection(d))
  <2> DEFINE S == InDirection(d)
             g == [e \in S |-> ConceptOf(e)]
             G == Photograph.concepts
  <2>1. S \in SUBSET DOMAIN flows /\ \A e \in S : g[e] \in T
    BY <1>3 DEF InDirection
  <2>2. \A c \in T : {e \in S : g[e] = c} = OfConcept(c)
    BY <1>3 DEF InDirection, OfConcept
  <2>3. \A c \in T : G[c] = SumOver(flows, OfConcept(c))
    BY <1>1, ConceptColumn
  <2>4. Grouping(flows, S, G, T, g)
    <3>1. \A c \in T : G[c] = SumOver(flows, {e \in S : g[e] = c})
      <4> HIDE DEF S, g, G
      <4> QED
        BY <2>2, <2>3
    <3> HIDE DEF S, g, G
    <3> QED
      BY <2>1, <3>1 DEF Grouping
  <2> HIDE DEF S, g, G
  <2>5. SumOver(G, T) = SumOver(flows, S)
    BY <1>1, <1>3, <2>1, <2>4, FlowsGrouped
  <2> QED
    BY <2>5 DEF S, G
<1>4. \A e \in DOMAIN flows : /\ ConceptOf(e) \in ConceptsIn <=> e.direction = "IN"
                              /\ ConceptOf(e) \in ConceptsOut <=> e.direction = "OUT"
  <2>1. \A e \in DOMAIN flows : e \in LedgerEntries /\ e.direction \in {"IN", "OUT"}
    BY <1>1 DEF PhotoTypeOK, LedgerEntries
  <2>2. ConceptsIn \cap ConceptsOut = {}
    BY ConceptsFacts
  <2> QED
    BY <2>1, <2>2, ConceptOfEntry
<1>5. ConceptsIn \in SUBSET Concepts /\ ConceptsOut \in SUBSET Concepts
  BY DEF Concepts
<1>6. /\ SumOver(Photograph.concepts, ConceptsIn) = Photograph.in
      /\ SumOver(Photograph.concepts, ConceptsOut) = Photograph.out
  <2>1. SumOver(Photograph.concepts, ConceptsIn) = SumOver(flows, InDirection("IN"))
    BY <1>3, <1>4, <1>5, ConceptsFacts
  <2>2. SumOver(Photograph.concepts, ConceptsOut) = SumOver(flows, InDirection("OUT"))
    BY <1>3, <1>4, <1>5, ConceptsFacts
  <2> QED
    BY <1>1, <2>1, <2>2, ColumnIn
<1>7. Photograph.opening + Photograph.in - Photograph.out = Photograph.closing
  <2> DEFINE o == [b \in Boxes |-> BoxLine(b).opening]
             i == [b \in Boxes |-> BoxLine(b).in]
             u == [b \in Boxes |-> BoxLine(b).out]
             c == [b \in Boxes |-> BoxLine(b).closing]
             x == [b \in Boxes |-> o[b] + i[b]]
  <2>1. \A b \in Boxes : o[b] \in Int /\ i[b] \in Int /\ u[b] \in Int /\ c[b] = o[b] + i[b] - u[b]
    <3> SUFFICES ASSUME NEW b \in Boxes
                 PROVE  o[b] \in Int /\ i[b] \in Int /\ u[b] \in Int /\ c[b] = o[b] + i[b] - u[b]
      OBVIOUS
    <3>1. LineIsOf(b) /\ opening[b] \in Int
      BY <1>1, LineOfBox DEF PhotoTypeOK
    <3>2. BoxRows(b, "IN") \in SUBSET DOMAIN flows /\ BoxRows(b, "OUT") \in SUBSET DOMAIN flows
      BY DEF BoxRows
    <3>3. SumOver(flows, BoxRows(b, "IN")) \in Int /\ SumOver(flows, BoxRows(b, "OUT")) \in Int
      BY <1>1, <3>2, RowsSum
    <3> QED
      BY <3>1, <3>3 DEF LineIsOf
  <2>2. \A b \in Boxes : /\ o[b] \in Int /\ i[b] \in Int /\ x[b] = o[b] + i[b]
    BY <2>1
  <2>3. \A b \in Boxes : /\ x[b] \in Int /\ u[b] \in Int /\ c[b] = x[b] - u[b]
    BY <2>1
  <2>4. /\ Photograph.opening = SumOver(o, Boxes) /\ Photograph.in = SumOver(i, Boxes)
        /\ Photograph.out = SumOver(u, Boxes) /\ Photograph.closing = SumOver(c, Boxes)
    BY PhotographIs
  <2> HIDE DEF o, i, u, c, x
  <2>5. SumOver(o, Boxes) \in Int /\ SumOver(i, Boxes) \in Int /\ SumOver(u, Boxes) \in Int
    BY <2>1, BoxesFinite, SumInt
  <2>6. SumOver(x, Boxes) = SumOver(o, Boxes) + SumOver(i, Boxes)
    BY <2>2, BoxesFinite, SumPlus
  <2>7. SumOver(c, Boxes) = SumOver(x, Boxes) - SumOver(u, Boxes)
    BY <2>3, BoxesFinite, SumMinus
  <2> QED
    BY <2>4, <2>5, <2>6, <2>7
<1> QED
  BY <1>2, <1>6, <1>7 DEF BoxesAddUp

\* Zones and boxes tell of the same entries: each entry is of one box and of one zone.
LEMMA ZonesDoAddUp ==
  ASSUME PhotoInv
  PROVE  ZonesAddUp(Photograph)
<1>1. PhotoTypeOK
  BY DEF PhotoInv
<1>2. ASSUME NEW c \in Concepts
      PROVE  Photograph.concepts[c]
               = Total([z \in DOMAIN Photograph.zones |-> Photograph.zones[z].concepts[c]])
  <2> DEFINE S == OfConcept(c)
             g == [e \in S |-> e.zone]
             G == [z \in Lined |-> Tree[z].concepts[c]]
  <2>1. S \in SUBSET DOMAIN flows /\ \A e \in S : g[e] \in Lined
    BY <1>1, LinedFacts DEF OfConcept
  <2>2. \A z \in Lined : G[z] = SumOver(flows, {e \in S : g[e] = z})
    <3> SUFFICES ASSUME NEW z \in Lined
                 PROVE  G[z] = SumOver(flows, {e \in S : g[e] = z})
      OBVIOUS
    <3> DEFINE rows == {e \in DOMAIN flows : e.zone = z}
    <3>1. {e \in rows : ConceptOf(e) = c} = {e \in S : g[e] = z}
      BY DEF OfConcept
    <3>2. Tree[z].concepts = ConceptsOf(rows).concepts
      BY DEF Tree, ZoneLine
    <3>3. ConceptsOf(rows).concepts[c] = SumOver(flows, {e \in rows : ConceptOf(e) = c})
      <4> HIDE DEF rows
      <4> QED
        BY DEF ConceptsOf
    <3> HIDE DEF rows, S, g
    <3> QED
      BY <3>1, <3>2, <3>3
  <2>3. Grouping(flows, S, G, Lined, g)
    <3> HIDE DEF S, g, G
    <3> QED
      BY <2>1, <2>2 DEF Grouping
  <2>4. Total([z \in DOMAIN Photograph.zones |-> Photograph.zones[z].concepts[c]]) = SumOver(G, Lined)
    BY PhotographIs DEF Total, Tree
  <2> HIDE DEF S, g, G
  <2>5. SumOver(G, Lined) = SumOver(flows, S)
    BY <1>1, <2>1, <2>3, LinedFacts, FlowsGrouped
  <2>6. Photograph.concepts[c] = SumOver(flows, S)
    BY <1>1, ConceptColumn DEF S
  <2> QED
    BY <2>4, <2>5, <2>6
<1> QED
  BY <1>2 DEF ZonesAddUp

\* The greatest and the least of a few numbers.
LEMMA MaxOfThree ==
  ASSUME NEW a \in Int, NEW b \in Int, NEW c \in Int
  PROVE  /\ Max({a, b, c}) \in {a, b, c}
         /\ \A x \in {a, b, c} : x <= Max({a, b, c})
<1>1. \E x \in {a, b, c} : \A y \in {a, b, c} : x >= y
  <2>1. CASE a >= b /\ a >= c
    BY <2>1
  <2>2. CASE b >= a /\ b >= c
    BY <2>2
  <2>3. CASE c >= a /\ c >= b
    BY <2>3
  <2> QED
    BY <2>1, <2>2, <2>3
<1> DEFINE S == {a, b, c}
<1>2. Max(S) = CHOOSE x \in S : \A y \in S : x >= y
  BY DEF Max
<1>3. Max(S) \in S /\ \A y \in S : Max(S) >= y
  <2> HIDE DEF S
  <2> QED
    BY <1>1, <1>2 DEF S
<1> QED
  BY <1>3

\* The greater of two.
LEMMA MaxOfTwo ==
  ASSUME NEW a \in Int, NEW b \in Int
  PROVE  Max({a, b}) \in {a, b} /\ a <= Max({a, b}) /\ b <= Max({a, b})
<1>1. {a, b} = {a, b, b}
  OBVIOUS
<1>2. Max({a, b, b}) \in {a, b, b} /\ \A x \in {a, b, b} : x <= Max({a, b, b})
  BY MaxOfThree
<1> QED
  BY <1>1, <1>2

\* The lesser of two.
LEMMA MinOfTwo ==
  ASSUME NEW a \in Int, NEW b \in Int
  PROVE  Min({a, b}) \in {a, b} /\ Min({a, b}) <= a /\ Min({a, b}) <= b
<1>1. \E x \in {a, b} : \A y \in {a, b} : x <= y
  <2>1. CASE a <= b
    BY <2>1
  <2>2. CASE b <= a
    BY <2>2
  <2> QED
    BY <2>1, <2>2
<1>2. Min({a, b}) = CHOOSE x \in {a, b} : \A y \in {a, b} : x <= y
  BY DEF Min
<1> QED
  BY <1>1, <1>2

\* A part of an amount, in integers.
LEMMA PartOfAmount ==
  ASSUME NEW f \in Nat, NEW r \in Nat, NEW t \in Nat \ {0}, r <= t
  PROVE  /\ (f * r) \div t \in Nat /\ (f * r) \div t <= f
         /\ ((f * r) \div t) * t <= f * r
<1> DEFINE y == f * r
           q == y \div t
<1>1. y \in Nat /\ y <= f * t /\ f * t \in Nat
  OBVIOUS
<1> HIDE DEF y
<1>2. q \in Nat /\ q * t <= y
  BY <1>1
<1> HIDE DEF q
<1>3. q <= f
  <2> SUFFICES ASSUME f + 1 <= q PROVE FALSE
    BY <1>2
  <2>1. (f + 1) * t <= q * t
    BY <1>2
  <2>2. (f + 1) * t = f * t + t /\ q * t \in Int
    BY <1>2
  <2> QED
    BY <1>1, <1>2, <2>1, <2>2
<1> QED
  BY <1>2, <1>3 DEF y, q

\* What a commission is taken of is an amount.
LEMMA FiguresFacts ==
  ASSUME PhotoTypeOK, NEW k \in WithBox
  PROVE  /\ DOMAIN FiguresOf(k) = Bases
         /\ \A f \in Bases : FiguresOf(k)[f] \in Nat
<1> DEFINE rows == {e \in DOMAIN flows : e.collector = k}
           c == ConceptsOf(rows).concepts
<1>1. \A x \in Concepts : c[x] \in Nat
  <2>1. c = [x \in Concepts |-> SumOver(flows, {e \in rows : ConceptOf(e) = x})]
    <3> HIDE DEF rows
    <3> QED
      BY DEF ConceptsOf
  <2>2. \A x \in Concepts : {e \in rows : ConceptOf(e) = x} \in SUBSET DOMAIN flows
    OBVIOUS
  <2>3. \A x \in Concepts : SumOver(flows, {e \in rows : ConceptOf(e) = x}) \in Nat
    <3> HIDE DEF rows
    <3> QED
      BY <2>2, RowsSum
  <2> HIDE DEF c, rows
  <2> QED
    BY <2>1, <2>3
<1>2. "COLLECTED" \in Concepts /\ "TRANSFERS_IN" \in Concepts /\ "TRANSFERS_OUT" \in Concepts
  BY ConceptsFacts DEF Concepts
<1>3. Remitted(c) \in Nat
  <2> DEFINE x == c["TRANSFERS_OUT"] - c["TRANSFERS_IN"]
  <2>1. x \in Int
    <3> HIDE DEF c
    <3> QED
      BY <1>1, <1>2
  <2> HIDE DEF x
  <2>2. Max({0, x}) \in {0, x} /\ 0 <= Max({0, x})
    BY <2>1, MaxOfTwo
  <2>3. Max({0, x}) \in Nat
    BY <2>1, <2>2
  <2> QED
    BY <2>3 DEF Remitted, x
<1>4. recovered[k] \in Nat
  BY DEF PhotoTypeOK, WithBox
<1>5. FiguresOf(k) = [COLLECTED |-> c["COLLECTED"], REMITTED |-> Remitted(c),
                      PRINCIPAL_RECOVERED |-> recovered[k]]
  BY DEF FiguresOf
<1> HIDE DEF c, rows
<1> QED
  BY <1>1, <1>2, <1>3, <1>4, <1>5 DEF Bases

\* The policy of a zone is one of the configuration, with its rate under the cap; that
\* of a zone with a setting is its own.
LEMMA PolicyFacts ==
  ASSUME PhotoTypeOK, NEW z \in ZonePaths \cup {NoZone}
  PROVE  /\ PolicyOf(z).base \in Bases /\ PolicyOf(z).rate \in Nat
         /\ PolicyOf(z).rate <= config.cap
         /\ z \in DOMAIN config.zones =>
              /\ PolicyOf(z).base = config.zones[z].base
              /\ PolicyOf(z).rate <= config.zones[z].rate
<1> DEFINE own == IF Containing(z) = {} THEN config.default
                  ELSE config.zones[DeepestSetting(z)]
<1>1. /\ config \in Configs /\ config.cap \in Nat /\ config.default \in CommissionPolicies
      /\ DOMAIN config.zones \subseteq ZonePaths
      /\ \A s \in DOMAIN config.zones : config.zones[s] \in CommissionPolicies
  BY PhotoAssumption DEF PhotoTypeOK
<1>2. \A s \in Containing(z) : /\ s \in DOMAIN config.zones /\ s \in Seq(STRING)
                               /\ Len(s) \in Nat /\ Len(s) <= Len(z)
                               /\ SubSeq(z, 1, Len(s)) = s
  BY <1>1, PhotoAssumption DEF Containing, Within
<1>3. z \in Seq(STRING) /\ Len(z) \in Nat
  <2>1. NoZone \in Seq(STRING)
    BY DEF NoZone
  <2>2. z \in Seq(STRING)
    BY <2>1, PhotoAssumption
  <2> QED
    BY <2>2
<1>4. Containing(z) # {} => DeepestSetting(z) \in Containing(z)
                            /\ \A t \in Containing(z) : Len(t) <= Len(DeepestSetting(z))
  <2> SUFFICES ASSUME Containing(z) # {}
               PROVE  DeepestSetting(z) \in Containing(z)
                      /\ \A t \in Containing(z) : Len(t) <= Len(DeepestSetting(z))
    OBVIOUS
  <2> DEFINE D == {Len(z) - Len(s) : s \in Containing(z)}
  <2>1. D \in SUBSET Nat /\ D # {}
    BY <1>2, <1>3
  <2>2. PICK n \in D : \A m \in D : n <= m
    BY <2>1, SmallestNumber
  <2>3. PICK s \in Containing(z) : n = Len(z) - Len(s)
    BY <2>2
  <2>4. \A t \in Containing(z) : Len(t) <= Len(s)
    <3>1. \A t \in Containing(z) : n <= Len(z) - Len(t)
      BY <2>2
    <3> QED
      BY <1>2, <1>3, <2>3, <3>1
  <2> QED
    BY <2>3, <2>4 DEF DeepestSetting
<1>5. own \in CommissionPolicies
  BY <1>1, <1>2, <1>4
<1>6. /\ PolicyOf(z).base = own.base /\ PolicyOf(z).rate = Min({own.rate, config.cap})
      /\ own.base \in Bases /\ own.rate \in Nat
  <2>1. PolicyOf(z) = [base |-> own.base, rate |-> Min({own.rate, config.cap})]
    BY DEF PolicyOf
  <2> HIDE DEF own
  <2> QED
    BY <1>5, <2>1 DEF CommissionPolicies
<1>7. /\ Min({own.rate, config.cap}) \in Nat
      /\ Min({own.rate, config.cap}) <= own.rate /\ Min({own.rate, config.cap}) <= config.cap
  <2> DEFINE r == own.rate
             cap == config.cap
  <2>1. r \in Int /\ cap \in Int /\ r \in Nat /\ cap \in Nat
    BY <1>1, <1>6
  <2> HIDE DEF r, cap
  <2>2. Min({r, cap}) \in {r, cap} /\ Min({r, cap}) <= r /\ Min({r, cap}) <= cap
    BY <2>1, MinOfTwo
  <2> QED
    BY <2>1, <2>2 DEF r, cap
<1>8. ASSUME z \in DOMAIN config.zones
      PROVE  own = config.zones[z]
  <2>1. z \in Containing(z)
    <3>1. SubSeq(z, 1, Len(z)) = z
      BY <1>3
    <3> QED
      BY <1>3, <1>8, <3>1 DEF Containing, Within
  <2> DEFINE s == DeepestSetting(z)
  <2>2. s \in Containing(z) /\ Len(z) <= Len(s)
    BY <1>4, <2>1
  <2>3. Len(s) = Len(z)
    BY <1>2, <1>3, <2>2
  <2>4. s = z
    <3>1. SubSeq(z, 1, Len(z)) = z
      BY <1>3
    <3> QED
      BY <1>2, <2>2, <2>3, <3>1
  <2> QED
    BY <2>1, <2>4
<1> HIDE DEF own
<1> QED
  BY <1>6, <1>7, <1>8

\* A commission is its rate of its base, so never above either.
LEMMA CommissionFacts ==
  ASSUME PhotoTypeOK, NEW k \in WithBox
  PROVE  LET line == Team[k]
             most == Max({line.figures[f] : f \in DOMAIN line.figures})
         IN /\ line.commission \in Nat /\ line.commission <= most
            /\ line.commission * RateScale <= most * config.cap
            /\ line.zone \in DOMAIN config.zones =>
                 line.commission * RateScale <=
                   line.figures[config.zones[line.zone].base] * config.zones[line.zone].rate
<1> DEFINE z == ZoneOf(k)
           figs == FiguresOf(k)
           policy == PolicyOf(z)
           most == Max({figs[f] : f \in DOMAIN figs})
           due == CommissionOf(z, figs)
<1>1. /\ Team[k].zone = z /\ Team[k].figures = figs /\ Team[k].commission = due
      /\ z \in ZonePaths \cup {NoZone}
  <2>1. /\ CollectorLine(k).zone = ZoneOf(k) /\ CollectorLine(k).figures = FiguresOf(k)
        /\ CollectorLine(k).commission = CommissionOf(ZoneOf(k), FiguresOf(k))
    BY DEF CollectorLine
  <2>2. Team[k] = CollectorLine(k) /\ Team[k].zone \in ZonePaths \cup {NoZone}
    BY TeamFacts
  <2> QED
    BY <2>1, <2>2
<1>2. DOMAIN figs = Bases /\ \A f \in Bases : figs[f] \in Nat
  BY FiguresFacts
<1>3. /\ config.cap \in Nat /\ config.cap <= RateScale /\ RateScale \in Nat \ {0}
      /\ config.enabled \in BOOLEAN
      /\ \A s \in DOMAIN config.zones : config.zones[s] \in CommissionPolicies
  BY PhotoAssumption DEF PhotoTypeOK
<1>4. /\ policy.base \in Bases /\ policy.rate \in Nat /\ policy.rate <= config.cap
      /\ z \in DOMAIN config.zones =>
           policy.base = config.zones[z].base /\ policy.rate <= config.zones[z].rate
  BY <1>1, PolicyFacts
<1>5. \A f \in Bases : figs[f] <= most /\ most \in Nat
  <2> HIDE DEF figs
  <2>1. {figs[f] : f \in DOMAIN figs}
          = {figs["COLLECTED"], figs["REMITTED"], figs["PRINCIPAL_RECOVERED"]}
    BY <1>2 DEF Bases
  <2>2. figs["COLLECTED"] \in Nat /\ figs["REMITTED"] \in Nat /\ figs["PRINCIPAL_RECOVERED"] \in Nat
    BY <1>2 DEF Bases
  <2> DEFINE a == figs["COLLECTED"]
             b == figs["REMITTED"]
             c == figs["PRINCIPAL_RECOVERED"]
  <2>3. a \in Int /\ b \in Int /\ c \in Int /\ {a, b, c} \in SUBSET Nat
    BY <2>2
  <2>4. \A f \in Bases : figs[f] \in {a, b, c}
    BY DEF Bases
  <2> HIDE DEF a, b, c
  <2>5. Max({a, b, c}) \in {a, b, c} /\ \A x \in {a, b, c} : x <= Max({a, b, c})
    BY <2>3, MaxOfThree
  <2>6. most = Max({a, b, c})
    BY <2>1 DEF a, b, c
  <2> HIDE DEF most
  <2> QED
    BY <2>3, <2>4, <2>5, <2>6
<1>6. CASE ~ config.enabled
  <2>1. due = 0
    BY <1>6 DEF CommissionOf
  <2>2. most \in Nat
    BY <1>5 DEF Bases
  <2>3. z \in DOMAIN config.zones =>
          figs[config.zones[z].base] \in Nat /\ config.zones[z].rate \in Nat
    BY <1>2, <1>3 DEF CommissionPolicies
  <2>4. \A a, b \in Nat : 0 * RateScale <= a * b /\ 0 <= a
    BY <1>3
  <2> HIDE DEF due, most, figs, z
  <2> QED
    BY <1>1, <1>3, <2>1, <2>2, <2>3, <2>4 DEF most
<1>7. CASE config.enabled
  <2> DEFINE f == figs[policy.base]
             r == policy.rate
  <2>1. due = (f * r) \div RateScale
    BY <1>7 DEF CommissionOf
  <2>2. f \in Nat /\ r \in Nat /\ r <= RateScale /\ r <= config.cap /\ f <= most /\ most \in Nat
    <3> HIDE DEF figs, policy, most
    <3> QED
      BY <1>2, <1>3, <1>4, <1>5
  <2>3. z \in DOMAIN config.zones =>
          /\ f = figs[config.zones[z].base] /\ r <= config.zones[z].rate
          /\ config.zones[z].rate \in Nat
    BY <1>3, <1>4 DEF CommissionPolicies
  <2> HIDE DEF f, r, due, most, figs, z
  <2>4. due \in Nat /\ due <= f /\ due * RateScale <= f * r
    BY <1>3, <2>1, <2>2, PartOfAmount
  <2>5. due <= most
    BY <2>2, <2>4
  <2>6. \A m \in Nat : r <= m => f * r <= f * m
    BY <2>2
  <2>7. f * config.cap <= most * config.cap /\ f * r \in Int /\ f * config.cap \in Int
        /\ most * config.cap \in Int /\ due * RateScale \in Int
    BY <1>3, <2>2, <2>4
  <2>8. due * RateScale <= most * config.cap
    BY <1>3, <2>2, <2>4, <2>6, <2>7
  <2>9. ASSUME z \in DOMAIN config.zones
        PROVE  due * RateScale <= figs[config.zones[z].base] * config.zones[z].rate
    <3>1. f * r <= f * config.zones[z].rate /\ f * config.zones[z].rate \in Int
      BY <2>2, <2>3, <2>6, <2>9
    <3>2. due * RateScale <= f * config.zones[z].rate
      BY <2>4, <2>7, <3>1
    <3> QED
      BY <2>3, <2>9, <3>2
  <2> QED
    BY <1>1, <2>4, <2>5, <2>8, <2>9 DEF most
<1> QED
  BY <1>3, <1>6, <1>7

\* So each line of the photograph has a fair commission.
LEMMA CommissionsAreFair ==
  ASSUME PhotoInv
  PROVE  CommissionsFair(Photograph)
<1>1. PhotoTypeOK
  BY DEF PhotoInv
<1>2. Photograph.collectors = Team /\ DOMAIN Team = WithBox
  BY <1>1, PhotographIs, TeamFacts
<1>3. ASSUME NEW k \in WithBox
      PROVE  LET line == Team[k]
                 most == Max({line.figures[f] : f \in DOMAIN line.figures})
             IN /\ 0 <= line.commission /\ line.commission <= most
                /\ line.commission * RateScale <= most * config.cap
                /\ line.zone \in DOMAIN config.zones =>
                     line.commission * RateScale <=
                       line.figures[config.zones[line.zone].base] * config.zones[line.zone].rate
  BY <1>1, CommissionFacts
<1> QED
  BY <1>2, <1>3 DEF CommissionsFair

\* What the result of a zone is computed from is money.
LEMMA ResultTerms ==
  ASSUME PhotoTypeOK
  PROVE  /\ \A z \in Lined, c \in Concepts : Tree[z].concepts[c] \in Int
         /\ \A z \in Lined : ZoneLine(z, Team).commissions \in Int /\ ZoneLine(z, Team).utility \in Int
<1> DEFINE comm == [k \in WithBox |-> Team[k].commission]
           At(z) == {k \in WithBox : Team[k].zone = z}
<1>1. /\ DOMAIN Team = WithBox /\ IsFiniteSet(WithBox)
      /\ \A k \in WithBox : comm[k] \in Int
  <2>1. DOMAIN Team = WithBox /\ IsFiniteSet(WithBox)
    BY TeamFacts
  <2>2. \A k \in WithBox : comm[k] \in Nat
    BY CommissionFacts
  <2> QED
    BY <2>1, <2>2
<1>2. ASSUME NEW z \in Lined, NEW c \in Concepts
      PROVE  Tree[z].concepts[c] \in Int
  <2> DEFINE rows == {e \in DOMAIN flows : e.zone = z}
  <2>1. Tree[z].concepts = ConceptsOf(rows).concepts
    BY DEF Tree, ZoneLine
  <2>2. {e \in rows : ConceptOf(e) = c} \in SUBSET DOMAIN flows
    OBVIOUS
  <2> HIDE DEF rows
  <2>3. SumOver(flows, {e \in rows : ConceptOf(e) = c}) \in Int
    BY <2>2, RowsSum
  <2>4. ConceptsOf(rows).concepts[c] = SumOver(flows, {e \in rows : ConceptOf(e) = c})
    BY DEF ConceptsOf
  <2> QED
    BY <2>1, <2>3, <2>4
<1>3. ASSUME NEW z \in Lined
      PROVE  /\ ZoneLine(z, Team).commissions = SumOver(comm, At(z))
             /\ ZoneLine(z, Team).commissions \in Int
  <2>1. [k \in DOMAIN Team |-> Team[k].commission] = comm
        /\ {k \in DOMAIN Team : Team[k].zone = z} = At(z)
    BY <1>1
  <2>2. IsFiniteSet(At(z)) /\ \A k \in At(z) : comm[k] \in Int
    BY <1>1, FS_Subset
  <2> HIDE DEF comm, At
  <2>3. SumOver(comm, At(z)) \in Int
    BY <2>2, SumInt
  <2>4. ZoneLine(z, Team).commissions = SumOver(comm, At(z))
    BY <2>1 DEF ZoneLine
  <2> QED
    BY <2>3, <2>4
<1>4. ASSUME NEW z \in Lined
      PROVE  ZoneLine(z, Team).utility \in Int
  <2>1. ZoneLine(z, Team).utility = (IF z = NoZone THEN 0 ELSE earned[z])
           - ZoneLine(z, Team).concepts["EXPENSES"] - ZoneLine(z, Team).concepts["DEBT_WRITE_OFF"]
           - ZoneLine(z, Team).commissions
    BY DEF ZoneLine
  <2>2. (IF z = NoZone THEN 0 ELSE earned[z]) \in Int
    BY LinedFacts DEF PhotoTypeOK
  <2>3. "EXPENSES" \in Concepts /\ "DEBT_WRITE_OFF" \in Concepts
    BY ConceptsFacts DEF Concepts
  <2>4. ZoneLine(z, Team).concepts = Tree[z].concepts
    BY DEF Tree
  <2> DEFINE a == IF z = NoZone THEN 0 ELSE earned[z]
             b == ZoneLine(z, Team).concepts["EXPENSES"]
             c == ZoneLine(z, Team).concepts["DEBT_WRITE_OFF"]
             d == ZoneLine(z, Team).commissions
  <2>5. b \in Int /\ c \in Int
    BY <1>2, <2>3, <2>4
  <2>6. a \in Int /\ d \in Int /\ ZoneLine(z, Team).utility = a - b - c - d
    BY <1>3, <2>1, <2>2
  <2> HIDE DEF a, b, c, d
  <2> QED
    BY <2>5, <2>6
<1> QED
  BY <1>2, <1>3, <1>4

\* The result: what the lines of the zones say of the interest and the commissions is
\* all of the interest and all of the commissions.
LEMMA ResultDoesAddUp ==
  ASSUME PhotoInv
  PROVE  ResultAddsUp(Photograph)
<1>1. PhotoTypeOK
  BY DEF PhotoInv
<1> DEFINE comm == [k \in WithBox |-> Team[k].commission]
           Owing == {k \in WithBox : Team[k].commission > 0}
           commOf == [z \in Lined |-> ZoneLine(z, Team).commissions]
           g == [k \in Owing |-> Team[k].zone]
           At(z) == {k \in WithBox : Team[k].zone = z}
<1>2. /\ DOMAIN Team = WithBox /\ IsFiniteSet(WithBox)
      /\ \A k \in WithBox : comm[k] \in Nat
  BY <1>1, TeamFacts, CommissionFacts
<1>3. /\ Owing \in SUBSET WithBox /\ IsFiniteSet(Owing)
      /\ \A k \in WithBox \ Owing : comm[k] = 0
      /\ \A k \in Owing : comm[k] \in Int
  BY <1>2, FS_Subset
<1>4. \A z \in Lined : commOf[z] = SumOver(comm, At(z))
  <2>1. [k \in DOMAIN Team |-> Team[k].commission] = comm
        /\ \A z : {k \in DOMAIN Team : Team[k].zone = z} = At(z)
    BY <1>2
  <2> HIDE DEF comm, At
  <2> QED
    BY <2>1 DEF ZoneLine
<1>5. \A z \in Lined : SumOver(comm, At(z)) = SumOver(comm, {k \in Owing : g[k] = z})
  <2> SUFFICES ASSUME NEW z \in Lined
               PROVE  SumOver(comm, At(z)) = SumOver(comm, {k \in Owing : g[k] = z})
    OBVIOUS
  <2> DEFINE S == At(z)
             T == {k \in Owing : g[k] = z}
  <2>1. /\ IsFiniteSet(S) /\ \A k \in S : comm[k] \in Int
        /\ T \in SUBSET S /\ \A k \in S \ T : comm[k] = 0
    <3>1. S \in SUBSET WithBox /\ T \in SUBSET S /\ \A k \in S \ T : k \in WithBox \ Owing
      OBVIOUS
    <3>2. IsFiniteSet(S)
      BY <1>2, <3>1, FS_Subset
    <3> HIDE DEF S, T, comm, Owing
    <3> QED
      BY <1>2, <1>3, <3>1, <3>2
  <2> HIDE DEF S, T, comm
  <2>2. SumOver(comm, S) = SumOver(comm, T)
    BY <2>1, SumExtra
  <2> QED
    BY <2>2 DEF S, T
<1>6. Grouping(comm, Owing, commOf, Lined, g)
  <2>1. \A k \in Owing : g[k] \in Lined
    BY <1>1, LinedFacts
  <2> HIDE DEF comm, Owing, commOf, g, At
  <2> QED
    BY <1>4, <1>5, <2>1 DEF Grouping
<1>7. /\ \A z \in Lined : commOf[z] \in Int
      /\ SumOver(commOf, Lined) = SumOver(comm, WithBox)
  <2> HIDE DEF comm, Owing, commOf, g, At
  <2>1. IsFiniteSet(Lined)
    BY <1>1, LinedFacts
  <2>2. \A z \in Lined : commOf[z] \in Int
    BY <1>3, <1>6, <2>1, SumGroup
  <2>3. SumOver(commOf, Lined) = SumOver(comm, Owing)
    BY <1>3, <1>6, <2>1, SumGroup
  <2>4. SumOver(comm, WithBox) = SumOver(comm, Owing)
    <3>1. \A k \in WithBox : comm[k] \in Int
      BY <1>2
    <3> QED
      BY <1>2, <1>3, <3>1, SumExtra
  <2> QED
    BY <2>2, <2>3, <2>4
<1>8. Photograph.commissions = Total([k \in DOMAIN Photograph.collectors |->
                                        Photograph.collectors[k].commission])
  <2>1. [k \in DOMAIN Photograph.collectors |-> Photograph.collectors[k].commission] = comm
    BY <1>2, PhotographIs
  <2>2. Photograph.commissions = SumOver(commOf, Lined)
    BY PhotographIs
  <2>3. Total(comm) = SumOver(comm, WithBox)
    BY DEF Total
  <2> HIDE DEF comm, commOf
  <2> QED
    BY <1>7, <2>1, <2>2, <2>3
<1> DEFINE interest == [z \in Lined |-> IF z = NoZone THEN 0 ELSE earned[z]]
           spent == [z \in Lined |-> Tree[z].concepts["EXPENSES"]]
           forgiven == [z \in Lined |-> Tree[z].concepts["DEBT_WRITE_OFF"]]
           result == [z \in Lined |-> ZoneLine(z, Team).utility]
           kept == [z \in Lined |-> interest[z] - spent[z]]
           left == [z \in Lined |-> kept[z] - forgiven[z]]
<1>9. /\ \A z \in Lined : interest[z] \in Int
      /\ SumOver(interest, Lined) \in Int /\ SumOver(interest, Lined) = Total(earned)
  <2> DEFINE P == Lined \ {NoZone}
  <2>1. /\ Lined \subseteq ZonePaths \cup {NoZone} /\ IsFiniteSet(Lined) /\ IsFiniteSet(ZonePaths)
        /\ NoZone \notin ZonePaths
        /\ \A z \in ZonePaths : earned[z] \in Nat /\ (earned[z] > 0 => z \in Lined)
        /\ DOMAIN earned = ZonePaths
    BY <1>1, LinedFacts, PhotoAssumption DEF PhotoTypeOK
  <2>2. /\ P \in SUBSET Lined /\ P \in SUBSET ZonePaths /\ IsFiniteSet(P)
        /\ \A z \in Lined \ P : interest[z] = 0
        /\ \A z \in P : interest[z] = earned[z]
        /\ \A z \in ZonePaths \ P : earned[z] = 0
        /\ \A z \in Lined : interest[z] \in Int
        /\ \A z \in ZonePaths : earned[z] \in Int
    <3>1. IsFiniteSet(P) /\ P \in SUBSET Lined
      BY <2>1, FS_Subset
    <3> QED
      BY <2>1, <3>1
  <2> HIDE DEF P, interest
  <2>3. SumOver(interest, Lined) = SumOver(interest, P)
    BY <2>1, <2>2, SumExtra
  <2>4. SumOver(interest, P) = SumOver(earned, P)
    BY <2>2, SumEqual
  <2>5. SumOver(earned, ZonePaths) = SumOver(earned, P)
    BY <2>1, <2>2, SumExtra
  <2>6. SumOver(interest, Lined) \in Int
    BY <2>1, <2>2, SumInt
  <2> QED
    BY <2>1, <2>2, <2>3, <2>4, <2>5, <2>6 DEF Total
<1>10. ASSUME NEW c \in Concepts
       PROVE  /\ \A z \in Lined : Tree[z].concepts[c] \in Int
              /\ Photograph.concepts[c] \in Int
              /\ SumOver([z \in Lined |-> Tree[z].concepts[c]], Lined) = Photograph.concepts[c]
  <2>1. \A z \in Lined : Tree[z].concepts[c] \in Int
    BY <1>1, ResultTerms
  <2>2. OfConcept(c) \in SUBSET DOMAIN flows
    BY DEF OfConcept
  <2>3. Photograph.concepts[c] \in Int
    BY <1>1, <2>2, RowsSum, ConceptColumn
  <2>4. Photograph.concepts[c]
          = Total([z \in DOMAIN Photograph.zones |-> Photograph.zones[z].concepts[c]])
    BY ZonesDoAddUp DEF ZonesAddUp
  <2>5. Total([z \in DOMAIN Photograph.zones |-> Photograph.zones[z].concepts[c]])
          = SumOver([z \in Lined |-> Tree[z].concepts[c]], Lined)
    BY PhotographIs DEF Total, Tree
  <2> QED
    BY <2>1, <2>3, <2>4, <2>5
<1>11. "EXPENSES" \in Concepts /\ "DEBT_WRITE_OFF" \in Concepts
  BY ConceptsFacts DEF Concepts
<1>12. /\ \A z \in Lined : spent[z] \in Int /\ forgiven[z] \in Int
       /\ SumOver(spent, Lined) = Photograph.concepts["EXPENSES"]
       /\ SumOver(forgiven, Lined) = Photograph.concepts["DEBT_WRITE_OFF"]
       /\ Photograph.concepts["EXPENSES"] \in Int /\ Photograph.concepts["DEBT_WRITE_OFF"] \in Int
  BY <1>10, <1>11
<1>13. \A z \in Lined : result[z] = left[z] - commOf[z]
  <2>1. \A z \in Lined :
          ZoneLine(z, Team).utility = (IF z = NoZone THEN 0 ELSE earned[z])
             - ZoneLine(z, Team).concepts["EXPENSES"] - ZoneLine(z, Team).concepts["DEBT_WRITE_OFF"]
             - ZoneLine(z, Team).commissions
    BY DEF ZoneLine
  <2> QED
    BY <2>1 DEF Tree
<1>14. /\ \A z \in Lined : interest[z] \in Int /\ spent[z] \in Int /\ kept[z] = interest[z] - spent[z]
       /\ \A z \in Lined : kept[z] \in Int /\ forgiven[z] \in Int /\ left[z] = kept[z] - forgiven[z]
       /\ \A z \in Lined : left[z] \in Int /\ commOf[z] \in Int /\ result[z] = left[z] - commOf[z]
  <2>1. \A z \in Lined : kept[z] = interest[z] - spent[z] /\ left[z] = kept[z] - forgiven[z]
    OBVIOUS
  <2> HIDE DEF interest, spent, forgiven, kept, left, result, commOf
  <2> QED
    BY <1>7, <1>9, <1>12, <1>13, <2>1
<1>15. /\ SumOver(kept, Lined) = SumOver(interest, Lined) - SumOver(spent, Lined)
       /\ SumOver(left, Lined) = SumOver(kept, Lined) - SumOver(forgiven, Lined)
       /\ SumOver(result, Lined) = SumOver(left, Lined) - SumOver(commOf, Lined)
  <2> HIDE DEF interest, spent, forgiven, kept, left, result, commOf
  <2>1. IsFiniteSet(Lined)
    BY <1>1, LinedFacts
  <2>2. SumOver(kept, Lined) = SumOver(interest, Lined) - SumOver(spent, Lined)
    BY <1>14, <2>1, SumMinus
  <2>3. SumOver(left, Lined) = SumOver(kept, Lined) - SumOver(forgiven, Lined)
    BY <1>14, <2>1, SumMinus
  <2>4. SumOver(result, Lined) = SumOver(left, Lined) - SumOver(commOf, Lined)
    BY <1>14, <2>1, SumMinus
  <2> QED
    BY <2>2, <2>3, <2>4
<1>16. Photograph.utility = SumOver(result, Lined) /\ Photograph.commissions = SumOver(commOf, Lined)
  BY PhotographIs
<1>17. Photograph.utility = Total(earned) - Photograph.concepts["EXPENSES"]
         - Photograph.concepts["DEBT_WRITE_OFF"] - Photograph.commissions
  <2> HIDE DEF interest, spent, forgiven, kept, left, result, commOf
  <2> QED
    BY <1>9, <1>12, <1>15, <1>16
<1> QED
  BY <1>8, <1>17 DEF ResultAddsUp

\* The roots of the tree of zones.
Roots == {z \in ZonePaths : Len(z) = 1}

\* A zone is under one root: that of its first label.
LEMMA RootOfZone ==
  /\ \A p \in ZonePaths : /\ <<p[1]>> \in Roots
                          /\ \A z \in Roots : Within(p, z) <=> z = <<p[1]>>
  /\ \A z \in Roots : ~ Within(NoZone, z)
<1>1. \A p \in ZonePaths : p \in Seq(STRING) /\ p # <<>> /\ Len(p) \in Nat /\ Len(p) >= 1
  <2> SUFFICES ASSUME NEW p \in ZonePaths
               PROVE  p \in Seq(STRING) /\ p # <<>> /\ Len(p) \in Nat /\ Len(p) >= 1
    OBVIOUS
  <2>1. p \in Seq(STRING) /\ p # <<>>
    BY PhotoAssumption DEF NoZone
  <2> QED
    BY <2>1, EmptySeq, LenProperties
<1>2. \A p \in ZonePaths : SubSeq(p, 1, 1) = <<p[1]>> /\ Len(<<p[1]>>) = 1
  <2> SUFFICES ASSUME NEW p \in ZonePaths PROVE SubSeq(p, 1, 1) = <<p[1]>> /\ Len(<<p[1]>>) = 1
    OBVIOUS
  <2> DEFINE s == SubSeq(p, 1, 1)
             t == <<p[1]>>
  <2>1. p[1] \in STRING /\ t \in Seq(STRING) /\ Len(t) = 1 /\ t[1] = p[1]
    BY <1>1
  <2>2. s \in Seq(STRING) /\ Len(s) = 1 /\ s[1] = p[1]
    BY <1>1, SubSeqProperties
  <2>3. s = t
    <3> HIDE DEF s, t
    <3>1. \A i \in 1..Len(s) : s[i] = t[i]
      BY <2>1, <2>2
    <3> QED
      BY <2>1, <2>2, <3>1, SeqEqual
  <2> QED
    BY <2>1, <2>3
<1>3. \A p \in ZonePaths : <<p[1]>> \in Roots
  BY <1>2, PhotoAssumption DEF Roots
<1>4. \A p \in ZonePaths, z \in Roots : Within(p, z) <=> z = <<p[1]>>
  BY <1>1, <1>2 DEF Within, Roots
<1>5. \A z \in Roots : ~ Within(NoZone, z)
  BY DEF Within, Roots, NoZone
<1> QED
  BY <1>3, <1>4, <1>5

\* What has zones is shared out between the roots and what has none.
LEMMA RootsShare ==
  ASSUME NEW c, NEW S, IsFiniteSet(S), \A x \in S : c[x] \in Int,
         NEW at, \A x \in S : at[x] \in ZonePaths \cup {NoZone},
         NEW G, \A z \in Roots : G[z] = SumOver(c, {x \in S : Within(at[x], z)})
  PROVE  SumOver(c, S) = SumOver(G, Roots) + SumOver(c, {x \in S : at[x] = NoZone})
<1> DEFINE U == {x \in S : at[x] # NoZone}
           V == {x \in S : at[x] = NoZone}
           g == [x \in U |-> <<at[x][1]>>]
<1>1. /\ U \in SUBSET S /\ V = S \ U /\ IsFiniteSet(U) /\ IsFiniteSet(Roots)
      /\ \A x \in U : c[x] \in Int /\ at[x] \in ZonePaths
  <2>1. IsFiniteSet(U) /\ IsFiniteSet(Roots)
    BY FS_Subset, PhotoAssumption DEF Roots
  <2> QED
    BY <2>1
<1>2. \A z \in Roots : {x \in S : Within(at[x], z)} = {x \in U : g[x] = z}
  BY RootOfZone
<1>3. Grouping(c, U, G, Roots, g)
  <2>1. \A x \in U : g[x] \in Roots
    BY <1>1, RootOfZone
  <2>2. \A z \in Roots : G[z] = SumOver(c, {x \in U : g[x] = z})
    <3> HIDE DEF U, g
    <3> QED
      BY <1>2
  <2> HIDE DEF U, g
  <2> QED
    BY <2>1, <2>2 DEF Grouping
<1> HIDE DEF U, V, g
<1>4. \A x \in U : c[x] \in Int
  BY <1>1
<1>5. SumOver(G, Roots) = SumOver(c, U)
  BY <1>1, <1>3, <1>4, SumGroup
<1>6. SumOver(c, S) = SumOver(c, U) + SumOver(c, V)
  BY <1>1, SumSplit
<1> QED
  BY <1>5, <1>6 DEF V

\* What a coordinator sees sums the boxes and the zones within his.
LEMMA ScopedIs ==
  ASSUME NEW z
  PROVE  LET D == {b \in Boxes : Within(Lines[b].zone, z)}
             E == {x \in Lined : Within(x, z)}
         IN /\ Scoped(Photograph, z).closing = SumOver([b \in D |-> Lines[b].closing], D)
            /\ Scoped(Photograph, z).utility = SumOver([x \in E |-> Tree[x].utility], E)
<1> DEFINE D == {b \in Boxes : Within(Lines[b].zone, z)}
           E == {x \in Lined : Within(x, z)}
           K == {k \in DOMAIN Photograph.collectors : Within(Photograph.collectors[k].zone, z)}
           lines == [b \in D |-> Lines[b]]
           tree == [x \in E |-> Tree[x]]
           team == [k \in K |-> Photograph.collectors[k]]
<1>1. /\ Photograph.boxes = Lines /\ Photograph.zones = Tree
      /\ DOMAIN Lines = Boxes /\ DOMAIN Tree = Lined
  BY PhotographIs DEF Lines, Tree
<1>2. Scoped(Photograph, z) = Totalled(lines, tree, team)
  BY <1>1 DEF Scoped
<1>3. /\ [b \in DOMAIN lines |-> lines[b].closing] = [b \in D |-> Lines[b].closing]
      /\ [x \in DOMAIN tree |-> tree[x].utility] = [x \in E |-> Tree[x].utility]
  OBVIOUS
<1> HIDE DEF lines, tree, team
<1>4. /\ Totalled(lines, tree, team).closing = Total([b \in DOMAIN lines |-> lines[b].closing])
      /\ Totalled(lines, tree, team).utility = Total([x \in DOMAIN tree |-> tree[x].utility])
  BY DEF Totalled
<1>5. /\ Total([b \in D |-> Lines[b].closing]) = SumOver([b \in D |-> Lines[b].closing], D)
      /\ Total([x \in E |-> Tree[x].utility]) = SumOver([x \in E |-> Tree[x].utility], E)
  BY DEF Total
<1> HIDE DEF D, E
<1>6. /\ Scoped(Photograph, z).closing = SumOver([b \in D |-> Lines[b].closing], D)
      /\ Scoped(Photograph, z).utility = SumOver([x \in E |-> Tree[x].utility], E)
  BY <1>2, <1>3, <1>4, <1>5
<1> QED
  BY <1>6 DEF D, E

\* The views of the roots share the photograph out: a box or a zone is in one of them, or
\* has no zone.
LEMMA ViewsDoPartition ==
  ASSUME PhotoInv
  PROVE  ViewsPartition(Photograph)
<1>1. PhotoTypeOK
  BY DEF PhotoInv
<1> DEFINE view(z) == Scoped(Photograph, z)
           balances == [b \in Boxes |-> BoxLine(b).closing]
           boxAt == [b \in Boxes |-> BoxZone[b]]
           seen == [z \in Roots |-> view(z).closing]
           result == [x \in Lined |-> Tree[x].utility]
           zoneAt == [x \in Lined |-> x]
           told == [z \in Roots |-> view(z).utility]
<1>2. /\ Photograph.closing = SumOver(balances, Boxes)
      /\ Photograph.utility = SumOver(result, Lined)
      /\ \A b \in Boxes : Photograph.boxes[b].closing = balances[b]
      /\ \A x \in Lined : Photograph.zones[x].utility = result[x]
      /\ DOMAIN Photograph.zones = Lined
  <2>1. [z \in Lined |-> ZoneLine(z, Team).utility] = result
    BY DEF Tree
  <2> QED
    BY <2>1, PhotographIs DEF Lines, Tree
<1>3. \A b \in Boxes : balances[b] \in Int
  BY DEF PhotoInv, BoxesClose, PhotoTypeOK
<1>4. \A x \in Lined : result[x] \in Int
  BY <1>1, ResultTerms DEF Tree
<1>5. /\ \A b \in Boxes : boxAt[b] \in ZonePaths \cup {NoZone}
      /\ \A x \in Lined : zoneAt[x] \in ZonePaths \cup {NoZone}
  BY <1>1, LinedFacts, PhotoAssumption
<1>6. \A z \in Roots : seen[z] = SumOver(balances, {b \in Boxes : Within(boxAt[b], z)})
  <2> SUFFICES ASSUME NEW z \in Roots
               PROVE  seen[z] = SumOver(balances, {b \in Boxes : Within(boxAt[b], z)})
    OBVIOUS
  <2> DEFINE D == {b \in Boxes : Within(Lines[b].zone, z)}
             f == [b \in D |-> Lines[b].closing]
  <2>1. D = {b \in Boxes : Within(boxAt[b], z)}
    <3>1. \A b \in Boxes : LineIsOf(b)
      BY LineOfBox
    <3> QED
      BY <3>1 DEF Lines, LineIsOf
  <2>2. \A b \in D : f[b] = balances[b]
    BY DEF Lines
  <2>3. IsFiniteSet(D)
    BY BoxesFinite, FS_Subset
  <2>4. view(z).closing = SumOver(f, D)
    BY ScopedIs
  <2> HIDE DEF D, f, balances, boxAt, view
  <2>5. SumOver(f, D) = SumOver(balances, D)
    BY <2>2, <2>3, SumEqual
  <2> QED
    BY <2>1, <2>4, <2>5
<1>7. \A z \in Roots : told[z] = SumOver(result, {x \in Lined : Within(zoneAt[x], z)})
  <2> SUFFICES ASSUME NEW z \in Roots
               PROVE  told[z] = SumOver(result, {x \in Lined : Within(zoneAt[x], z)})
    OBVIOUS
  <2> DEFINE E == {x \in Lined : Within(x, z)}
             f == [x \in E |-> Tree[x].utility]
  <2>1. E = {x \in Lined : Within(zoneAt[x], z)}
    OBVIOUS
  <2>2. \A x \in E : f[x] = result[x]
    OBVIOUS
  <2>3. IsFiniteSet(E)
    BY <1>1, LinedFacts, FS_Subset
  <2>4. view(z).utility = SumOver(f, E)
    BY ScopedIs
  <2> HIDE DEF E, f, result, zoneAt, view
  <2>5. SumOver(f, E) = SumOver(result, E)
    BY <2>2, <2>3, SumEqual
  <2> QED
    BY <2>1, <2>4, <2>5
<1> HIDE DEF balances, boxAt, seen, result, zoneAt, told, view
<1>8. SumOver(balances, Boxes)
        = SumOver(seen, Roots) + SumOver(balances, {b \in Boxes : boxAt[b] = NoZone})
  BY <1>3, <1>5, <1>6, BoxesFinite, RootsShare
<1>9. SumOver(result, Lined)
        = SumOver(told, Roots) + SumOver(result, {x \in Lined : zoneAt[x] = NoZone})
  <2>1. IsFiniteSet(Lined)
    BY <1>1, LinedFacts
  <2> QED
    BY <1>4, <1>5, <1>7, <2>1, RootsShare
<1>10. /\ SumOver(seen, Roots) = Total([z \in Roots |-> view(z).closing])
       /\ SumOver(told, Roots) = Total([z \in Roots |-> view(z).utility])
  BY DEF Total, seen, told
<1>11. LET unzoned == {b \in Boxes : BoxZone[b] = NoZone} IN
       SumOver(balances, {b \in Boxes : boxAt[b] = NoZone})
         = Total([b \in unzoned |-> Photograph.boxes[b].closing])
  <2> DEFINE W == {b \in Boxes : BoxZone[b] = NoZone}
             f == [b \in W |-> Photograph.boxes[b].closing]
  <2>1. W = {b \in Boxes : boxAt[b] = NoZone} /\ \A b \in W : balances[b] = f[b]
    BY <1>2 DEF boxAt
  <2>2. IsFiniteSet(W)
    BY BoxesFinite, FS_Subset
  <2>3. Total(f) = SumOver(f, W)
    BY DEF Total
  <2> HIDE DEF W, f
  <2>4. SumOver(balances, W) = SumOver(f, W)
    BY <2>1, <2>2, SumEqual
  <2>5. SumOver(balances, {b \in Boxes : boxAt[b] = NoZone}) = Total(f)
    BY <2>1, <2>3, <2>4
  <2> QED
    BY <2>5 DEF W, f
<1>12. LET loose == {x \in DOMAIN Photograph.zones : x = NoZone} IN
       SumOver(result, {x \in Lined : zoneAt[x] = NoZone})
         = Total([x \in loose |-> Photograph.zones[x].utility])
  <2> DEFINE W == {x \in DOMAIN Photograph.zones : x = NoZone}
             f == [x \in W |-> Photograph.zones[x].utility]
  <2>1. W = {x \in Lined : zoneAt[x] = NoZone} /\ \A x \in W : result[x] = f[x]
    BY <1>2 DEF zoneAt
  <2>2. IsFiniteSet(W)
    BY <1>1, <1>2, LinedFacts, FS_Subset
  <2>3. Total(f) = SumOver(f, W)
    BY DEF Total
  <2> HIDE DEF W, f
  <2>4. SumOver(result, W) = SumOver(f, W)
    BY <2>1, <2>2, SumEqual
  <2>5. SumOver(result, {x \in Lined : zoneAt[x] = NoZone}) = Total(f)
    BY <2>1, <2>3, <2>4
  <2> QED
    BY <2>5 DEF W, f
<1>13. ViewsPartition(Photograph) <=>
         LET views == [z \in Roots |-> Scoped(Photograph, z)]
             unzoned == {b \in Boxes : BoxZone[b] = NoZone}
             loose == {x \in DOMAIN Photograph.zones : x = NoZone}
         IN /\ Photograph.closing = Total([z \in Roots |-> views[z].closing])
                                    + Total([b \in unzoned |-> Photograph.boxes[b].closing])
            /\ Photograph.utility = Total([z \in Roots |-> views[z].utility])
                                    + Total([x \in loose |-> Photograph.zones[x].utility])
  BY DEF ViewsPartition, Roots
<1>14. LET views == [z \in Roots |-> Scoped(Photograph, z)] IN
       /\ [z \in Roots |-> views[z].closing] = [z \in Roots |-> view(z).closing]
       /\ [z \in Roots |-> views[z].utility] = [z \in Roots |-> view(z).utility]
  BY DEF view
<1> QED
  BY <1>2, <1>8, <1>9, <1>10, <1>11, <1>12, <1>13, <1>14

\* However the entries of a period are posted, boxes reassigned and periods closed, the line
\* of a box leads from what it had when the period began to what it has (readBoxes and
\* boxTreasury of settlement.ts), and a line is of a zone of the tenant or of none.
THEOREM PhotographInvariant == PhotoSpec => []PhotoInv
  BY PhotoStart, PhotoStep, PTL DEF PhotoSpec

\* For any boxes, zones, collectors, settings and movements, the photograph of the period
\* (buildSettlement, settlement.ts) has everything that moved once: the boxes close on what
\* they hold, the zones tell of the same entries, each commission is in the result of one
\* zone and within its rate and the cap, and the views of the coordinators of the roots
\* (scopeSettlement) share all of it out but what has no zone.
THEOREM PhotographAlwaysAddsUp == PhotoSpec => []PhotographAddsUp
<1>1. PhotoInv => PhotographAddsUp
  <2> SUFFICES ASSUME PhotoInv PROVE AddsUp(Photograph)
    BY DEF PhotographAddsUp
  <2> QED
    BY BoxesDoAddUp, ZonesDoAddUp, ResultDoesAddUp, CommissionsAreFair, ViewsDoPartition
    DEF AddsUp
<1> QED
  BY <1>1, PhotographInvariant, PTL
-----------------------------------------------------------------------------
(* SettlementPeriods: the chain of the closed periods.                      *)

USE PeriodsAssumption

\* A period ends after the day it contains (periodContaining).
LEMMA PeriodContainsDay ==
  ASSUME NEW s \in Settings, NEW day \in Int
  PROVE  PeriodEnd(s, day) \in Int /\ day < PeriodEnd(s, day)
<1> s.days \in Nat \ {0} /\ s.anchor \in Nat
  OBVIOUS
<1> (day - s.anchor) % s.days \in 0..(s.days - 1)
  OBVIOUS
<1> QED
  BY DEF PeriodEnd, PeriodStart

\* Later days begin later (localHourInstant).
LEMMA MidnightMonotone ==
  ASSUME NEW z \in Int
  PROVE  /\ \A a \in Int : Midnight(a, z) \in Int
         /\ \A a, b \in Int : a <= b => Midnight(a, z) <= Midnight(b, z)
<1>1. ASSUME NEW a \in Int
      PROVE  Midnight(a, z) \in Int
  BY DEF Midnight
<1>2. ASSUME NEW a \in Int, NEW b \in Int, a <= b
      PROVE  Midnight(a, z) <= Midnight(b, z)
  <2>1. a * DayLength \in Int /\ b * DayLength \in Int /\ (b - a) * DayLength >= 0
    BY <1>2
  <2>2. b * DayLength - a * DayLength = (b - a) * DayLength
    OBVIOUS
  <2> QED
    BY <2>1, <2>2 DEF Midnight
<1> QED
  BY <1>1, <1>2

\* A later instant is of the same day or of a later one (businessDateOf).
LEMMA DateMonotone ==
  ASSUME NEW t \in Nat, NEW u \in Nat, t <= u, NEW z \in Nat
  PROVE  /\ BusinessDate(t, z) \in Int /\ BusinessDate(u, z) \in Int
         /\ BusinessDate(t, z) <= BusinessDate(u, z)
  BY DEF BusinessDate

\* The first activity is a day: entries that are committed have an instant, and there
\* is a first one (readFirstActivity).
LEMMA FirstActivityType ==
  ASSUME EntriesDated, zone \in Nat, committed # {}
  PROVE  FirstActivity \in Int
<1> DEFINE T == {dated[e] : e \in committed}
           R == OpToRel(<, Nat)
           Oldest(t) == t \in T /\ \A e \in committed : t <= dated[e]
<1>1. T \subseteq Nat /\ T # {}
  BY DEF EntriesDated
<1>2. IsWellFoundedOn(R, Nat)
  BY NatLessThanWellFounded
<1>3. PICK t \in T : \A u \in T : ~ (<<u, t>> \in R)
  <2> HIDE DEF T, R
  <2> QED
    BY <1>1, <1>2, WFMin
<1>4. \A e \in committed : t <= dated[e]
  <2> SUFFICES ASSUME NEW e \in committed
               PROVE  t <= dated[e]
    OBVIOUS
  <2>1. t \in Nat /\ dated[e] \in T /\ dated[e] \in Nat
    BY <1>1
  <2>2. R = {ss \in Nat \X Nat : ss[1] < ss[2]}
    BY DEF OpToRel
  <2>3. <<dated[e], t>> \notin R
    BY <1>3, <2>1
  <2> HIDE DEF R, T
  <2>4. ~ (dated[e] < t)
    BY <2>1, <2>2, <2>3
  <2> QED
    BY <2>1, <2>4
<1>5. (CHOOSE x \in T : \A e \in committed : x <= dated[e]) \in T
  BY <1>3, <1>4
<1>6. \A n \in Nat : BusinessDate(n, zone) \in Int
  BY DEF BusinessDate
<1> QED
  BY <1>1, <1>5, <1>6 DEF FirstActivity

\* A period to close starts at a day: where the last one ended, if there is one
\* (nextPeriodToClose).
LEMMA NextStartType ==
  ASSUME PeriodsTypeOK, EntriesDated, NextStart # NoDay
  PROVE  /\ NextStart \in Int
         /\ period # <<>> => NextStart = period[Len(period)].end
<1>1. CASE period # <<>>
  <2>1. period[Len(period)] \in Rows
    BY <1>1 DEF PeriodsTypeOK
  <2> QED
    BY <1>1, <2>1 DEF NextStart, LastEnd, Rows
<1>2. CASE period = <<>>
  <2>1. settings \in Settings /\ zone \in Nat
    BY DEF PeriodsTypeOK
  <2>2. CASE settings.startDate # NoDay
    BY <1>2, <2>1, <2>2 DEF NextStart, LastEnd
  <2>3. CASE settings.startDate = NoDay
    <3>1. FirstActivity # NoDay
      BY <1>2, <2>3 DEF NextStart, LastEnd
    <3>2. FirstActivity \in Int
      BY <2>1, <3>1, FirstActivityType DEF FirstActivity
    <3>3. PeriodStart(settings, FirstActivity) \in Int
      BY <2>1, <3>2 DEF PeriodStart
    <3> QED
      BY <1>2, <2>3, <3>1, <3>3 DEF NextStart, LastEnd
  <2> QED
    BY <2>2, <2>3
<1> QED
  BY <1>1, <1>2
\* What the types say of single variables.
LEMMA Types ==
  ASSUME PeriodsTypeOK
  PROVE  /\ clock \in Nat /\ zone \in Nat /\ settings \in Settings
         /\ dated \in [Entries -> Nat \cup {-1}] /\ committed \subseteq Entries
         /\ period \in Seq(Rows) /\ Len(period) \in Nat
         /\ \A p \in 1..Len(period) :
              /\ period[p] \in Rows
              /\ period[p].start \in Int /\ period[p].end \in Int
              /\ period[p].from \in Int /\ period[p].to \in Int
              /\ period[p].opening \subseteq Entries /\ period[p].flows \subseteq Entries
              /\ period[p].commission \in Nat
         /\ \A w \in Closers :
              /\ closing[w].now \in Nat
              /\ closing[w].start \in Int /\ closing[w].end \in Int
              /\ closing[w].from \in Int /\ closing[w].to \in Int
              /\ closing[w].opening \subseteq Entries
<1>1. /\ clock \in Nat /\ zone \in Nat /\ settings \in Settings
      /\ dated \in [Entries -> Nat \cup {-1}] /\ committed \subseteq Entries
      /\ period \in Seq(Rows) /\ Len(period) \in Nat
  <2>1. clock \in Nat /\ zone \in Nat /\ settings \in Settings
    BY DEF PeriodsTypeOK
  <2>2. /\ dated \in [Entries -> Nat \cup {-1}] /\ committed \subseteq Entries
        /\ period \in Seq(Rows)
    BY Zenon DEF PeriodsTypeOK
  <2> QED
    BY <2>1, <2>2
<1>2. \A p \in 1..Len(period) : period[p] \in Rows
  BY <1>1
<1>3. ASSUME NEW p \in 1..Len(period)
      PROVE  /\ period[p].start \in Int /\ period[p].end \in Int
             /\ period[p].from \in Int /\ period[p].to \in Int
             /\ period[p].opening \subseteq Entries /\ period[p].flows \subseteq Entries
             /\ period[p].commission \in Nat
  BY <1>2, <1>3 DEF Rows
<1>4. ASSUME NEW w \in Closers
      PROVE  /\ closing[w].now \in Nat
             /\ closing[w].start \in Int /\ closing[w].end \in Int
             /\ closing[w].from \in Int /\ closing[w].to \in Int
             /\ closing[w].opening \subseteq Entries
  BY <1>4 DEF PeriodsTypeOK, Closings
<1> QED
  BY <1>1, <1>2, <1>3, <1>4
-----------------------------------------------------------------------------
(* The initial state, and the steps that close nothing.                     *)

LEMMA PeriodsInitInv ==
  ASSUME PeriodsInit
  PROVE  PeriodsInv
<1>1. PeriodsTypeOK
  BY DEF PeriodsInit, PeriodsTypeOK, NoClosing, NoPaying, Closings
<1>2. EntriesDated
  BY FS_EmptySet DEF PeriodsInit, EntriesDated
<1>3. LockHeld /\ ClosuresFit
  BY DEF PeriodsInit, LockHeld, ClosuresFit, NoClosing
<1>4. RowsFit /\ PeriodsChain /\ PeriodsOrdered /\ SealedIsOver /\ BalanceCarriesOver
  BY DEF PeriodsInit, RowsFit, PeriodsChain, PeriodsOrdered, SealedIsOver, BalanceCarriesOver
<1>5. CommissionsFit /\ CommissionPaidAsSealed
  BY DEF PeriodsInit, CommissionsFit, CommissionPaidAsSealed
<1> QED
  BY <1>1, <1>2, <1>3, <1>4, <1>5 DEF PeriodsInv

\* What speaks of the closed periods alone stays, as long as they do, days only pass and
\* committed entries stay committed as they are.
LEMMA RowsStay ==
  ASSUME PeriodsInv, period' = period, zone' = zone, clock' \in Nat, clock <= clock',
         committed \subseteq committed', \A e \in committed : dated'[e] = dated[e]
  PROVE  /\ RowsFit' /\ PeriodsChain' /\ PeriodsOrdered' /\ SealedIsOver'
         /\ BalanceCarriesOver'
<1>1. RowsFit'
  BY DEF PeriodsInv, RowsFit, Midnight
<1>2. PeriodsChain' /\ PeriodsOrdered'
  BY DEF PeriodsInv, PeriodsChain, PeriodsOrdered
<1>3. SealedIsOver'
  <2>1. clock \in Nat /\ zone \in Nat /\ \A p \in 1..Len(period) : period[p].end \in Int
    BY Types DEF PeriodsInv
  <2>2. Today \in Int /\ Today' \in Int /\ Today <= Today'
    BY <2>1, DateMonotone DEF Today
  <2> QED
    BY <2>1, <2>2 DEF PeriodsInv, SealedIsOver
<1>4. BalanceCarriesOver'
  <2>1. \A p \in 1..Len(period) :
          period[p].opening \cup period[p].flows \subseteq Entries
    BY Types DEF PeriodsInv
  <2> QED
    BY <2>1 DEF PeriodsInv, BalanceCarriesOver
<1> QED
  BY <1>1, <1>2, <1>3, <1>4

\* And so does what the closures have read, if they are left alone too.
LEMMA ClosuresStay ==
  ASSUME PeriodsInv, period' = period, zone' = zone, clock' \in Nat, clock <= clock',
         committed \subseteq committed', \A e \in committed : dated'[e] = dated[e],
         closing' = closing, holder' = holder
  PROVE  LockHeld' /\ ClosuresFit'
<1>1. LockHeld'
  BY DEF PeriodsInv, LockHeld
<1>2. /\ clock \in Nat /\ zone \in Nat
      /\ \A w \in Closers : closing[w].end \in Int /\ closing[w].now \in Nat
  BY Types DEF PeriodsInv
<1>t. Today \in Int /\ Today' \in Int /\ Today <= Today'
  BY <1>2, DateMonotone DEF Today
<1>3. \A w \in Closers : (closing[w].now <= clock)'
  BY <1>2 DEF PeriodsInv, ClosuresFit
<1>4. \A w \in Closers : closing[w].at \in {"context", "opening"} => closing[w].end <= Today'
  BY <1>2, <1>t DEF PeriodsInv, ClosuresFit
<1>5. ASSUME NEW d PROVE Midnight(d, zone)' = Midnight(d, zone)
  BY DEF Midnight
<1>6. ClosuresFit
  BY DEF PeriodsInv
<1>7. ClosuresFit'
  BY <1>3, <1>4, <1>6 DEF ClosuresFit, Midnight
<1> QED
  BY <1>1, <1>7

\* Time passes.
LEMMA TickInv ==
  ASSUME PeriodsInv, Tick
  PROVE  PeriodsInv'
<1> USE DEF Tick, entries, commissions
<1>1. clock' \in Nat /\ clock <= clock'
  BY DEF PeriodsInv, PeriodsTypeOK
<1>2. PeriodsTypeOK'
  BY DEF PeriodsInv, PeriodsTypeOK, Rows
<1>3. EntriesDated'
  BY DEF PeriodsInv, EntriesDated
<1>4. CommissionsFit' /\ CommissionPaidAsSealed'
  BY DEF PeriodsInv, CommissionsFit, CommissionPaidAsSealed
<1> QED
  BY <1>1, <1>2, <1>3, <1>4, RowsStay, ClosuresStay DEF PeriodsInv

\* An administrator changes the settings: what is closed, or being closed, keeps its days.
LEMMA SetSettingsInv ==
  ASSUME PeriodsInv, NEW s \in Settings, SetSettings(s)
  PROVE  PeriodsInv'
<1> USE DEF SetSettings, entries, commissions
<1>1. clock' \in Nat /\ clock <= clock'
  BY Types DEF PeriodsInv
<1>2. PeriodsTypeOK'
  <2>1. settings' \in Settings /\ PeriodsTypeOK
    BY DEF PeriodsInv
  <2> QED
    BY <2>1 DEF PeriodsTypeOK
<1>3. EntriesDated'
  BY DEF PeriodsInv, EntriesDated
<1>4. CommissionsFit' /\ CommissionPaidAsSealed'
  BY DEF PeriodsInv, CommissionsFit, CommissionPaidAsSealed
<1> QED
  BY <1>1, <1>2, <1>3, <1>4, RowsStay, ClosuresStay DEF PeriodsInv

\* An entry gets its instant, or is committed, maybe in a period that is closed already.
LEMMA EntryInv ==
  ASSUME PeriodsInv, NEW e \in Entries, InsertEntry(e) \/ CommitEntry(e)
  PROVE  PeriodsInv'
<1> USE DEF tenant, commissions
<1>1. /\ clock' \in Nat /\ clock <= clock' /\ zone' = zone /\ period' = period
      /\ closing' = closing /\ holder' = holder /\ committed \subseteq committed'
  BY Types DEF PeriodsInv, InsertEntry, CommitEntry
<1>2. \A d \in committed : dated'[d] = dated[d]
  BY Types DEF PeriodsInv, EntriesDated, InsertEntry, CommitEntry
<1>3. PeriodsTypeOK'
  <2>1. dated' \in [Entries -> Nat \cup {-1}] /\ committed' \subseteq Entries
    BY Types DEF PeriodsInv, InsertEntry, CommitEntry
  <2> QED
    BY <2>1 DEF PeriodsInv, PeriodsTypeOK, InsertEntry, CommitEntry
<1>4. CommissionsFit' /\ CommissionPaidAsSealed'
  BY DEF PeriodsInv, CommissionsFit, CommissionPaidAsSealed, InsertEntry, CommitEntry
<1>5. EntriesDated'
  <2>1. CASE InsertEntry(e)
    BY <2>1, Types DEF PeriodsInv, EntriesDated, InsertEntry
  <2>2. CASE CommitEntry(e)
    <3>1. IsFiniteSet(committed')
      BY <2>2, FS_AddElement DEF PeriodsInv, EntriesDated, CommitEntry
    <3>2. \A d \in committed' : dated'[d] \in Nat
      BY <2>2, Types DEF PeriodsInv, EntriesDated, CommitEntry
    <3> QED
      BY <3>1, <3>2 DEF EntriesDated
  <2> QED
    BY <2>1, <2>2
<1> QED
  BY <1>1, <1>2, <1>3, <1>4, <1>5, RowsStay, ClosuresStay DEF PeriodsInv
-----------------------------------------------------------------------------
(* The statements of a closure.                                             *)

\* A step that leaves time, settings, ledger and periods alone keeps what is said of them.
LEMMA LedgerStays ==
  ASSUME PeriodsInv, UNCHANGED <<tenant, entries, period>>
  PROVE  /\ EntriesDated' /\ RowsFit' /\ PeriodsChain' /\ PeriodsOrdered'
         /\ SealedIsOver' /\ BalanceCarriesOver' /\ Today' = Today
<1> USE DEF tenant, entries
<1>1. clock' \in Nat /\ clock <= clock'
  BY Types DEF PeriodsInv
<1>2. EntriesDated'
  BY DEF PeriodsInv, EntriesDated
<1>3. Today' = Today
  BY DEF Today
<1> QED
  BY <1>1, <1>2, <1>3, RowsStay DEF PeriodsInv

\* And so do the commissions, if nobody pays.
LEMMA CommissionsStay ==
  ASSUME PeriodsInv, UNCHANGED <<commissions, period>>
  PROVE  CommissionsFit' /\ CommissionPaidAsSealed'
  BY DEF PeriodsInv, CommissionsFit, CommissionPaidAsSealed, commissions

\* A closure is called.
LEMMA CallInv ==
  ASSUME PeriodsInv, NEW w \in Closers, Call(w)
  PROVE  PeriodsInv'
<1>1. UNCHANGED <<tenant, entries, commissions, period, holder, failures>>
  BY DEF Call
<1>2. PeriodsTypeOK'
  <2>1. PeriodsTypeOK /\ clock \in Nat
    BY Types DEF PeriodsInv
  <2>c. closing[w] \in Closings
    BY <2>1 DEF PeriodsTypeOK
  <2>2. [closing[w] EXCEPT !.at = "called", !.now = clock] \in Closings
    BY <2>1, <2>c DEF Closings
  <2>3. closing' = [closing EXCEPT ![w] = [closing[w] EXCEPT !.at = "called", !.now = clock]]
    BY <2>1 DEF Call, PeriodsTypeOK
  <2>4. closing' \in [Closers -> Closings]
    BY <2>1, <2>2, <2>3 DEF PeriodsTypeOK
  <2> QED
    BY <1>1, <2>1, <2>4 DEF PeriodsTypeOK, tenant, entries, commissions
<1>3. \A x \in Closers :
        \/ closing'[x] = closing[x]
        \/ closing'[x].at = "called" /\ closing'[x].now = clock
  BY DEF Call, PeriodsInv, PeriodsTypeOK
<1>4. LockHeld'
  BY <1>1, <1>3 DEF PeriodsInv, LockHeld
<1>5. ClosuresFit'
  <2>1. clock \in Nat /\ clock' = clock /\ zone' = zone
    BY <1>1, Types DEF PeriodsInv, tenant
  <2>2. UNCHANGED <<committed, dated, period>> /\ Today' = Today /\ ClosuresFit
    BY <1>1, LedgerStays DEF PeriodsInv, entries
  <2> QED
    BY <1>3, <2>1, <2>2 DEF ClosuresFit, Midnight
<1> QED
  BY <1>1, <1>2, <1>4, <1>5, LedgerStays, CommissionsStay DEF PeriodsInv

\* A closure gets the lock of the tenant, which nobody holds.
LEMMA LockInv ==
  ASSUME PeriodsInv, NEW w \in Closers, Lock(w)
  PROVE  PeriodsInv'
<1>1. UNCHANGED <<tenant, entries, commissions, period, failures>>
  BY DEF Lock
<1>2. PeriodsTypeOK'
  <2>1. PeriodsTypeOK
    BY DEF PeriodsInv
  <2> QED
    BY <1>1, <2>1 DEF Lock, PeriodsTypeOK, Closings, tenant, entries, commissions
<1>3. \A x \in Closers :
        \/ x # w /\ closing'[x] = closing[x]
        \/ x = w /\ closing'[x].at = "locked" /\ closing'[x].now = closing[x].now
  BY DEF Lock, PeriodsInv, PeriodsTypeOK
<1>4. LockHeld'
  <2>1. \A x \in Closers : closing[x].at \notin {"locked", "context", "opening"}
    BY DEF PeriodsInv, LockHeld, Lock
  <2> QED
    BY <1>3, <2>1 DEF Lock, LockHeld
<1>5. ClosuresFit'
  <2>1. clock' = clock /\ zone' = zone
    BY <1>1 DEF tenant
  <2>2. UNCHANGED <<committed, dated, period>> /\ Today' = Today /\ ClosuresFit
    BY <1>1, LedgerStays DEF PeriodsInv, entries
  <2> QED
    BY <1>3, <2>1, <2>2 DEF ClosuresFit, Midnight
<1> QED
  BY <1>1, <1>2, <1>4, <1>5, LedgerStays, CommissionsStay DEF PeriodsInv

\* The end of a closure, sealed or not, leaves the lock to the others.
LEMMA FinishFits ==
  ASSUME PeriodsInv, NEW w \in Closers, Finish(w)
  PROVE  /\ \A x \in Closers :
              \/ x # w /\ closing'[x] = closing[x]
              \/ x = w /\ closing'[x] = NoClosing
         /\ LockHeld'
         /\ holder' \in Closers \cup {NoCloser}
         /\ closing' \in [Closers -> Closings]
<1>1. \A x \in Closers :
         \/ x # w /\ closing'[x] = closing[x]
         \/ x = w /\ closing'[x] = NoClosing
  BY DEF Finish, PeriodsInv, PeriodsTypeOK
<1>2. LockHeld'
  BY <1>1 DEF PeriodsInv, LockHeld, Finish, NoClosing
<1>3. holder' \in Closers \cup {NoCloser}
  BY DEF PeriodsInv, PeriodsTypeOK, Finish
<1>4. NoClosing \in Closings
  BY DEF NoClosing, Closings
<1>5. closing' \in [Closers -> Closings]
  BY <1>4 DEF PeriodsInv, PeriodsTypeOK, Finish
<1> QED
  BY <1>1, <1>2, <1>3, <1>5

\* A closure ends without a period: nothing was due, or it failed.
LEMMA EndInv ==
  ASSUME PeriodsInv, NEW w \in Closers, NothingToClose(w) \/ FailClosing(w)
  PROVE  PeriodsInv'
<1>1. UNCHANGED <<tenant, entries, commissions, period>> /\ Finish(w)
  BY DEF NothingToClose, FailClosing
<1>2. PeriodsTypeOK'
  <2>f. failures \in 0..MaxCrashes
    BY DEF PeriodsInv, PeriodsTypeOK
  <2>1. failures' \in 0..MaxCrashes
    BY <2>f DEF NothingToClose, FailClosing, commissions
  <2>2. PeriodsTypeOK
    BY DEF PeriodsInv
  <2> QED
    BY <1>1, <2>1, <2>2, FinishFits DEF PeriodsTypeOK, tenant, entries, commissions
<1>3. ClosuresFit'
  <2>1. clock' = clock /\ zone' = zone /\ clock \in Nat
    BY <1>1, Types DEF PeriodsInv, tenant
  <2>2. UNCHANGED <<committed, dated, period>> /\ Today' = Today /\ ClosuresFit
    BY <1>1, LedgerStays DEF PeriodsInv, entries
  <2>3. \A x \in Closers : closing'[x] = closing[x] \/ closing'[x] = NoClosing
    BY <1>1, FinishFits
  <2> QED
    BY <2>1, <2>2, <2>3 DEF ClosuresFit, Midnight, NoClosing
<1> QED
  BY <1>1, <1>2, <1>3, FinishFits, LedgerStays, CommissionsStay DEF PeriodsInv

\* The closure reads which period is due: it goes on from the last one, and is over.
LEMMA ReadContextInv ==
  ASSUME PeriodsInv, NEW w \in Closers, ReadContext(w)
  PROVE  PeriodsInv'
<1> DEFINE end == PeriodEnd(settings, NextStart)
<1>1. UNCHANGED <<tenant, entries, commissions, period, holder, failures>>
  BY DEF ReadContext
<1>2. /\ settings \in Settings /\ zone \in Nat /\ clock \in Nat
      /\ closing[w].now \in Nat /\ closing[w].now <= clock
  BY Types DEF PeriodsInv, ClosuresFit
<1>3. /\ NextStart \in Int
      /\ period # <<>> => NextStart = period[Len(period)].end
  <2>1. NextStart # NoDay
    BY DEF ReadContext, PendingAt
  <2> QED
    BY <2>1, NextStartType DEF PeriodsInv
<1>4. end \in Int /\ NextStart < end
  BY <1>2, <1>3, PeriodContainsDay
<1>5. end <= Today
  <2>1. end <= BusinessDate(closing[w].now, zone)
    BY DEF ReadContext, PendingAt, Ended
  <2>2. /\ BusinessDate(closing[w].now, zone) \in Int /\ Today \in Int
        /\ BusinessDate(closing[w].now, zone) <= Today
    BY <1>2, DateMonotone DEF Today
  <2> QED
    BY <1>4, <2>1, <2>2
<1>6. Midnight(NextStart, zone) \in Int /\ Midnight(end, zone) \in Int
  <2>1. zone \in Int
    BY <1>2
  <2> QED
    BY <1>3, <1>4, <2>1, MidnightMonotone
<1> HIDE DEF end
<1>7. /\ closing[w].at = "locked"
      /\ closing' = [closing EXCEPT ![w] =
           [@ EXCEPT !.at = "context", !.start = NextStart, !.end = end,
                     !.from = Midnight(NextStart, zone), !.to = Midnight(end, zone)]]
  BY DEF ReadContext, end
<1>8. PeriodsTypeOK'
  <2>1. PeriodsTypeOK
    BY DEF PeriodsInv
  <2>2. closing' \in [Closers -> Closings]
    <3> DEFINE read == [closing[w] EXCEPT !.at = "context", !.start = NextStart, !.end = end,
                          !.from = Midnight(NextStart, zone), !.to = Midnight(end, zone)]
    <3>1. closing \in [Closers -> Closings]
      BY <2>1 DEF PeriodsTypeOK
    <3>2. closing[w] \in Closings
      BY <3>1
    <3>3. read \in Closings
      BY <1>3, <1>4, <1>6, <3>2 DEF Closings
    <3>4. closing' = [closing EXCEPT ![w] = read]
      BY <1>7
    <3> HIDE DEF read
    <3> QED
      BY <3>1, <3>3, <3>4
  <2> QED
    BY <1>1, <2>1, <2>2 DEF PeriodsTypeOK, tenant, entries, commissions
<1>9. \A x \in Closers :
        \/ x # w /\ closing'[x] = closing[x]
        \/ /\ x = w /\ closing'[x].at = "context" /\ closing'[x].now = closing[x].now
           /\ closing'[x].start = NextStart /\ closing'[x].end = end
           /\ closing'[x].from = Midnight(NextStart, zone)
           /\ closing'[x].to = Midnight(end, zone)
  BY <1>7 DEF PeriodsInv, PeriodsTypeOK
<1>10. LockHeld'
  BY <1>1, <1>7, <1>9 DEF PeriodsInv, LockHeld
<1>11. ClosuresFit'
  <2>1. clock' = clock /\ zone' = zone
    BY <1>1 DEF tenant
  <2>2. UNCHANGED <<committed, dated, period>> /\ Today' = Today /\ ClosuresFit
    BY <1>1, LedgerStays DEF PeriodsInv, entries
  <2> SUFFICES ASSUME NEW x \in Closers
               PROVE  ClosuresFit!(x)'
    BY DEF ClosuresFit
  <2>3. CASE x # w
    BY <1>9, <2>1, <2>2, <2>3 DEF ClosuresFit, Midnight
  <2>4. CASE x = w
    BY <1>2, <1>3, <1>4, <1>5, <1>9, <2>1, <2>2, <2>4 DEF Midnight
  <2> QED
    BY <2>3, <2>4
<1> QED
  BY <1>1, <1>8, <1>10, <1>11, LedgerStays, CommissionsStay DEF PeriodsInv

\* The opening balance: every entry the last photograph knew is dated before this period.
LEMMA ReadOpeningInv ==
  ASSUME PeriodsInv, NEW w \in Closers, ReadOpening(w)
  PROVE  PeriodsInv'
<1> DEFINE before == DatedBefore(closing[w].from)
<1>1. UNCHANGED <<tenant, entries, commissions, period, holder, failures>>
  BY DEF ReadOpening
<1>2. before \subseteq committed /\ \A e \in before : dated[e] < closing[w].from
  BY DEF DatedBefore
<1>3. period # <<>> =>
        period[Len(period)].opening \cup period[Len(period)].flows \subseteq before
  <2> SUFFICES ASSUME period # <<>>
               PROVE  period[Len(period)].opening \cup period[Len(period)].flows
                        \subseteq before
    OBVIOUS
  <2> DEFINE last == period[Len(period)]
  <2>1. Len(period) \in 1..Len(period)
    BY Types DEF PeriodsInv
  <2>2. /\ last.start \in Int /\ last.end \in Int /\ last.start < last.end
        /\ last.from \in Int /\ last.to \in Int /\ closing[w].from \in Int
        /\ zone \in Nat
    BY <2>1, Types DEF PeriodsInv, PeriodsChain
  <2>3. /\ last.from = Midnight(last.start, zone)
        /\ last.to = Midnight(last.end, zone)
        /\ \A e \in last.opening : e \in committed /\ dated[e] < last.from
        /\ \A e \in last.flows : e \in committed /\ dated[e] < last.to
    BY <2>1 DEF PeriodsInv, RowsFit
  <2>4. closing[w].from = last.to
    BY <2>3 DEF PeriodsInv, ClosuresFit, ReadOpening
  <2>5. last.from <= last.to
    <3> HIDE DEF last
    <3>1. last.start <= last.end /\ zone \in Int
      BY <2>2
    <3>2. Midnight(last.start, zone) <= Midnight(last.end, zone)
      BY <2>2, <3>1, MidnightMonotone
    <3> QED
      BY <2>3, <3>2
  <2>6. \A e \in committed : dated[e] \in Int
    BY Types DEF PeriodsInv
  <2> HIDE DEF last
  <2>7. \A e \in last.opening \cup last.flows : e \in committed /\ dated[e] < closing[w].from
    BY <2>2, <2>3, <2>4, <2>5, <2>6
  <2> QED
    BY <2>7 DEF DatedBefore, last
<1> HIDE DEF before
<1>4. /\ closing[w].at = "context"
      /\ closing' = [closing EXCEPT ![w].at = "opening", ![w].opening = before]
  BY DEF ReadOpening, before
<1>5. PeriodsTypeOK'
  <2>1. PeriodsTypeOK /\ before \subseteq Entries
    BY <1>2 DEF PeriodsInv, PeriodsTypeOK
  <2>c. closing[w] \in Closings
    BY <2>1 DEF PeriodsTypeOK
  <2>2. [closing[w] EXCEPT !.at = "opening", !.opening = before] \in Closings
    BY <2>1, <2>c DEF Closings
  <2>3. closing' = [closing EXCEPT ![w] =
                      [closing[w] EXCEPT !.at = "opening", !.opening = before]]
    BY <1>4, <2>1 DEF PeriodsTypeOK
  <2>4. closing' \in [Closers -> Closings]
    BY <2>1, <2>2, <2>3 DEF PeriodsTypeOK
  <2> QED
    BY <1>1, <2>1, <2>4 DEF PeriodsTypeOK, tenant, entries, commissions
<1>6. \A x \in Closers :
        \/ x # w /\ closing'[x] = closing[x]
        \/ /\ x = w /\ closing'[x].at = "opening" /\ closing'[x].opening = before
           /\ closing'[x].now = closing[x].now
           /\ closing'[x].start = closing[x].start /\ closing'[x].end = closing[x].end
           /\ closing'[x].from = closing[x].from /\ closing'[x].to = closing[x].to
  BY <1>4 DEF PeriodsInv, PeriodsTypeOK
<1>7. LockHeld'
  BY <1>1, <1>4, <1>6 DEF PeriodsInv, LockHeld
<1>8. ClosuresFit'
  <2>1. clock' = clock /\ zone' = zone
    BY <1>1 DEF tenant
  <2>2. UNCHANGED <<committed, dated, period>> /\ Today' = Today /\ ClosuresFit
    BY <1>1, LedgerStays DEF PeriodsInv, entries
  <2> SUFFICES ASSUME NEW x \in Closers
               PROVE  ClosuresFit!(x)'
    BY DEF ClosuresFit
  <2>3. CASE x # w
    BY <1>6, <2>1, <2>2, <2>3 DEF ClosuresFit, Midnight
  <2>4. CASE x = w
    BY <1>2, <1>3, <1>4, <1>6, <2>1, <2>2, <2>4 DEF ClosuresFit, Midnight
  <2> QED
    BY <2>3, <2>4
<1> QED
  BY <1>1, <1>5, <1>7, <1>8, LedgerStays, CommissionsStay DEF PeriodsInv

\* What a row says when it is sealed.
LEMMA RowFits ==
  ASSUME PeriodsInv, NEW w \in Closers, closing[w].at = "opening"
  PROVE  /\ RowOf(closing[w]) \in Rows
         /\ RowOf(closing[w]).start = closing[w].start
         /\ RowOf(closing[w]).end = closing[w].end
         /\ RowOf(closing[w]).from = closing[w].from
         /\ RowOf(closing[w]).to = closing[w].to
         /\ RowOf(closing[w]).opening = closing[w].opening
         /\ \A e \in RowOf(closing[w]).flows :
              /\ e \in committed
              /\ closing[w].from <= dated[e] /\ dated[e] < closing[w].to
<1> DEFINE counted == DatedIn(closing[w].from, closing[w].to)
<1>1. counted \subseteq committed
  BY DEF DatedIn
<1>2. Cardinality(counted) \in Nat
  BY <1>1, FS_Subset, FS_CardinalityType DEF PeriodsInv, EntriesDated
<1>3. settings.rate * Cardinality(counted) \in Nat
  <2>1. settings.rate \in Nat
    BY Types DEF PeriodsInv
  <2> HIDE DEF counted
  <2> QED
    BY <1>2, <2>1
<1>4. RowOf(closing[w]) =
        [start |-> closing[w].start, end |-> closing[w].end, from |-> closing[w].from,
         to |-> closing[w].to, opening |-> closing[w].opening, flows |-> counted,
         commission |-> settings.rate * Cardinality(counted)]
  BY DEF RowOf
<1>5. /\ closing[w].start \in Int /\ closing[w].end \in Int
      /\ closing[w].from \in Int /\ closing[w].to \in Int
      /\ closing[w].opening \subseteq Entries /\ counted \subseteq Entries
  BY <1>1, Types DEF PeriodsInv
<1>6. \A e \in counted :
        e \in committed /\ closing[w].from <= dated[e] /\ dated[e] < closing[w].to
  BY DEF DatedIn
<1> HIDE DEF counted
<1> QED
  BY <1>3, <1>4, <1>5, <1>6 DEF Rows

\* The closure seals its period: the chain goes on, and the balance with it.
LEMMA SealInv ==
  ASSUME PeriodsInv, NEW w \in Closers, Seal(w)
  PROVE  PeriodsInv'
<1> DEFINE row == RowOf(closing[w])
           n == Len(period)
<1>1. /\ UNCHANGED <<tenant, entries, commissions, failures>> /\ Finish(w)
      /\ closing[w].at = "opening"
  BY DEF Seal
<1>2. /\ period' = Append(period, row)
      /\ period \in Seq(Rows) /\ n \in Nat /\ row \in Rows
  BY <1>1, RowFits, Types DEF Seal, PeriodsInv
<1>3. /\ Len(period') = n + 1 /\ period' \in Seq(Rows)
      /\ period'[n + 1] = row
      /\ \A p \in 1..n : period'[p] = period[p]
  <2> HIDE DEF row
  <2> QED
    BY <1>2
<1>4. /\ row.start = closing[w].start /\ row.end = closing[w].end
      /\ row.from = Midnight(row.start, zone) /\ row.to = Midnight(row.end, zone)
      /\ row.start \in Int /\ row.end \in Int /\ row.start < row.end /\ row.end <= Today
      /\ \A e \in row.opening : e \in committed /\ dated[e] < row.from
      /\ \A e \in row.flows : e \in committed /\ row.from <= dated[e] /\ dated[e] < row.to
      /\ n # 0 => row.start = period[n].end
      /\ n # 0 => period[n].opening \cup period[n].flows \subseteq row.opening
  <2>1. n # 0 => period # <<>>
    BY <1>2
  <2> QED
    BY <1>1, <2>1, RowFits, Types DEF PeriodsInv, ClosuresFit
<1> HIDE DEF row
<1>5. UNCHANGED <<committed, dated, zone, clock, settings>> /\ Today' = Today
  BY <1>1 DEF tenant, entries, Today
<1>6. PeriodsTypeOK' /\ EntriesDated'
  <2>1. PeriodsTypeOK /\ EntriesDated
    BY DEF PeriodsInv
  <2> QED
    BY <1>1, <1>3, <2>1, FinishFits DEF PeriodsTypeOK, EntriesDated, tenant, entries, commissions
<1>7. RowsFit'
  <2> SUFFICES ASSUME NEW p \in 1..(n + 1)
               PROVE  /\ period'[p].from = Midnight(period'[p].start, zone)
                      /\ period'[p].to = Midnight(period'[p].end, zone)
                      /\ \A e \in period'[p].opening : e \in committed /\ dated[e] < period'[p].from
                      /\ \A e \in period'[p].flows :
                           e \in committed /\ period'[p].from <= dated[e] /\ dated[e] < period'[p].to
    BY <1>3, <1>5 DEF RowsFit, Midnight
  <2>1. CASE p \in 1..n
    BY <1>3, <2>1 DEF PeriodsInv, RowsFit
  <2>2. CASE p = n + 1
    BY <1>3, <1>4, <2>2
  <2> QED
    BY <1>2, <2>1, <2>2
<1>8. /\ \A p \in 1..n : period[p].start \in Int /\ period[p].end \in Int
      /\ \A p \in 1..n : period[p].start < period[p].end
      /\ \A p \in 1..n : p > 1 => period[p].start = period[p - 1].end
      /\ \A p, q \in 1..n : p < q => period[p].end <= period[q].start
  BY Types DEF PeriodsInv, PeriodsChain, PeriodsOrdered
<1>9. PeriodsChain'
  <2> SUFFICES ASSUME NEW p \in 1..(n + 1)
               PROVE  /\ period'[p].start < period'[p].end
                      /\ p > 1 => period'[p].start = period'[p - 1].end
    BY <1>3 DEF PeriodsChain
  <2>1. CASE p \in 1..n
    <3>1. p > 1 => p - 1 \in 1..n
      BY <1>2, <2>1
    <3> QED
      BY <1>3, <1>8, <2>1, <3>1
  <2>2. CASE p = n + 1
    <3>1. p > 1 => n \in 1..n /\ n # 0 /\ p - 1 = n
      BY <1>2, <2>2
    <3> QED
      BY <1>3, <1>4, <2>2, <3>1
  <2> QED
    BY <1>2, <2>1, <2>2
<1>10. PeriodsOrdered'
  <2> SUFFICES ASSUME NEW p \in 1..(n + 1), NEW q \in 1..(n + 1), p < q
               PROVE  period'[p].end <= period'[q].start
    BY <1>3 DEF PeriodsOrdered
  <2>1. p \in 1..n
    BY <1>2
  <2>2. CASE q \in 1..n
    BY <1>3, <1>8, <2>1, <2>2
  <2>3. CASE q = n + 1
    <3>1. n \in 1..n /\ n # 0
      BY <1>2, <2>1
    <3>2. period[p].end <= period[n].end
      <4>1. CASE p = n
        BY <1>8, <2>1, <4>1
      <4>2. CASE p < n
        BY <1>8, <2>1, <3>1, <4>2
      <4> QED
        BY <1>2, <2>1, <4>1, <4>2
    <3> QED
      BY <1>3, <1>4, <2>1, <2>3, <3>1, <3>2
  <2> QED
    BY <1>2, <2>2, <2>3
<1>11. SealedIsOver'
  <2>1. \A p \in 1..n : period[p].end <= Today
    BY DEF PeriodsInv, SealedIsOver
  <2>2. \A p \in 1..(n + 1) : period'[p].end <= Today
    BY <1>2, <1>3, <1>4, <2>1
  <2> QED
    BY <1>3, <1>5, <2>2 DEF SealedIsOver
<1>12. BalanceCarriesOver'
  <2> SUFFICES ASSUME NEW p \in 1..(n + 1), NEW e \in Entries, p > 1,
                      e \in period'[p - 1].opening \cup period'[p - 1].flows
               PROVE  e \in period'[p].opening
    BY <1>3 DEF BalanceCarriesOver
  <2>1. p - 1 \in 1..n
    BY <1>2
  <2>2. e \in period[p - 1].opening \cup period[p - 1].flows
    BY <1>3, <2>1
  <2>3. CASE p \in 1..n
    BY <1>3, <2>2, <2>3 DEF PeriodsInv, BalanceCarriesOver
  <2>4. CASE p = n + 1
    <3>1. n # 0 /\ p - 1 = n
      BY <1>2, <2>4
    <3> QED
      BY <1>3, <1>4, <2>2, <2>4, <3>1
  <2> QED
    BY <1>2, <2>3, <2>4
<1>13. CommissionsFit' /\ CommissionPaidAsSealed'
  <2>1. UNCHANGED <<paying, paid>> /\ CommissionsFit /\ CommissionPaidAsSealed
    BY <1>1 DEF commissions, PeriodsInv
  <2>2. \A p \in 1..n : p \in 1..(n + 1)
    BY <1>2
  <2> QED
    BY <1>3, <2>1, <2>2 DEF CommissionsFit, CommissionPaidAsSealed
<1>14. ClosuresFit'
  <2>1. \A x \in Closers :
          /\ closing'[x].at \notin {"context", "opening"}
          /\ closing'[x].now <= clock
    <3>1. \A x \in Closers : x # w => closing[x].at \notin {"context", "opening"}
      BY <1>1 DEF PeriodsInv, LockHeld
    <3>2. \A x \in Closers : closing[x].now <= clock
      BY DEF PeriodsInv, ClosuresFit
    <3>3. clock \in Nat
      BY Types DEF PeriodsInv
    <3> QED
      BY <1>1, <3>1, <3>2, <3>3, FinishFits DEF NoClosing
  <2> QED
    BY <1>5, <2>1 DEF ClosuresFit
<1> QED
  BY <1>1, <1>6, <1>7, <1>9, <1>10, <1>11, <1>12, <1>13, <1>14, FinishFits DEF PeriodsInv

-----------------------------------------------------------------------------
(* The commissions.                                                         *)

\* A step of the payments leaves the closures and the periods as they are.
LEMMA PayingFits ==
  ASSUME PeriodsInv, UNCHANGED <<tenant, entries, period, holder, closing, failures>>,
         paying' \in [Payers -> [period : Nat, amount : Nat]],
         paid' \in Seq([period : Nat, amount : Nat]),
         CommissionsFit', CommissionPaidAsSealed'
  PROVE  PeriodsInv'
<1>1. PeriodsTypeOK'
  <2>1. PeriodsTypeOK
    BY DEF PeriodsInv
  <2> QED
    BY <2>1 DEF PeriodsTypeOK, tenant, entries
<1>2. LockHeld' /\ ClosuresFit'
  <2>1. clock' \in Nat /\ clock <= clock'
    BY Types DEF PeriodsInv, tenant
  <2> QED
    BY <2>1, ClosuresStay DEF tenant, entries
<1> QED
  BY <1>1, <1>2, LedgerStays DEF PeriodsInv

\* A request reads what the photograph of a closed period says is due.
LEMMA LoadDueInv ==
  ASSUME PeriodsInv, NEW q \in Payers, NEW p \in 1..Len(period), LoadDue(q, p)
  PROVE  PeriodsInv'
<1>1. p \in Nat /\ Due(p) \in Nat
  BY Types DEF PeriodsInv, Due
<1>2. /\ UNCHANGED <<tenant, entries, period, holder, closing, failures, paid>>
      /\ paying' = [paying EXCEPT ![q] = [period |-> p, amount |-> Due(p)]]
  BY DEF LoadDue
<1>3. /\ paying \in [Payers -> [period : Nat, amount : Nat]]
      /\ paid \in Seq([period : Nat, amount : Nat])
  BY DEF PeriodsInv, PeriodsTypeOK
<1>4. paying' \in [Payers -> [period : Nat, amount : Nat]]
  BY <1>1, <1>2, <1>3
<1>5. CommissionsFit'
  <2>1. \A r \in Payers :
          \/ paying'[r] = paying[r]
          \/ paying'[r].period = p /\ paying'[r].amount = period[p].commission
    BY <1>2, <1>3 DEF Due
  <2>2. UNCHANGED <<period, paid>> /\ CommissionsFit
    BY <1>2 DEF PeriodsInv
  <2> QED
    BY <2>1, <2>2 DEF CommissionsFit
<1>6. CommissionPaidAsSealed'
  BY <1>2 DEF PeriodsInv, CommissionPaidAsSealed
<1> QED
  BY <1>2, <1>3, <1>4, <1>5, <1>6, PayingFits

\* A request gives up.
LEMMA FailPayingInv ==
  ASSUME PeriodsInv, NEW q \in Payers, FailPaying(q)
  PROVE  PeriodsInv'
<1>1. /\ UNCHANGED <<tenant, entries, period, holder, closing, failures, paid>>
      /\ paying' = [paying EXCEPT ![q] = NoPaying]
  BY DEF FailPaying
<1>2. /\ paying \in [Payers -> [period : Nat, amount : Nat]]
      /\ paid \in Seq([period : Nat, amount : Nat])
  BY DEF PeriodsInv, PeriodsTypeOK
<1>3. paying' \in [Payers -> [period : Nat, amount : Nat]]
  BY <1>1, <1>2 DEF NoPaying
<1>4. CommissionsFit'
  BY <1>1, <1>2 DEF PeriodsInv, CommissionsFit
<1>5. CommissionPaidAsSealed'
  BY <1>1 DEF PeriodsInv, CommissionPaidAsSealed
<1> QED
  BY <1>1, <1>2, <1>3, <1>4, <1>5, PayingFits

\* The unique index of the ledger lets one payment of a period through.
LEMMA PayCommissionInv ==
  ASSUME PeriodsInv, NEW q \in Payers, PayCommission(q)
  PROVE  PeriodsInv'
<1> DEFINE m == Len(paid)
           due == paying[q]
<1>1. /\ UNCHANGED <<tenant, entries, period, holder, closing, failures>>
      /\ paying' = [paying EXCEPT ![q] = NoPaying]
      /\ paid' = Append(paid, due)
      /\ due # NoPaying
      /\ \A i \in 1..m : paid[i].period # due.period
  BY DEF PayCommission, Payable
<1>2. /\ paying \in [Payers -> [period : Nat, amount : Nat]]
      /\ paid \in Seq([period : Nat, amount : Nat]) /\ m \in Nat
  BY DEF PeriodsInv, PeriodsTypeOK
<1>3. paying' \in [Payers -> [period : Nat, amount : Nat]]
  BY <1>1, <1>2 DEF NoPaying
<1>4. due \in [period : Nat, amount : Nat]
  BY <1>2
<1> HIDE DEF due
<1>5. /\ paid' \in Seq([period : Nat, amount : Nat]) /\ Len(paid') = m + 1
      /\ paid'[m + 1] = due /\ \A i \in 1..m : paid'[i] = paid[i]
  BY <1>1, <1>2, <1>4
<1>6. due.period \in 1..Len(period) /\ due.amount = period[due.period].commission
  BY <1>1 DEF due, PeriodsInv, CommissionsFit
<1>7. CommissionsFit'
  <2>1. \A i \in 1..(m + 1) : paid'[i].period \in 1..Len(period)
    <3>1. \A i \in 1..m : paid[i].period \in 1..Len(period)
      BY DEF PeriodsInv, CommissionsFit
    <3>2. \A i \in 1..(m + 1) : i \in 1..m \/ i = m + 1
      BY <1>2
    <3> QED
      BY <1>5, <1>6, <3>1, <3>2
  <2>2. \A r \in Payers : paying'[r] # NoPaying => paying'[r] = paying[r]
    BY <1>1, <1>2
  <2>3. UNCHANGED period /\ CommissionsFit
    BY <1>1 DEF PeriodsInv
  <2> QED
    BY <1>5, <2>1, <2>2, <2>3 DEF CommissionsFit
<1>8. CommissionPaidAsSealed'
  <2>1. /\ \A i \in 1..m : paid[i].amount = period[paid[i].period].commission
        /\ \A i, j \in 1..m : i # j => paid[i].period # paid[j].period
    BY DEF PeriodsInv, CommissionPaidAsSealed
  <2>2. \A i \in 1..(m + 1) : i \in 1..m \/ i = m + 1
    BY <1>2
  <2>3. \A i \in 1..(m + 1) : paid'[i].amount = period[paid'[i].period].commission
    BY <1>5, <1>6, <2>1, <2>2
  <2>4. \A i, j \in 1..(m + 1) : i # j => paid'[i].period # paid'[j].period
    BY <1>1, <1>5, <2>1, <2>2
  <2> QED
    BY <1>1, <1>5, <2>3, <2>4 DEF CommissionPaidAsSealed
<1> QED
  BY <1>1, <1>3, <1>5, <1>7, <1>8, PayingFits
-----------------------------------------------------------------------------
(* The theorems.                                                            *)

\* Every step keeps the invariant.
LEMMA PeriodsNextInv ==
  ASSUME PeriodsInv, [PeriodsNext]_periodsVars
  PROVE  PeriodsInv'
<1>1. CASE Tick
  BY <1>1, TickInv
<1>2. CASE \E s \in Settings : SetSettings(s)
  BY <1>2, SetSettingsInv
<1>3. CASE \E e \in Entries : InsertEntry(e) \/ CommitEntry(e)
  BY <1>3, EntryInv
<1>4. CASE \E w \in Closers : Call(w) \/ Lock(w)
  BY <1>4, CallInv, LockInv
<1>5. CASE \E w \in Closers : Statement(w) \/ FailClosing(w)
  BY <1>5, EndInv, ReadContextInv, ReadOpeningInv, SealInv DEF Statement
<1>6. CASE \E q \in Payers :
             (\E p \in 1..Len(period) : LoadDue(q, p)) \/ PayCommission(q) \/ FailPaying(q)
  BY <1>6, LoadDueInv, PayCommissionInv, FailPayingInv
<1>7. CASE UNCHANGED periodsVars
  <2>1. /\ UNCHANGED <<tenant, entries, period, holder, closing, failures, paying, paid>>
        /\ UNCHANGED <<commissions, period>>
    BY <1>7 DEF periodsVars, commissions
  <2>2. /\ paying' \in [Payers -> [period : Nat, amount : Nat]]
        /\ paid' \in Seq([period : Nat, amount : Nat])
    BY <2>1 DEF PeriodsInv, PeriodsTypeOK
  <2> QED
    BY <2>1, <2>2, CommissionsStay, PayingFits
<1> QED
  BY <1>1, <1>2, <1>3, <1>4, <1>5, <1>6, <1>7 DEF PeriodsNext

\* The days of two periods are apart, and so are the entries dated in them.
LEMMA OneCount ==
  ASSUME PeriodsInv
  PROVE  CountedOnce
<1>1. ASSUME NEW p \in 1..Len(period), NEW q \in 1..Len(period), p < q,
             NEW e \in period[p].flows \cap period[q].flows
      PROVE  FALSE
  <2>1. /\ zone \in Int /\ period[p].end \in Int /\ period[q].start \in Int
        /\ dated[e] \in Int
    BY Types DEF PeriodsInv
  <2>2. period[p].end <= period[q].start
    BY <1>1 DEF PeriodsInv, PeriodsOrdered
  <2>3. Midnight(period[p].end, zone) <= Midnight(period[q].start, zone)
    BY <2>1, <2>2, MidnightMonotone
  <2>4. /\ dated[e] < Midnight(period[p].end, zone)
        /\ Midnight(period[q].start, zone) <= dated[e]
    BY DEF PeriodsInv, RowsFit
  <2>5. Midnight(period[p].end, zone) \in Int /\ Midnight(period[q].start, zone) \in Int
    BY <2>1, MidnightMonotone
  <2> QED
    BY <2>1, <2>3, <2>4, <2>5
<1>2. \A p, q \in 1..Len(period) : p # q => p < q \/ q < p
  OBVIOUS
<1> QED
  BY <1>1, <1>2 DEF CountedOnce

\* The invariant holds in every state.
THEOREM PeriodsInvariant == PeriodsSpec => []PeriodsInv
  BY PeriodsInitInv, PeriodsNextInv, PTL DEF PeriodsSpec

\* However closers, payers, the ledger and the clock interleave, the closed periods of a
\* tenant are a chain of ended days, the balance carries over, each entry is counted once
\* and each commission is paid once as it was sealed.
THEOREM PeriodsAlwaysSafe == PeriodsSpec => []PeriodsSafe
<1>1. PeriodsInv => PeriodsSafe
  BY OneCount DEF PeriodsSafe
<1> QED
  BY <1>1, PeriodsInvariant, PTL

-----------------------------------------------------------------------------
(* The queue of the phone.                                                  *)

HIDE PeriodsAssumption
USE OfflineAssumption

\* What was enqueued stays enqueued, so a line of it stays one.
TapsStay == \A o \in Ops : tap[o] = "queued" => tap'[o] = "queued"

LEMMA LineStays ==
  ASSUME NEW s, Line(s), TapsStay
  PROVE  Line(s)'
  BY DEF Line, IsInjective, TapsStay

LEMMA EmptyLine == Line(<<>>) /\ Line(<<>>)'
  BY DEF Line, IsInjective

LEMMA LineLosesHead ==
  ASSUME NEW s, Line(s), s # <<>>
  PROVE  Line(Tail(s)) /\ Head(s) \in Ops
<1>1. s \in Seq(Ops) /\ IsInjective(s) /\ \A i \in DOMAIN s : tap[s[i]] = "queued"
  BY DEF Line
<1>2. PICK r : r = Tail(s)
  OBVIOUS
<1>3. /\ Head(s) \in Ops /\ r \in Seq(Ops) /\ Len(r) = Len(s) - 1
      /\ \A i \in 1..Len(r) : r[i] = s[i + 1]
  BY <1>1, <1>2, HeadTailProperties
<1>4. Len(s) \in Nat /\ DOMAIN s = 1..Len(s) /\ Len(r) \in Nat /\ DOMAIN r = 1..Len(r)
  BY <1>1, <1>3
<1>5. \A i \in DOMAIN r : i + 1 \in DOMAIN s /\ r[i] = s[i + 1]
  BY <1>3, <1>4
<1>6. IsInjective(r)
  BY <1>1, <1>4, <1>5 DEF IsInjective
<1>7. \A i \in DOMAIN r : tap[r[i]] = "queued"
  BY <1>1, <1>5
<1> QED
  BY <1>2, <1>3, <1>6, <1>7 DEF Line

\* The operation that is being enqueued is in no line.
LEMMA LineGrows ==
  ASSUME NEW s, Line(s), NEW o \in Ops, tap[o] # "queued", TapsStay, tap'[o] = "queued"
  PROVE  Line(Append(s, o))'
<1>1. s \in Seq(Ops) /\ IsInjective(s) /\ \A i \in DOMAIN s : tap[s[i]] = "queued"
  BY DEF Line
<1>2. PICK r : r = Append(s, o)
  OBVIOUS
<1>3. /\ r \in Seq(Ops) /\ DOMAIN r = 1..(Len(s) + 1) /\ DOMAIN s = 1..Len(s) /\ Len(s) \in Nat
      /\ r[Len(s) + 1] = o /\ \A i \in DOMAIN s : r[i] = s[i]
  BY <1>1, <1>2
<1>4. \A i \in DOMAIN r : i = Len(s) + 1 \/ i \in DOMAIN s
  BY <1>3
<1>5. \A i \in DOMAIN s : s[i] \in Ops /\ s[i] # o
  BY <1>1
<1>6. IsInjective(r)
  BY <1>1, <1>3, <1>4, <1>5 DEF IsInjective
<1>7. \A i \in DOMAIN r : tap'[r[i]] = "queued"
  BY <1>1, <1>3, <1>4, <1>5 DEF TapsStay
<1>8. Line(r)'
  BY <1>3, <1>6, <1>7 DEF Line, IsInjective
<1> QED
  BY <1>2, <1>8

\* A step that leaves the queues alone.
LEMMA QueuesStay ==
  ASSUME QueuesFit, TapsStay, UNCHANGED <<queue, sweep, saw>>,
         \A o \in Ops : tap'[o] = "writing" => tap[o] = "writing"
  PROVE  QueuesFit'
<1>1. PICK q : q = queue
  OBVIOUS
<1>2. PICK w : w = sweep.ops
  OBVIOUS
<1>3. Line(q)' /\ Line(w)'
  BY <1>1, <1>2, LineStays DEF QueuesFit
<1>4. ASSUME NEW o \in Ops, tap'[o] = "writing"
      PROVE  Line(saw[o])'
  <2>1. PICK s : s = saw[o]
    OBVIOUS
  <2>2. Line(s)'
    BY <1>4, <2>1, LineStays DEF QueuesFit
  <2> QED
    BY <2>1, <2>2 DEF Line, IsInjective
<1> QED
  BY <1>1, <1>2, <1>3, <1>4 DEF QueuesFit

\* The types of what a step does not change.
Requests == [Ops -> [by : {"nobody", "tap", "sweep"}, answer : {"none", "ok", "4xx"}]]

LEMMA ProcessKeeps ==
  ASSUME SyncTypeOK, CreditedOnce, NEW o \in Ops, NEW answer, Process(o, answer)
  PROVE  credited' \in [Ops -> Nat] /\ CreditedOnce'
<1>1. credited \in [Ops -> Nat] /\ \A p \in Ops : credited[p] <= 1
  BY DEF SyncTypeOK, CreditedOnce
<1>2. CASE credited' = credited
  BY <1>1, <1>2 DEF CreditedOnce
<1>3. CASE ~ KeyKnown(o) /\ credited' = [credited EXCEPT ![o] = @ + 1]
  <2>1. credited[o] = 0
    BY <1>1, <1>3 DEF KeyKnown
  <2> QED
    BY <1>1, <1>3, <2>1 DEF CreditedOnce
<1> QED
  BY <1>2, <1>3 DEF Process

LEMMA ArriveKeeps ==
  ASSUME SyncSafe, NEW o \in Ops, Arrive(o)
  PROVE  SyncSafe'
<1>1. PICK answer \in {"ok", "4xx"} :
        Process(o, answer) /\ request' = [request EXCEPT ![o].answer = answer]
  BY DEF Arrive
<1>2. credited' \in [Ops -> Nat] /\ CreditedOnce'
  BY <1>1, ProcessKeeps DEF SyncSafe
<1>3. request' \in Requests
  BY <1>1 DEF SyncSafe, SyncTypeOK, Requests
<1>4. SyncTypeOK'
  BY <1>2, <1>3 DEF SyncSafe, SyncTypeOK, Arrive, phone, Requests
<1>5. QueuesFit'
  BY QueuesStay DEF SyncSafe, Arrive, phone, TapsStay
<1> QED
  BY <1>2, <1>4, <1>5 DEF SyncSafe

LEMMA ArriveLateKeeps ==
  ASSUME SyncSafe, NEW o \in Ops, ArriveLate(o)
  PROVE  SyncSafe'
<1>1. PICK answer \in {"ok", "4xx"} : Process(o, answer)
  BY DEF ArriveLate
<1>2. credited' \in [Ops -> Nat] /\ CreditedOnce'
  BY <1>1, ProcessKeeps DEF SyncSafe
<1>3. SyncTypeOK'
  BY <1>2 DEF SyncSafe, SyncTypeOK, ArriveLate, phone
<1>4. QueuesFit'
  BY QueuesStay DEF SyncSafe, ArriveLate, phone, TapsStay
<1> QED
  BY <1>2, <1>3, <1>4 DEF SyncSafe

\* A request that is sent, answered or given up, with a step of the mutation of o.
LEMMA TapMoves ==
  ASSUME SyncSafe, NEW o \in Ops, tap[o] # "queued",
         NEW at \in {"sending", "reading", "registered", "shown"}, tap' = [tap EXCEPT ![o] = at],
         request' \in Requests,
         late' \subseteq Ops, lost' \in 0..MaxLost, refused' \subseteq Ops,
         UNCHANGED <<saw, queue, sweep, server, session, overlap, restarts>>
  PROVE  SyncSafe'
<1>1. \A p \in Ops : tap'[p] = IF p = o THEN at ELSE tap[p]
  BY DEF SyncSafe, SyncTypeOK
<1>2. SyncTypeOK'
  BY DEF SyncSafe, SyncTypeOK, server, Requests
<1>3. QueuesFit'
  BY <1>1, QueuesStay DEF SyncSafe, TapsStay
<1>4. CreditedOnce'
  BY DEF SyncSafe, CreditedOnce, server
<1> QED
  BY <1>2, <1>3, <1>4 DEF SyncSafe

LEMMA RequestTypes ==
  ASSUME SyncSafe, NEW o \in Ops, NEW by \in {"tap", "sweep"}
  PROVE  /\ request \in Requests /\ late \subseteq Ops /\ lost \in 0..MaxLost /\ refused \subseteq Ops
         /\ Sent(o, by) => request' \in Requests
         /\ NoAnswer(o, by) => request' \in Requests /\ late' \subseteq Ops /\ lost' \in 0..MaxLost
<1>1. request \in Requests /\ late \subseteq Ops /\ lost \in 0..MaxLost /\ refused \subseteq Ops
  BY DEF SyncSafe, SyncTypeOK, Requests
<1>2. NoRequest \in [by : {"nobody", "tap", "sweep"}, answer : {"none", "ok", "4xx"}]
  BY DEF NoRequest
<1>3. PICK r \in [by : {"nobody", "tap", "sweep"}, answer : {"none", "ok", "4xx"}] :
        r = [by |-> by, answer |-> "none"]
  OBVIOUS
<1>4. Sent(o, by) => request' \in Requests
  BY <1>1, <1>3 DEF Sent, Requests
<1>5. NoAnswer(o, by) => request' \in Requests
  BY <1>1, <1>2 DEF NoAnswer, Requests
<1>6. NoAnswer(o, by) => late' \subseteq Ops /\ lost' \in 0..MaxLost
  BY <1>1 DEF NoAnswer
<1> QED
  BY <1>1, <1>4, <1>5, <1>6

LEMMA MutationKeeps ==
  ASSUME SyncSafe, NEW o \in Ops,
         Collect(o) \/ Registered(o) \/ ShowError(o) \/ ShowFailure(o) \/ Enqueue(o)
  PROVE  SyncSafe'
<1>1. CASE Collect(o)
  BY <1>1, TapMoves, RequestTypes DEF Collect
<1>2. CASE Registered(o)
  BY <1>2, TapMoves, RequestTypes DEF Registered, network
<1>3. CASE ShowError(o)
  BY <1>3, TapMoves, RequestTypes DEF ShowError, network
<1>4. CASE ShowFailure(o)
  BY <1>4, TapMoves, RequestTypes DEF ShowFailure
<1>5. CASE Enqueue(o)
  BY <1>5, TapMoves, RequestTypes DEF Enqueue
<1> QED
  BY <1>1, <1>2, <1>3, <1>4, <1>5

LEMMA ReadQueueKeeps ==
  ASSUME SyncSafe, NEW o \in Ops, ReadQueue(o)
  PROVE  SyncSafe'
<1>1. /\ DOMAIN saw = Ops
      /\ tap \in [Ops -> {"new", "sending", "reading", "writing", "queued", "registered", "shown",
                          "killed"}]
  BY DEF SyncSafe, SyncTypeOK
<1>2. /\ \A p \in Ops : tap'[p] = IF p = o THEN "writing" ELSE tap[p]
      /\ \A p \in Ops : saw'[p] = IF p = o THEN queue ELSE saw[p]
      /\ DOMAIN saw' = Ops /\ tap[o] = "reading"
  BY <1>1 DEF ReadQueue
<1>3. overlap' \in BOOLEAN
  BY DEF ReadQueue, SyncSafe, SyncTypeOK
<1>4. SyncTypeOK'
  BY <1>2, <1>3 DEF SyncSafe, SyncTypeOK, ReadQueue, network, server
<1>5. TapsStay
  BY <1>2 DEF TapsStay
<1>6. QueuesFit'
  <2>1. PICK q : q = queue
    OBVIOUS
  <2>2. PICK w : w = sweep.ops
    OBVIOUS
  <2>3. Line(q)' /\ Line(w)'
    BY <1>5, <2>1, <2>2, LineStays DEF QueuesFit, SyncSafe
  <2>4. ASSUME NEW p \in Ops, tap'[p] = "writing"
        PROVE  Line(saw[p])'
    <3>1. PICK s : s = saw'[p]
      OBVIOUS
    <3>2. Line(s)'
      <4>1. CASE p = o
        BY <1>2, <2>1, <2>3, <3>1, <4>1
      <4>2. CASE p # o
        <5>1. Line(s)
          BY <1>2, <2>4, <3>1, <4>2 DEF QueuesFit, SyncSafe
        <5> QED
          BY <1>5, <5>1, LineStays
      <4> QED
        BY <4>1, <4>2
    <3> QED
      BY <3>1, <3>2 DEF Line, IsInjective
  <2>5. sweep' = sweep /\ queue' = queue
    BY DEF ReadQueue
  <2> QED
    BY <2>1, <2>2, <2>3, <2>4, <2>5 DEF QueuesFit, SyncSafe, Line, IsInjective
<1>7. CreditedOnce'
  BY DEF SyncSafe, CreditedOnce, ReadQueue, server
<1> QED
  BY <1>4, <1>6, <1>7 DEF SyncSafe

LEMMA WriteQueueKeeps ==
  ASSUME SyncSafe, NEW o \in Ops, WriteQueue(o)
  PROVE  SyncSafe'
<1>1. /\ \A p \in Ops : tap'[p] = IF p = o THEN "queued" ELSE tap[p]
      /\ tap[o] = "writing"
  BY DEF SyncSafe, SyncTypeOK, WriteQueue
<1>2. SyncTypeOK'
  BY DEF SyncSafe, SyncTypeOK, WriteQueue, network, server
<1>3. TapsStay
  BY <1>1 DEF TapsStay
<1>4. QueuesFit'
  <2>1. PICK s : s = saw[o]
    OBVIOUS
  <2>2. Line(s)
    BY <1>1, <2>1 DEF QueuesFit, SyncSafe
  <2>3. Line(Append(s, o))'
    BY <1>1, <1>3, <2>2, LineGrows
  <2>4. PICK q : q = Append(s, o)
    OBVIOUS
  <2>5. Line(q)' /\ queue' = q
    BY <2>1, <2>3, <2>4 DEF WriteQueue
  <2>6. PICK w : w = sweep.ops
    OBVIOUS
  <2>7. Line(w)'
    BY <1>3, <2>6, LineStays DEF QueuesFit, SyncSafe
  <2>8. sweep' = sweep /\ saw' = saw
    BY DEF WriteQueue
  <2>9. ASSUME NEW p \in Ops, tap'[p] = "writing"
        PROVE  Line(saw[p])'
    <3>1. PICK r : r = saw[p]
      OBVIOUS
    <3>2. Line(r)
      BY <1>1, <2>9, <3>1 DEF QueuesFit, SyncSafe
    <3>3. Line(r)'
      BY <1>3, <3>2, LineStays
    <3> QED
      BY <2>8, <3>1, <3>3 DEF Line, IsInjective
  <2> QED
    BY <2>5, <2>6, <2>7, <2>8, <2>9 DEF QueuesFit, SyncSafe, Line, IsInjective
<1>5. CreditedOnce'
  BY DEF SyncSafe, CreditedOnce, WriteQueue, server
<1> QED
  BY <1>2, <1>4, <1>5 DEF SyncSafe

\* The sweep goes to another step, with the line ops, and the queue to the line q.
LEMMA SweepMoves ==
  ASSUME SyncSafe, NEW at \in {"idle", "next", "waiting"}, NEW ops, Line(ops),
         at = "waiting" => ops # <<>>, sweep' = [at |-> at, ops |-> ops],
         NEW q, Line(q), queue' = q,
         request' \in Requests, late' \subseteq Ops, lost' \in 0..MaxLost, refused' \subseteq Ops,
         overlap' \in BOOLEAN, UNCHANGED <<tap, saw, server, session, restarts>>
  PROVE  SyncSafe'
<1>1. TapsStay
  BY DEF TapsStay
<1>2. Line(ops)' /\ Line(q)' /\ ops \in Seq(Ops)
  BY <1>1, LineStays DEF Line
<1>3. sweep' \in [at : {"idle", "next", "waiting"}, ops : Seq(Ops)]
  BY <1>2
<1>4. SyncTypeOK'
  BY <1>3 DEF SyncSafe, SyncTypeOK, server, Requests
<1>5. ASSUME NEW p \in Ops, tap'[p] = "writing"
      PROVE  Line(saw[p])'
  <2>1. PICK r : r = saw[p]
    OBVIOUS
  <2>2. Line(r)
    BY <1>5, <2>1 DEF QueuesFit, SyncSafe
  <2>3. Line(r)'
    BY <1>1, <2>2, LineStays
  <2> QED
    BY <2>1, <2>3 DEF Line, IsInjective
<1>6. QueuesFit'
  <2>1. sweep'.at = at /\ sweep'.ops = ops
    OBVIOUS
  <2> QED
    BY <1>2, <1>5, <2>1 DEF QueuesFit, Line, IsInjective
<1>7. CreditedOnce'
  BY DEF SyncSafe, CreditedOnce, server
<1> QED
  BY <1>4, <1>6, <1>7 DEF SyncSafe

LEMMA SweepKeeps ==
  ASSUME SyncSafe, StartSweep \/ Execute \/ Executed \/ Drop \/ RetryLater \/ EndSweep
  PROVE  SyncSafe'
<1>1. PICK q : q = queue
  OBVIOUS
<1>2. PICK w : w = sweep.ops
  OBVIOUS
<1>3. Line(q) /\ Line(w) /\ (sweep.at = "waiting" => w # <<>>)
  BY <1>1, <1>2 DEF QueuesFit, SyncSafe
<1>4. /\ sweep \in [at : {"idle", "next", "waiting"}, ops : Seq(Ops)] /\ overlap \in BOOLEAN
      /\ request \in Requests /\ late \subseteq Ops /\ lost \in 0..MaxLost /\ refused \subseteq Ops
  BY DEF SyncSafe, SyncTypeOK, Requests
<1>5. CASE StartSweep
  <2>1. sweep' = [at |-> "next", ops |-> q] /\ queue' = q /\ overlap' \in BOOLEAN
    BY <1>1, <1>4, <1>5 DEF StartSweep
  <2> QED
    BY <1>3, <1>4, <1>5, <2>1, SweepMoves DEF StartSweep, network
<1>6. CASE Execute
  <2>1. sweep' = [at |-> "waiting", ops |-> w] /\ queue' = q /\ w # <<>>
    BY <1>1, <1>2, <1>4, <1>6 DEF Execute
  <2>2. Head(w) \in Ops
    BY <1>3, <2>1, LineLosesHead
  <2>3. request' \in Requests
    BY <1>2, <1>6, <2>2, RequestTypes DEF Execute
  <2> QED
    BY <1>3, <1>4, <1>6, <2>1, <2>3, SweepMoves DEF Execute
<1>7. CASE Executed \/ Drop
  <2>1. w # <<>> /\ sweep' = [at |-> "next", ops |-> Tail(w)] /\ queue' = Tail(w)
    BY <1>2, <1>3, <1>7 DEF Executed, Drop, Removed
  <2>2. Line(Tail(w)) /\ Head(w) \in Ops
    BY <1>3, <2>1, LineLosesHead
  <2>3. refused' \subseteq Ops /\ UNCHANGED <<request, late, lost, overlap, tap, saw, server, session, restarts>>
    BY <1>2, <1>4, <1>7, <2>2 DEF Executed, Drop, network
  <2> QED
    BY <1>4, <2>1, <2>2, <2>3, SweepMoves
<1>8. CASE RetryLater
  <2>1. w # <<>> /\ sweep' = [at |-> "idle", ops |-> <<>>] /\ queue' = w
    BY <1>2, <1>3, <1>8 DEF RetryLater, KeepForLater, NotSweeping
  <2>2. Head(w) \in Ops
    BY <1>3, <2>1, LineLosesHead
  <2>3. request' \in Requests /\ late' \subseteq Ops /\ lost' \in 0..MaxLost
    BY <1>2, <1>8, <2>2, RequestTypes DEF RetryLater
  <2> QED
    BY <1>3, <1>4, <1>8, <2>1, <2>3, EmptyLine, SweepMoves DEF RetryLater
<1>9. CASE EndSweep
  <2>1. sweep' = [at |-> "idle", ops |-> <<>>] /\ queue' = q
    BY <1>1, <1>9 DEF EndSweep, NotSweeping
  <2> QED
    BY <1>3, <1>4, <1>9, <2>1, EmptyLine, SweepMoves DEF EndSweep, network
<1> QED
  BY <1>5, <1>6, <1>7, <1>8, <1>9

LEMMA RestartKeeps ==
  ASSUME SyncSafe, Restart
  PROVE  SyncSafe'
<1>1. tap \in [Ops -> {"new", "sending", "reading", "writing", "queued", "registered", "shown", "killed"}]
  BY DEF SyncSafe, SyncTypeOK
<1>2. /\ tap' \in [Ops -> {"new", "sending", "reading", "writing", "queued", "registered", "shown",
                           "killed"}]
      /\ \A o \in Ops : tap'[o] # "writing"
      /\ TapsStay
  BY <1>1 DEF Restart, TapsStay
<1>3. restarts' \in 0..MaxRestarts
  BY DEF SyncSafe, SyncTypeOK, Restart
<1>4. sweep' \in [at : {"idle", "next", "waiting"}, ops : Seq(Ops)] /\ sweep'.ops = <<>> /\ sweep'.at = "idle"
  BY DEF Restart, NotSweeping
<1>5. SyncTypeOK'
  BY <1>2, <1>3, <1>4 DEF SyncSafe, SyncTypeOK, Restart, network, server
<1>6. PICK q : q = queue
  OBVIOUS
<1>7. Line(q)' /\ queue' = q
  BY <1>2, <1>6, LineStays DEF SyncSafe, QueuesFit, Restart
<1>8. QueuesFit'
  <2>1. \A o \in Ops : tap'[o] # "writing"
    BY <1>2
  <2>2. Line(sweep.ops)'
    BY <1>4, EmptyLine DEF Line, IsInjective
  <2>3. Line(queue)'
    BY <1>7 DEF Line, IsInjective
  <2> QED
    BY <1>4, <2>1, <2>2, <2>3 DEF QueuesFit
<1>9. CreditedOnce'
  BY DEF SyncSafe, CreditedOnce, Restart, server
<1> QED
  BY <1>5, <1>8, <1>9 DEF SyncSafe

LEMMA SessionKeeps ==
  ASSUME SyncSafe, Expire \/ SignIn \/ UNCHANGED syncVars
  PROVE  SyncSafe'
<1>1. SyncTypeOK'
  BY DEF SyncSafe, SyncTypeOK, Expire, SignIn, syncVars, phone, network, server
<1>2. UNCHANGED <<tap, saw, queue, sweep, credited>>
  BY DEF Expire, SignIn, syncVars, phone, server
<1>3. QueuesFit'
  BY <1>2, QueuesStay DEF SyncSafe, TapsStay
<1>4. CreditedOnce'
  BY <1>2 DEF SyncSafe, CreditedOnce
<1> QED
  BY <1>1, <1>3, <1>4 DEF SyncSafe

LEMMA SyncStart ==
  ASSUME SyncInit
  PROVE  SyncSafe
<1>1. SyncTypeOK
  <2>1. sweep \in [at : {"idle", "next", "waiting"}, ops : Seq(Ops)]
    BY DEF SyncInit, NotSweeping
  <2>2. request \in [Ops -> [by : {"nobody", "tap", "sweep"}, answer : {"none", "ok", "4xx"}]]
    BY DEF SyncInit, NoRequest
  <2>3. 0 \in 0..MaxLost /\ 0 \in 0..MaxRestarts
    OBVIOUS
  <2>4. DOMAIN saw = Ops /\ credited \in [Ops -> Nat]
    BY DEF SyncInit
  <2>5. tap \in [Ops -> {"new", "sending", "reading", "writing", "queued", "registered", "shown",
                         "killed"}]
    BY DEF SyncInit
  <2>6. late \subseteq Ops /\ invalid \subseteq Ops /\ refused \subseteq Ops
    BY DEF SyncInit
  <2> QED
    BY <2>1, <2>2, <2>3, <2>4, <2>5, <2>6 DEF SyncInit, SyncTypeOK
<1>2. QueuesFit
  BY EmptyLine DEF SyncInit, QueuesFit, NotSweeping
<1>3. CreditedOnce
  BY DEF SyncInit, CreditedOnce
<1> QED
  BY <1>1, <1>2, <1>3 DEF SyncSafe

\* No collection of the queue is there twice and none is credited twice, however often its
\* request is sent, answered late or lost, and whenever the application is killed
\* (queue.ts line 11, "sin doble abono"; cash-payment.repository.ts).
THEOREM QueueAlwaysSafe == SyncSpec => []SyncSafe
<1>1. SyncSafe /\ [SyncNext]_syncVars => SyncSafe'
  BY ArriveKeeps, ArriveLateKeeps, MutationKeeps, ReadQueueKeeps, WriteQueueKeeps, SweepKeeps,
     RestartKeeps, SessionKeeps DEF SyncNext
<1> QED
  BY <1>1, SyncStart, PTL DEF SyncSpec
-----------------------------------------------------------------------------
(* The messages of an applicant: the checklist.                             *)

HIDE OfflineAssumption
USE IntakeAssumption

LEMMA DocumentsAreNumbers == Documents \subseteq Nat \ {0} /\ 1 \in Documents
                             /\ \A d \in Documents : Expected[d] \in Nat \ {0}
  BY DEF Documents

\* The document a file is for is the first one that misses a file (nextPendingDocument).
LEMMA FirstPending ==
  ASSUME NEW docs, NotValidated(docs) # {}
  PROVE  /\ NextPending(docs) \in Documents
         /\ docs[NextPending(docs)].status # "VALIDATED"
         /\ \A e \in Documents : e < NextPending(docs) => docs[e].status = "VALIDATED"
<1> DEFINE T == NotValidated(docs)
           R == OpToRel(<, Nat)
<1>1. T \subseteq Nat /\ T # {}
  BY DocumentsAreNumbers DEF NotValidated
<1>2. IsWellFoundedOn(R, Nat)
  BY NatLessThanWellFounded
<1>3. PICK d \in T : \A e \in T : ~ (<<e, d>> \in R)
  <2> HIDE DEF T, R
  <2> QED
    BY <1>1, <1>2, WFMin
<1>4. \A e \in T : d <= e
  <2>1. R = {ss \in Nat \X Nat : ss[1] < ss[2]}
    BY DEF OpToRel
  <2>2. ASSUME NEW e \in T, e < d
        PROVE  <<e, d>> \in R
    <3>1. e \in Nat /\ d \in Nat
      BY <1>1, <1>3
    <3> HIDE DEF R, T
    <3> QED
      BY <2>1, <2>2, <3>1
  <2> HIDE DEF R, T
  <2>3. d \in Nat /\ \A e \in T : e \in Nat /\ ~ (e < d)
    BY <1>1, <1>3, <2>2
  <2> QED
    BY <2>3
<1>5. NextPending(docs) \in T /\ \A e \in T : NextPending(docs) <= e
  BY <1>3, <1>4 DEF NextPending
<1>6. NextPending(docs) \in Documents /\ docs[NextPending(docs)].status # "VALIDATED"
  BY <1>5 DEF NotValidated
<1>7. ASSUME NEW e \in Documents, e < NextPending(docs)
      PROVE  docs[e].status = "VALIDATED"
  <2>1. e \notin T
    BY <1>1, <1>5, <1>6, <1>7, DocumentsAreNumbers
  <2> QED
    BY <2>1 DEF NotValidated
<1> QED
  BY <1>6, <1>7

Fits(d, doc) == /\ doc \in DocumentType /\ doc.received <= Expected[d]
                /\ doc.status # "VALIDATED" => doc.received < Expected[d]

\* A document that misses a file takes one, or a failed attempt, and nothing else
\* (applyResult).
LEMMA ApplyResultFits ==
  ASSUME NEW d \in Documents, NEW doc, Fits(d, doc), doc.status # "VALIDATED", NEW ok \in BOOLEAN
  PROVE  /\ Fits(d, ApplyResult(d, doc, ok))
         /\ ApplyResult(d, doc, ok).received = IF ok THEN doc.received + 1 ELSE doc.received
<1>1. /\ doc.received \in Nat /\ doc.attempts \in Nat /\ Expected[d] \in Nat
      /\ doc.received < Expected[d]
  BY DocumentsAreNumbers DEF Fits, DocumentType
<1>2. CASE ok
  <2>1. PICK st \in {"VALIDATED", "RECEIVED"} :
          st = IF doc.received + 1 >= Expected[d] THEN "VALIDATED" ELSE "RECEIVED"
    OBVIOUS
  <2>2. ApplyResult(d, doc, ok) = [status |-> st, received |-> doc.received + 1, attempts |-> 0]
    BY <1>2, <2>1 DEF ApplyResult
  <2>3. doc.received + 1 \in Nat /\ doc.received + 1 <= Expected[d]
        /\ (st # "VALIDATED" => doc.received + 1 < Expected[d])
    BY <1>1, <2>1
  <2>4. PICK new : new = ApplyResult(d, doc, ok)
    OBVIOUS
  <2>5. new.status = st /\ new.received = doc.received + 1 /\ new \in DocumentType
    BY <2>2, <2>3, <2>4 DEF DocumentType
  <2> QED
    BY <1>2, <2>3, <2>4, <2>5 DEF Fits
<1>3. CASE ~ ok
  <2>1. ApplyResult(d, doc, ok)
          = [status |-> "REJECTED", received |-> doc.received, attempts |-> doc.attempts + 1]
    BY <1>3 DEF ApplyResult, Fits, DocumentType
  <2>2. doc.attempts + 1 \in Nat
    BY <1>1
  <2> QED
    BY <1>1, <1>3, <2>1, <2>2 DEF Fits, DocumentType
<1> QED
  BY <1>2, <1>3

LEMMA NewApplicationFits ==
  /\ NewApplication \in ApplicationType
  /\ NewApplication.status = "AWAITING_DOCUMENTS" /\ NotValidated(NewApplication.docs) # {}
  /\ \A d \in Documents : NewApplication.docs[d] = PendingDocument /\ Fits(d, PendingDocument)
<1>1. PendingDocument \in DocumentType
  BY DEF PendingDocument, DocumentType
<1>2. NewApplication \in ApplicationType
  BY <1>1 DEF NewApplication, ApplicationType, ActiveStatuses
<1>3. \A d \in Documents : NewApplication.docs[d] = PendingDocument /\ Fits(d, PendingDocument)
  BY <1>1, DocumentsAreNumbers DEF NewApplication, Fits, PendingDocument
<1>4. 1 \in NotValidated(NewApplication.docs)
  BY <1>3, DocumentsAreNumbers DEF NotValidated, PendingDocument
<1> QED
  BY <1>2, <1>3, <1>4 DEF NewApplication

LEMMA JobFields ==
  ASSUME TypeOK, NEW w \in Workers
  PROVE  /\ job[w] \in JobType
         /\ job[w].at = "idle" => job[w] = Idle
         /\ job[w].at # "idle" => job[w].m \in Messages
         /\ job[w].at \in Kinds \cup {"received", "document", "create"} =>
              job[w] \in [at : Kinds \cup {"received", "document", "create"}, m : Messages]
         /\ job[w].at \in {"reset", "reopen"} =>
              job[w] \in [at : {"reset", "reopen"}, m : Messages, app : 1..Len(apps)]
         /\ job[w].at = "review" =>
              job[w] \in [at : {"review"}, m : Messages, app : 1..Len(apps),
                          docs : [Documents -> DocumentType]]
         /\ job[w].at = "write" =>
              job[w] \in [at : {"write"}, m : Messages, app : 1..Len(apps),
                          docs : [Documents -> DocumentType], ok : BOOLEAN]
<1>1. job[w] \in JobType
  BY DEF TypeOK
<1> QED
  BY <1>1 DEF JobType, Idle, Kinds

\* The applications that are open, by their number.
LEMMA ActiveFacts ==
  ASSUME TypeOK
  PROVE  /\ \A i \in 1..Len(apps) : apps[i] \in ApplicationType
         /\ Len(apps) \in Nat /\ 1..Len(apps) \subseteq 1..MaxApps
         /\ Active \subseteq 1..Len(apps) /\ IsFiniteSet(Active)
         /\ Active # {} => TheActive \in Active
<1>1. Len(apps) \in Nat /\ Len(apps) <= MaxApps /\ \A i \in 1..Len(apps) : apps[i] \in ApplicationType
  BY DEF TypeOK
<1>2. IsFiniteSet(1..Len(apps))
  BY <1>1, FS_Interval
<1>3. Active \subseteq 1..Len(apps)
  BY DEF Active
<1>4. IsFiniteSet(Active)
  BY <1>2, <1>3, FS_Subset
<1>5. Active # {} => TheActive \in Active
  BY DEF TheActive
<1> QED
  BY <1>1, <1>3, <1>4, <1>5

LEMMA AtMostOne ==
  ASSUME NEW S, IsFiniteSet(S)
  PROVE  Cardinality(S) <= 1 <=> \A i, j \in S : i = j
<1>2. CASE S = {}
  BY <1>2, FS_EmptySet
<1>3. CASE S # {}
  <2>1. PICK i : i \in S
    BY <1>3
  <2>2. IsFiniteSet({i}) /\ Cardinality({i}) = 1
    BY FS_Singleton
  <2>3. ASSUME Cardinality(S) <= 1
        PROVE  S = {i}
    <3>1. {i} \subseteq S
      BY <2>1
    <3>2. Cardinality(S) <= 1 /\ Cardinality(S) \in Nat
      BY <2>3, FS_CardinalityType
    <3>3. Cardinality({i}) = Cardinality(S)
      BY <2>2, <3>1, <3>2, FS_Subset
    <3> QED
      BY <3>1, <3>3, FS_Subset
  <2>4. ASSUME \A j, k \in S : j = k
        PROVE  Cardinality(S) <= 1
    <3>1. S = {i}
      BY <2>1, <2>4
    <3> QED
      BY <2>2, <3>1
  <2> QED
    BY <2>3, <2>4
<1> QED
  BY <1>2, <1>3
-----------------------------------------------------------------------------
(* Types.                                                                   *)

Results == {"none", "done", "payment", "failed", "lost"}

\* An answer frees the worker and its locks, and touches nobody else's.
LEMMA AnswerFrees ==
  ASSUME TypeOK, NEW w \in Workers, job[w].at # "idle", NEW result \in Results, Answer(w, result)
  PROVE  /\ accepted' \subseteq Messages
         /\ outcome' \in [Messages -> Results] /\ outcome'[job[w].m] = result
         /\ \A m \in Messages : m # job[w].m => outcome'[m] = outcome[m]
         /\ job' = [job EXCEPT ![w] = Idle]
         /\ UNCHANGED <<kind, credit, duplicates>>
         /\ appLock' \in [1..MaxApps -> Workers \cup {Nobody}]
         /\ docLock' \in [1..MaxApps -> Workers \cup {Nobody}]
         /\ \A i \in 1..MaxApps : appLock'[i] = IF appLock[i] = w THEN Nobody ELSE appLock[i]
<1>1. job[w].m \in Messages
  BY JobFields
<1>2. accepted \subseteq Messages /\ outcome \in [Messages -> Results]
  BY DEF TypeOK, Results
<1>3. /\ appLock \in [1..MaxApps -> Workers \cup {Nobody}]
      /\ docLock \in [1..MaxApps -> Workers \cup {Nobody}]
  BY DEF TypeOK
<1>4. /\ accepted' = accepted \cup {job[w].m}
      /\ outcome' = [outcome EXCEPT ![job[w].m] = result]
      /\ job' = [job EXCEPT ![w] = Idle]
      /\ UNCHANGED <<kind, credit, duplicates>>
  BY DEF Answer
<1>5. /\ appLock' = [i \in DOMAIN appLock |-> IF appLock[i] = w THEN Nobody ELSE appLock[i]]
      /\ docLock' = [i \in DOMAIN docLock |-> IF docLock[i] = w THEN Nobody ELSE docLock[i]]
  BY DEF Answer, FreeLocks
<1>6. /\ outcome' \in [Messages -> Results] /\ outcome'[job[w].m] = result
      /\ \A m \in Messages : m # job[w].m => outcome'[m] = outcome[m]
  BY <1>1, <1>2, <1>4
<1>7. /\ appLock' \in [1..MaxApps -> Workers \cup {Nobody}]
      /\ docLock' \in [1..MaxApps -> Workers \cup {Nobody}]
      /\ \A i \in 1..MaxApps : appLock'[i] = IF appLock[i] = w THEN Nobody ELSE appLock[i]
  BY <1>3, <1>5
<1> QED
  BY <1>1, <1>2, <1>4, <1>6, <1>7

\* The jobs are of the type also when there are more applications.
LEMMA JobsGrow ==
  ASSUME TypeOK, Len(apps') \in Nat, Len(apps) <= Len(apps')
  PROVE  /\ JobType \subseteq JobType' /\ Idle \in JobType'
         /\ FileType \subseteq FileType'
         /\ decision \in {NoDecision} \cup [app : 1..Len(apps'), to : {"APPROVED", "REJECTED"}]
<1>1. Len(apps) \in Nat /\ 1..Len(apps) \subseteq 1..Len(apps')
  BY DEF TypeOK
<1>2. PICK n, k : n = Len(apps) /\ k = Len(apps')
  OBVIOUS
<1>3. 1..n \subseteq 1..k
  BY <1>1, <1>2
<1>4. /\ JobType \subseteq JobType' /\ Idle \in JobType'
  BY <1>2, <1>3 DEF JobType, Idle, Kinds
<1>5. FileType \subseteq FileType'
  BY <1>2, <1>3 DEF FileType
<1>6. decision \in {NoDecision} \cup [app : 1..n, to : {"APPROVED", "REJECTED"}]
  BY <1>2 DEF TypeOK
<1> QED
  BY <1>2, <1>3, <1>4, <1>5, <1>6

\* The rest of the types, of a step that leaves the applications alone.
LEMMA TypesStay ==
  ASSUME TypeOK, UNCHANGED <<stored, kind, credit>>,
         accepted' \subseteq Messages, claimed' \subseteq Messages,
         duplicates' \in Nat, crashes' \in Nat, duplicates' + crashes' <= MaxFaults,
         outcome' \in [Messages -> Results],
         \A w \in Workers : job'[w] \in JobType, job' = [w \in Workers |-> job'[w]],
         appLock' \in [1..MaxApps -> Workers \cup {Nobody}],
         docLock' \in [1..MaxApps -> Workers \cup {Nobody}],
         decision' \in {NoDecision} \cup [app : 1..Len(apps), to : {"APPROVED", "REJECTED"}]
  PROVE  TypeOK'
<1>1. apps' = apps /\ files' = files /\ kind' = kind /\ credit' = credit
  BY DEF stored
<1>2. JobType' = JobType
  BY <1>1 DEF JobType
<1>3. FileType' = FileType
  BY <1>1 DEF FileType
<1>4. job' \in [Workers -> JobType]
  OBVIOUS
<1>5. /\ kind' \in [Messages -> Kinds] /\ credit' \in BOOLEAN
      /\ apps' \in Seq(ApplicationType) /\ Len(apps') <= MaxApps
      /\ files' \subseteq FileType' /\ IsFiniteSet(files')
  BY <1>1, <1>3 DEF TypeOK
<1> QED
  BY <1>1, <1>2, <1>4, <1>5 DEF TypeOK, Results

\* An answer keeps the types, when the applications are left alone.
LEMMA AnswerTypes ==
  ASSUME TypeOK, NEW w \in Workers, job[w].at # "idle", NEW result \in Results, Answer(w, result),
         UNCHANGED <<claimed, stored, decision, crashes>>
  PROVE  TypeOK'
<1>1. /\ accepted' \subseteq Messages
      /\ outcome' \in [Messages -> Results]
      /\ job' = [job EXCEPT ![w] = Idle]
      /\ UNCHANGED <<kind, credit, duplicates>>
      /\ appLock' \in [1..MaxApps -> Workers \cup {Nobody}]
      /\ docLock' \in [1..MaxApps -> Workers \cup {Nobody}]
  BY AnswerFrees
<1>2. job \in [Workers -> JobType] /\ Idle \in JobType
  BY DEF TypeOK, JobType
<1>3. \A v \in Workers : job'[v] \in JobType
  BY <1>1, <1>2
<1>4. job' = [v \in Workers |-> job'[v]]
  BY <1>1, <1>2
<1>5. /\ claimed' \subseteq Messages /\ duplicates' \in Nat /\ crashes' \in Nat
      /\ duplicates' + crashes' <= MaxFaults
      /\ decision' \in {NoDecision} \cup [app : 1..Len(apps), to : {"APPROVED", "REJECTED"}]
  BY <1>1 DEF TypeOK
<1>6. UNCHANGED <<stored, kind, credit>>
  BY <1>1
<1> QED
  BY <1>1, <1>3, <1>4, <1>5, <1>6, TypesStay

\* A worker that goes on with its message keeps the types.
LEMMA MoveTypes ==
  ASSUME TypeOK, NEW w \in Workers, NEW r \in JobType, job' = [job EXCEPT ![w] = r],
         claimed' \subseteq Messages, UNCHANGED <<channel, outcome, stored, decision, crashes>>,
         appLock' \in [1..MaxApps -> Workers \cup {Nobody}],
         docLock' \in [1..MaxApps -> Workers \cup {Nobody}]
  PROVE  TypeOK'
<1>1. job \in [Workers -> JobType]
  BY DEF TypeOK
<1>2. \A v \in Workers : job'[v] \in JobType
  BY <1>1
<1>3. job' = [v \in Workers |-> job'[v]]
  BY <1>1
<1>4. /\ accepted' \subseteq Messages /\ duplicates' \in Nat /\ crashes' \in Nat
      /\ duplicates' + crashes' <= MaxFaults /\ outcome' \in [Messages -> Results]
      /\ decision' \in {NoDecision} \cup [app : 1..Len(apps), to : {"APPROVED", "REJECTED"}]
      /\ UNCHANGED <<kind, credit>>
  BY DEF TypeOK, channel, Results
<1>5. UNCHANGED <<stored, kind, credit>>
  BY <1>4
<1> QED
  BY <1>2, <1>3, <1>4, <1>5, TypesStay

\* An answer that leaves more in the applications keeps the types.
LEMMA WriteTypes ==
  ASSUME TypeOK, NEW w \in Workers, job[w].at # "idle", Answer(w, "done"),
         UNCHANGED <<claimed, decision, crashes>>,
         apps' \in Seq(ApplicationType), Len(apps) <= Len(apps'), Len(apps') <= MaxApps,
         files' \subseteq FileType', IsFiniteSet(files')
  PROVE  TypeOK'
<1>1. /\ accepted' \subseteq Messages
      /\ outcome' \in [Messages -> Results]
      /\ job' = [job EXCEPT ![w] = Idle]
      /\ UNCHANGED <<kind, credit, duplicates>>
      /\ appLock' \in [1..MaxApps -> Workers \cup {Nobody}]
      /\ docLock' \in [1..MaxApps -> Workers \cup {Nobody}]
  BY AnswerFrees DEF Results
<1>2. Len(apps') \in Nat
  OBVIOUS
<1>3. /\ JobType \subseteq JobType' /\ Idle \in JobType'
      /\ decision \in {NoDecision} \cup [app : 1..Len(apps'), to : {"APPROVED", "REJECTED"}]
  BY <1>2, JobsGrow
<1>4. job \in [Workers -> JobType]
  BY DEF TypeOK
<1>5. job' \in [Workers -> JobType']
  BY <1>1, <1>3, <1>4
<1>6. /\ kind' \in [Messages -> Kinds] /\ credit' \in BOOLEAN /\ claimed' \subseteq Messages
      /\ duplicates' \in Nat /\ crashes' \in Nat /\ duplicates' + crashes' <= MaxFaults
  BY <1>1 DEF TypeOK
<1>7. decision' \in {NoDecision} \cup [app : 1..Len(apps'), to : {"APPROVED", "REJECTED"}]
  BY <1>3
<1> QED
  BY <1>1, <1>5, <1>6, <1>7 DEF TypeOK, Results

\* What a worker that goes on is about to do.
LEMMA NextJob ==
  ASSUME TypeOK, NEW w \in Workers, job[w].at # "idle"
  PROVE  /\ \A at \in Kinds \cup {"received", "document", "create"} :
              [at |-> at, m |-> job[w].m] \in JobType
         /\ \A i \in 1..Len(apps) : [at |-> "reset", m |-> job[w].m, app |-> i] \in JobType
         /\ \A i \in 1..Len(apps) : [at |-> "reopen", m |-> job[w].m, app |-> i] \in JobType
         /\ \A i \in 1..Len(apps) : Reading(w, i) \in JobType
<1>1. PICK m \in Messages : m = job[w].m
  BY JobFields
<1>2. \A i \in 1..Len(apps) : apps[i].docs \in [Documents -> DocumentType]
  BY ActiveFacts DEF ApplicationType
<1>3. \A at \in Kinds \cup {"received", "document", "create"} : [at |-> at, m |-> m] \in JobType
  BY DEF JobType
<1>4. ASSUME NEW i \in 1..Len(apps)
      PROVE  /\ [at |-> "reset", m |-> m, app |-> i] \in JobType
             /\ [at |-> "reopen", m |-> m, app |-> i] \in JobType
  BY DEF JobType
<1>5. ASSUME NEW i \in 1..Len(apps)
      PROVE  Reading(w, i) \in JobType
  <2>1. PICK docs \in [Documents -> DocumentType] : docs = apps[i].docs
    BY <1>2
  <2>2. [at |-> "review", m |-> m, app |-> i, docs |-> docs] \in JobType
    BY DEF JobType
  <2> QED
    BY <1>1, <2>1, <2>2 DEF Reading
<1> QED
  BY <1>1, <1>3, <1>4, <1>5

LEMMA DeliverTypes ==
  ASSUME TypeOK, NEW w \in Workers, NEW m \in Messages, Deliver(w, m)
  PROVE  TypeOK'
<1>1. PICK r : r = [at |-> "received", m |-> m]
  OBVIOUS
<1>2. r \in JobType
  BY <1>1 DEF JobType
<1>3. job \in [Workers -> JobType] /\ job' = [job EXCEPT ![w] = r]
  BY <1>1 DEF TypeOK, Deliver
<1>4. \A v \in Workers : job'[v] \in JobType
  BY <1>2, <1>3
<1>5. job' = [v \in Workers |-> job'[v]]
  BY <1>3
<1>6. duplicates' \in Nat /\ crashes' \in Nat /\ duplicates' + crashes' <= MaxFaults
  BY DEF TypeOK, Deliver
<1>7. /\ accepted' \subseteq Messages /\ claimed' \subseteq Messages
      /\ outcome' \in [Messages -> Results]
      /\ appLock' \in [1..MaxApps -> Workers \cup {Nobody}]
      /\ docLock' \in [1..MaxApps -> Workers \cup {Nobody}]
      /\ decision' \in {NoDecision} \cup [app : 1..Len(apps), to : {"APPROVED", "REJECTED"}]
      /\ UNCHANGED <<stored, kind, credit>>
  BY DEF TypeOK, Deliver, Results, locks
<1> QED
  BY <1>4, <1>5, <1>6, <1>7, TypesStay

\* The steps of a worker that do not touch an application.
MovesOn(w) == Claim(w) \/ RouteToDocuments(w) \/ LockApplication(w) \/ Review(w)
              \/ ResetDocuments(w) \/ (FindActive(w) /\ ~ Answer(w, "done"))

AnswersOnly(w) == /\ \/ IgnoreFile(w) \/ RouteToPayments(w) \/ NothingPending(w)
                     \/ AnswerCommitted(w) \/ Fail(w) \/ (FindActive(w) /\ Answer(w, "done"))

LEMMA AnswersOnlyFacts ==
  ASSUME TypeOK, NEW w \in Workers, AnswersOnly(w)
  PROVE  /\ Handling(w) /\ \E result \in Results \ {"none"} : Answer(w, result)
         /\ UNCHANGED <<claimed, stored, decision, crashes>>
  BY DEF AnswersOnly, IgnoreFile, RouteToPayments, NothingPending, AnswerCommitted, Fail, FindActive,
     Handling, Results

\* A worker that goes on keeps its message, and knows what to do with it.
LEMMA MovesOnFacts ==
  ASSUME TypeOK, NEW w \in Workers, MovesOn(w)
  PROVE  /\ job[w].at # "idle"
         /\ \E r \in JobType : /\ job' = [job EXCEPT ![w] = r] /\ r.m = job[w].m
                               /\ r.at \notin {"idle", "received"}
                               /\ r.at = "review" => LockApplication(w)
                               /\ r.at = "write" => Review(w)
         /\ UNCHANGED <<channel, outcome, stored, decision, crashes>>
         /\ (claimed' = claimed /\ Handling(w)) \/ Claim(w)
         /\ appLock' = appLock \/ LockApplication(w)
         /\ appLock' \in [1..MaxApps -> Workers \cup {Nobody}]
         /\ docLock' \in [1..MaxApps -> Workers \cup {Nobody}]
<1>0. /\ appLock \in [1..MaxApps -> Workers \cup {Nobody}]
      /\ docLock \in [1..MaxApps -> Workers \cup {Nobody}]
  BY DEF TypeOK
<1>1. ASSUME NEW r \in JobType, job' = [job EXCEPT ![w] = r], r.m = job[w].m,
             r.at \notin {"idle", "received"}, job[w].at # "idle",
             r.at = "review" => LockApplication(w), r.at = "write" => Review(w),
             UNCHANGED <<channel, outcome, stored, decision, crashes>>,
             (claimed' = claimed /\ Handling(w)) \/ Claim(w), appLock' = appLock \/ LockApplication(w),
             appLock' \in [1..MaxApps -> Workers \cup {Nobody}],
             docLock' \in [1..MaxApps -> Workers \cup {Nobody}]
      PROVE  /\ job[w].at # "idle"
             /\ \E s \in JobType : /\ job' = [job EXCEPT ![w] = s] /\ s.m = job[w].m
                                   /\ s.at \notin {"idle", "received"}
                                   /\ s.at = "review" => LockApplication(w)
                                   /\ s.at = "write" => Review(w)
             /\ UNCHANGED <<channel, outcome, stored, decision, crashes>>
             /\ (claimed' = claimed /\ Handling(w)) \/ Claim(w)
             /\ appLock' = appLock \/ LockApplication(w)
             /\ appLock' \in [1..MaxApps -> Workers \cup {Nobody}]
             /\ docLock' \in [1..MaxApps -> Workers \cup {Nobody}]
  BY <1>1
<1>2. CASE Claim(w)
  <2>1. job[w].at # "idle" /\ job[w].m \in Messages
    BY <1>2, JobFields DEF Claim
  <2>2. PICK r : r = [at |-> kind[job[w].m], m |-> job[w].m]
    OBVIOUS
  <2>3. kind[job[w].m] \in Kinds
    BY <2>1 DEF TypeOK
  <2>4. r \in JobType /\ r.m = job[w].m /\ r.at \in Kinds
    BY <2>1, <2>2, <2>3, NextJob
  <2>5. job' = [job EXCEPT ![w] = r] /\ UNCHANGED <<channel, outcome, stored, locks, decision, crashes>>
    BY <1>2, <2>2 DEF Claim
  <2> QED
    BY <1>0, <1>1, <1>2, <2>1, <2>4, <2>5 DEF locks, Kinds
<1>3. CASE RouteToDocuments(w)
  <2>1. PICK r : r = [job[w] EXCEPT !.at = "document"]
    OBVIOUS
  <2>2. job[w].at = "file" /\ job' = [job EXCEPT ![w] = r]
        /\ UNCHANGED <<channel, claimed, outcome, stored, locks, decision, crashes>>
    BY <1>3, <2>1 DEF RouteToDocuments
  <2>3. job[w] \in [at : Kinds \cup {"received", "document", "create"}, m : Messages]
    BY <2>2, JobFields DEF Kinds
  <2>4. r = [at |-> "document", m |-> job[w].m]
    BY <2>1, <2>3
  <2>5. r \in JobType /\ r.m = job[w].m /\ r.at = "document"
    BY <2>2, <2>4, NextJob
  <2> QED
    BY <1>0, <1>1, <2>2, <2>5 DEF locks, Handling
<1>4. CASE LockApplication(w)
  <2>1. job[w].at = "document" /\ job' = [job EXCEPT ![w] = Reading(w, TheActive)]
        /\ Incomplete # {} /\ appLock' = [appLock EXCEPT ![TheActive] = w]
        /\ UNCHANGED <<channel, claimed, outcome, stored, docLock, decision, crashes>>
    BY <1>4 DEF LockApplication
  <2>2. TheActive \in 1..Len(apps)
    BY <2>1, ActiveFacts DEF Incomplete
  <2>3. PICK r : r = Reading(w, TheActive)
    OBVIOUS
  <2>4. r \in JobType
    BY <2>1, <2>2, <2>3, NextJob
  <2>5. r.m = job[w].m /\ r.at = "review"
    BY <2>3 DEF Reading
  <2>6. appLock' \in [1..MaxApps -> Workers \cup {Nobody}]
    BY <1>0, <2>1
  <2> QED
    BY <1>0, <1>1, <1>4, <2>1, <2>3, <2>4, <2>5, <2>6 DEF Handling
<1>5. CASE Review(w)
  <2>1. job[w].at = "review"
    BY <1>5 DEF Review
  <2>2. job[w] \in [at : {"review"}, m : Messages, app : 1..Len(apps),
                    docs : [Documents -> DocumentType]]
    BY <2>1, JobFields
  <2>3. UNCHANGED <<channel, claimed, outcome, stored, locks, decision, crashes>>
    BY <1>5 DEF Review
  <2>4. PICK ok \in BOOLEAN :
          job' = [job EXCEPT ![w] = [at |-> "write", m |-> job[w].m, app |-> job[w].app,
                                     docs |-> job[w].docs, ok |-> ok]]
    BY <1>5 DEF Review, FileAccepted
  <2>5. PICK r : r = [at |-> "write", m |-> job[w].m, app |-> job[w].app,
                      docs |-> job[w].docs, ok |-> ok]
    OBVIOUS
  <2>6. r \in JobType /\ r.m = job[w].m /\ r.at = "write"
    BY <2>2, <2>5 DEF JobType
  <2> QED
    BY <1>0, <1>1, <1>5, <2>1, <2>3, <2>4, <2>5, <2>6 DEF locks, Handling
<1>6. CASE ResetDocuments(w)
  <2>1. PICK r : r = [job[w] EXCEPT !.at = "reopen"]
    OBVIOUS
  <2>2. job[w].at = "reset" /\ job' = [job EXCEPT ![w] = r]
        /\ docLock' = [docLock EXCEPT ![job[w].app] = w]
        /\ UNCHANGED <<channel, claimed, outcome, stored, appLock, decision, crashes>>
    BY <1>6, <2>1 DEF ResetDocuments
  <2>3. job[w] \in [at : {"reset", "reopen"}, m : Messages, app : 1..Len(apps)]
    BY <2>2, JobFields
  <2>4. r = [at |-> "reopen", m |-> job[w].m, app |-> job[w].app] /\ job[w].app \in 1..Len(apps)
    BY <2>1, <2>3
  <2>5. r \in JobType /\ r.m = job[w].m /\ r.at = "reopen"
    BY <2>2, <2>4, NextJob
  <2>6. docLock' \in [1..MaxApps -> Workers \cup {Nobody}]
    BY <1>0, <2>2
  <2> QED
    BY <1>0, <1>1, <2>2, <2>5, <2>6 DEF Handling
<1>7. CASE FindActive(w) /\ ~ Answer(w, "done")
  <2>1. job[w].at \in {"start", "restart"} /\ UNCHANGED <<claimed, stored, decision, crashes>>
    BY <1>7 DEF FindActive
  <2>2. job[w] \in [at : Kinds \cup {"received", "document", "create"}, m : Messages]
    BY <2>1, JobFields DEF Kinds
  <2>3. CASE /\ job' = [job EXCEPT ![w].at = "create"]
             /\ UNCHANGED <<accepted, outcome, duplicates, kind, credit, locks>>
    <3>1. PICK r : r = [job[w] EXCEPT !.at = "create"]
      OBVIOUS
    <3>2. r = [at |-> "create", m |-> job[w].m]
      BY <2>2, <3>1
    <3>3. r \in JobType /\ r.m = job[w].m /\ r.at = "create"
      BY <2>1, <3>2, NextJob
    <3> QED
      BY <1>0, <1>1, <2>1, <2>3, <3>1, <3>3 DEF locks, channel, Handling
  <2>4. CASE /\ Active # {} /\ job' = [job EXCEPT ![w] = [at |-> "reset", m |-> @.m, app |-> TheActive]]
             /\ UNCHANGED <<accepted, outcome, duplicates, kind, credit, locks>>
    <3>1. TheActive \in 1..Len(apps)
      BY <2>4, ActiveFacts
    <3>2. PICK r : r = [at |-> "reset", m |-> job[w].m, app |-> TheActive]
      OBVIOUS
    <3>3. r \in JobType /\ r.m = job[w].m /\ r.at = "reset"
      BY <2>1, <3>1, <3>2, NextJob
    <3> QED
      BY <1>0, <1>1, <2>1, <2>4, <3>2, <3>3 DEF locks, channel, Handling
  <2> QED
    BY <1>7, <2>3, <2>4 DEF FindActive
<1> QED
  BY <1>2, <1>3, <1>4, <1>5, <1>6, <1>7 DEF MovesOn
-----------------------------------------------------------------------------
(* The applications and their files.                                        *)

AppsSafe ==
  /\ NoFileTooMany
  /\ FilesFillTheSlots
  /\ EachFileOnce
  /\ DocumentsInTurn
  /\ ReviewMeansComplete
  /\ OneActiveApplication

\* What these say of one application, and of the files of one document.
AppFits(a) ==
  /\ a \in ApplicationType
  /\ \A d \in Documents : Fits(d, a.docs[d])
  /\ \A d \in Documents : a.docs[d] # PendingDocument =>
       \A e \in 1..(d - 1) : a.docs[e].status = "VALIDATED"
  /\ a.status \in ActiveStatuses => (a.status = "IN_REVIEW" <=> NotValidated(a.docs) = {})

FilesOf(fs, i, d) == {f \in fs : f.app = i /\ f.doc = d}

Filled(fs, i, d, n) == {f.slot : f \in FilesOf(fs, i, d)} = 1..n /\ Cardinality(FilesOf(fs, i, d)) = n

LEMMA AppsApart ==
  ASSUME TypeOK, AppsSafe
  PROVE  /\ \A i \in 1..Len(apps) : AppFits(apps[i])
         /\ \A i \in 1..Len(apps), d \in Documents : Filled(files, i, d, apps[i].docs[d].received)
         /\ EachFileOnce
         /\ \A i, j \in Active : i = j
<1>1. \A i \in 1..Len(apps) : apps[i] \in ApplicationType
  BY ActiveFacts
<1>2. \A i \in 1..Len(apps), d \in Documents : Fits(d, apps[i].docs[d])
  BY <1>1 DEF AppsSafe, NoFileTooMany, Fits, ApplicationType
<1>3. ASSUME NEW i \in 1..Len(apps), apps[i].status \in ActiveStatuses
      PROVE  apps[i].status = "IN_REVIEW" <=> NotValidated(apps[i].docs) = {}
  BY <1>3 DEF AppsSafe, ReviewMeansComplete, Active
<1>4. \A i \in 1..Len(apps) : AppFits(apps[i])
  BY <1>1, <1>2, <1>3 DEF AppsSafe, DocumentsInTurn, AppFits
<1>5. \A i \in 1..Len(apps), d \in Documents : Filled(files, i, d, apps[i].docs[d].received)
  BY DEF AppsSafe, FilesFillTheSlots, Filled, FilesOf
<1>6. \A i, j \in Active : i = j
  <2>1. PICK S : S = Active
    OBVIOUS
  <2>2. IsFiniteSet(S) /\ Cardinality(S) <= 1
    BY <2>1, ActiveFacts DEF AppsSafe, OneActiveApplication
  <2> QED
    BY <2>1, <2>2, AtMostOne
<1> QED
  BY <1>4, <1>5, <1>6 DEF AppsSafe

LEMMA AppsTogether ==
  ASSUME apps' \in Seq(ApplicationType),
         \A i \in 1..Len(apps') : AppFits(apps'[i]),
         \A i \in 1..Len(apps'), d \in Documents : Filled(files', i, d, apps'[i].docs[d].received),
         EachFileOnce',
         \A i, j \in 1..Len(apps') : apps'[i].status \in ActiveStatuses
                                     /\ apps'[j].status \in ActiveStatuses => i = j
  PROVE  AppsSafe'
<1>1. PICK S : S = Active'
  OBVIOUS
<1>2. S \subseteq 1..Len(apps') /\ Len(apps') \in Nat
  BY <1>1 DEF Active
<1>3. IsFiniteSet(S)
  <2>1. PICK n \in Nat : n = Len(apps')
    BY <1>2
  <2>2. IsFiniteSet(1..n) /\ S \subseteq 1..n
    BY <1>2, <2>1, FS_Interval
  <2> QED
    BY <2>2, FS_Subset
<1>4. \A i, j \in S : i = j
  BY <1>1 DEF Active
<1>5. OneActiveApplication'
  BY <1>1, <1>3, <1>4, AtMostOne DEF OneActiveApplication
<1>6. NoFileTooMany'
  BY DEF NoFileTooMany, AppFits, Fits
<1>7. FilesFillTheSlots'
  BY DEF FilesFillTheSlots, Filled, FilesOf
<1>8. DocumentsInTurn'
  BY DEF DocumentsInTurn, AppFits
<1>9. ReviewMeansComplete'
  BY DEF ReviewMeansComplete, Active, AppFits
<1> QED
  BY <1>5, <1>6, <1>7, <1>8, <1>9 DEF AppsSafe

LEMMA AppsStay ==
  ASSUME AppsSafe, UNCHANGED stored
  PROVE  AppsSafe'
<1>1. apps' = apps /\ files' = files
  BY DEF stored
<1> QED
  BY <1>1 DEF AppsSafe, NoFileTooMany, FilesFillTheSlots, EachFileOnce, DocumentsInTurn,
     ReviewMeansComplete, OneActiveApplication, Active

\* A new file takes the next slot of its document, and no other.
LEMMA SlotFilled ==
  ASSUME NEW fs, IsFiniteSet(fs), NEW g, g \notin fs, NEW i, NEW d, NEW n \in Nat,
         Filled(fs, i, d, n), g.app = i, g.doc = d, g.slot = n + 1
  PROVE  Filled(fs \cup {g}, i, d, n + 1)
<1>1. PICK F : F = FilesOf(fs, i, d)
  OBVIOUS
<1>2. F \subseteq fs /\ g \notin F /\ FilesOf(fs \cup {g}, i, d) = F \cup {g}
  BY <1>1 DEF FilesOf
<1>3. IsFiniteSet(F)
  BY <1>2, FS_Subset
<1>4. Cardinality(F \cup {g}) = n + 1
  BY <1>1, <1>2, <1>3, FS_AddElement DEF Filled
<1>5. {f.slot : f \in F \cup {g}} = {f.slot : f \in F} \cup {n + 1}
  OBVIOUS
<1>6. {f.slot : f \in F} = 1..n
  BY <1>1 DEF Filled
<1>7. (1..n) \cup {n + 1} = 1..(n + 1)
  OBVIOUS
<1> QED
  BY <1>2, <1>4, <1>5, <1>6, <1>7 DEF Filled

LEMMA SlotsElsewhere ==
  ASSUME NEW fs, NEW gs, NEW i, NEW d, NEW n, Filled(fs, i, d, n),
         FilesOf(gs, i, d) = FilesOf(fs, i, d)
  PROVE  Filled(gs, i, d, n)
  BY DEF Filled

LEMMA NoSlots ==
  ASSUME NEW gs, NEW i, NEW d, FilesOf(gs, i, d) = {}
  PROVE  Filled(gs, i, d, 0)
<1>1. PICK F : F = FilesOf(gs, i, d)
  OBVIOUS
<1>2. F = {} /\ {f.slot : f \in F} = 1..0
  BY <1>1
<1> QED
  BY <1>1, <1>2, FS_EmptySet DEF Filled

\* Application i is written again, and its files with it: the rest is as it was.
LEMMA OneWritten ==
  ASSUME TypeOK, AppsSafe, NEW i \in 1..Len(apps), NEW a, AppFits(a),
         apps' = [apps EXCEPT ![i] = a],
         \A d \in Documents : Filled(files', i, d, a.docs[d].received),
         \A k \in 1..Len(apps), d \in Documents : k # i => FilesOf(files', k, d) = FilesOf(files, k, d),
         EachFileOnce',
         a.status \in ActiveStatuses => Active \subseteq {i}
  PROVE  /\ AppsSafe'
         /\ apps' \in Seq(ApplicationType) /\ Len(apps') = Len(apps)
         /\ FileType' = FileType
<1>1. apps \in Seq(ApplicationType) /\ a \in ApplicationType
  BY DEF TypeOK, AppFits
<1>2. /\ apps' \in Seq(ApplicationType) /\ Len(apps') = Len(apps) /\ apps'[i] = a
      /\ \A k \in 1..Len(apps) : k # i => apps'[k] = apps[k]
  BY <1>1
<1>3. \A k \in 1..Len(apps') : AppFits(apps'[k])
  BY <1>2, AppsApart
<1>4. ASSUME NEW k \in 1..Len(apps'), NEW d \in Documents
      PROVE  Filled(files', k, d, apps'[k].docs[d].received)
  <2>1. CASE k = i
    BY <1>2, <2>1
  <2>2. CASE k # i
    <3>1. apps'[k] = apps[k] /\ k \in 1..Len(apps)
      BY <1>2, <2>2
    <3>2. Filled(files, k, d, apps[k].docs[d].received)
      BY <3>1, AppsApart
    <3>3. FilesOf(files', k, d) = FilesOf(files, k, d)
      BY <2>2, <3>1
    <3> QED
      BY <3>1, <3>2, <3>3 DEF Filled
  <2> QED
    BY <2>1, <2>2
<1>5. ASSUME NEW j \in 1..Len(apps'), NEW k \in 1..Len(apps'),
             apps'[j].status \in ActiveStatuses, apps'[k].status \in ActiveStatuses
      PROVE  j = k
  <2>1. \A l \in 1..Len(apps) : l # i /\ apps'[l].status \in ActiveStatuses => l \in Active
    BY <1>2 DEF Active
  <2>2. CASE a.status \in ActiveStatuses
    BY <1>2, <1>5, <2>1, <2>2
  <2>3. CASE a.status \notin ActiveStatuses
    <3>1. j \in Active /\ k \in Active
      BY <1>2, <1>5, <2>1, <2>3
    <3> QED
      BY <3>1, AppsApart
  <2> QED
    BY <2>2, <2>3
<1>6. AppsSafe'
  BY <1>2, <1>3, <1>4, <1>5, AppsTogether
<1>7. FileType' = FileType
  BY <1>2 DEF FileType
<1> QED
  BY <1>2, <1>6, <1>7

LEMMA NewApplicationIsFit == AppFits(NewApplication)
  BY NewApplicationFits DEF AppFits

\* Create.
LEMMA CreateKeeps ==
  ASSUME TypeOK, AppsSafe, NEW w \in Workers, Create(w)
  PROVE  TypeOK' /\ AppsSafe'
<1>1. /\ job[w].at # "idle" /\ Answer(w, "done") /\ UNCHANGED <<claimed, decision, crashes>>
      /\ apps' = Append(apps, NewApplication) /\ files' = files /\ Len(apps) < MaxApps
      /\ Active \subseteq {Len(apps) + 1}
  BY DEF Create, MayBeActive
<1>2. apps \in Seq(ApplicationType) /\ files \subseteq FileType /\ IsFiniteSet(files)
  BY DEF TypeOK
<1>3. PICK n \in Nat : n = Len(apps)
  BY <1>2
<1>4. /\ apps' \in Seq(ApplicationType) /\ Len(apps') = n + 1 /\ apps'[n + 1] = NewApplication
      /\ \A i \in 1..n : apps'[i] = apps[i]
  BY <1>1, <1>2, <1>3, NewApplicationFits, AppendProperties
<1>5. FileType \subseteq FileType'
  <2>1. Len(apps') \in Nat /\ Len(apps) <= Len(apps')
    BY <1>3, <1>4
  <2> QED
    BY <2>1, JobsGrow
<1>6. TypeOK'
  BY <1>1, <1>2, <1>3, <1>4, <1>5, WriteTypes
<1>7. \A i \in 1..(n + 1) : AppFits(apps'[i])
  BY <1>3, <1>4, AppsApart, NewApplicationIsFit
<1>8. ASSUME NEW i \in 1..(n + 1), NEW d \in Documents
      PROVE  Filled(files', i, d, apps'[i].docs[d].received)
  <2>1. CASE i \in 1..n
    BY <1>1, <1>3, <1>4, <2>1, AppsApart
  <2>2. CASE i = n + 1
    <3>1. FilesOf(files, i, d) = {}
      BY <1>2, <1>3, <2>2 DEF FilesOf, FileType
    <3>2. apps'[i].docs[d].received = 0
      BY <1>4, <2>2, NewApplicationFits DEF PendingDocument
    <3> QED
      BY <1>1, <3>1, <3>2, NoSlots
  <2> QED
    BY <2>1, <2>2
<1>9. EachFileOnce'
  BY <1>1, AppsApart DEF EachFileOnce
<1>10. \A i \in 1..n : apps'[i].status \notin ActiveStatuses
  BY <1>1, <1>3, <1>4 DEF Active
<1>11. \A i, j \in 1..(n + 1) : apps'[i].status \in ActiveStatuses
                                /\ apps'[j].status \in ActiveStatuses => i = j
  BY <1>10
<1>12. AppsSafe'
  BY <1>4, <1>7, <1>8, <1>9, <1>11, AppsTogether
<1> QED
  BY <1>6, <1>12

\* The last statement of a reset.
LEMMA ResetKeeps ==
  ASSUME TypeOK, AppsSafe, NEW w \in Workers, ResetApplication(w)
  PROVE  TypeOK' /\ AppsSafe'
<1>1. job[w].at = "reopen" /\ job[w].app \in 1..Len(apps)
  BY JobFields DEF ResetApplication
<1>2. PICK i \in 1..Len(apps) : i = job[w].app
  BY <1>1
<1>3. /\ Answer(w, "done") /\ UNCHANGED <<claimed, decision, crashes>>
      /\ apps' = [apps EXCEPT ![i] = NewApplication] /\ files' = {f \in files : f.app # i}
      /\ Active \subseteq {i}
  BY <1>2 DEF ResetApplication, WithoutFiles, MayBeActive
<1>4. files \subseteq FileType /\ IsFiniteSet(files)
  BY DEF TypeOK
<1>5. IsFiniteSet(files') /\ files' \subseteq files
  BY <1>3, <1>4, FS_Subset
<1>6. ASSUME NEW d \in Documents
      PROVE  Filled(files', i, d, NewApplication.docs[d].received)
  <2>1. FilesOf(files', i, d) = {}
    BY <1>3 DEF FilesOf
  <2>2. NewApplication.docs[d].received = 0
    BY NewApplicationFits DEF PendingDocument
  <2> QED
    BY <2>1, <2>2, NoSlots
<1>7. \A k \in 1..Len(apps), d \in Documents : k # i => FilesOf(files', k, d) = FilesOf(files, k, d)
  BY <1>3 DEF FilesOf
<1>8. EachFileOnce'
  BY <1>5, AppsApart DEF EachFileOnce
<1>9. /\ AppsSafe'
      /\ apps' \in Seq(ApplicationType) /\ Len(apps') = Len(apps)
      /\ FileType' = FileType
  BY <1>3, <1>6, <1>7, <1>8, NewApplicationIsFit, OneWritten
<1>10. Len(apps) <= Len(apps') /\ Len(apps') <= MaxApps
  BY <1>9 DEF TypeOK
<1>11. TypeOK'
  BY <1>1, <1>3, <1>4, <1>5, <1>9, <1>10, WriteTypes
<1> QED
  BY <1>9, <1>11

\* The decision of the coordinator closes one application and touches no document.
LEMMA DecisionKeeps ==
  ASSUME TypeOK, AppsSafe, WriteDecision
  PROVE  TypeOK' /\ AppsSafe'
<1>1. /\ decision # NoDecision /\ decision' = NoDecision
      /\ apps' = [apps EXCEPT ![decision.app].status = decision.to]
      /\ UNCHANGED <<channel, claimed, outcome, job, files, locks, crashes>>
  BY DEF WriteDecision
<1>2. decision.app \in 1..Len(apps) /\ decision.to \in {"APPROVED", "REJECTED"}
  BY <1>1 DEF TypeOK
<1>3. PICK i \in 1..Len(apps), to \in {"APPROVED", "REJECTED"} : i = decision.app /\ to = decision.to
  BY <1>2
<1>4. PICK a : a = [apps[i] EXCEPT !.status = to]
  OBVIOUS
<1>5. apps' = [apps EXCEPT ![i] = a]
  BY <1>1, <1>3, <1>4
<1>6. apps[i] \in ApplicationType /\ AppFits(apps[i])
  BY AppsApart, ActiveFacts
<1>7. a.status = to /\ a.docs = apps[i].docs /\ a \in ApplicationType
  BY <1>4, <1>6 DEF ApplicationType
<1>8. to \notin ActiveStatuses
  BY DEF ActiveStatuses
<1>9. AppFits(a)
  BY <1>6, <1>7, <1>8 DEF AppFits
<1>10. \A d \in Documents : Filled(files', i, d, a.docs[d].received)
  BY <1>1, <1>7, AppsApart
<1>11. EachFileOnce'
  BY <1>1, AppsApart DEF EachFileOnce
<1>12. /\ AppsSafe'
       /\ apps' \in Seq(ApplicationType) /\ Len(apps') = Len(apps)
       /\ FileType' = FileType
  <2>1. a.status \notin ActiveStatuses
    BY <1>7, <1>8
  <2>2. \A k \in 1..Len(apps), d \in Documents : k # i => FilesOf(files', k, d) = FilesOf(files, k, d)
    BY <1>1
  <2> QED
    BY <1>5, <1>9, <1>10, <1>11, <2>1, <2>2, OneWritten
<1>13. JobType' = JobType
  BY <1>12 DEF JobType
<1>14. TypeOK'
  BY <1>1, <1>12, <1>13 DEF TypeOK, channel, locks
<1> QED
  BY <1>12, <1>14

\* saveDocumentOutcome: what was read of the application is what is written again.
LEMMA SaveKeeps ==
  ASSUME TypeOK, AppsSafe, ClaimedFirst, ReadIsFresh, NEW w \in Workers, SaveOutcome(w)
  PROVE  /\ TypeOK' /\ AppsSafe'
         /\ apps' \in Seq(ApplicationType) /\ Len(apps') = Len(apps)
         /\ \A k \in 1..Len(apps) : k # job[w].app => apps'[k] = apps[k]
         /\ \A f \in files' : f \in files \/ f.m = job[w].m
<1>1. /\ job[w].at = "write" /\ Answer(w, "done") /\ UNCHANGED <<claimed, decision, crashes>>
  BY DEF SaveOutcome
<1>2. /\ job[w].m \in Messages /\ job[w].app \in 1..Len(apps)
      /\ job[w].docs \in [Documents -> DocumentType] /\ job[w].ok \in BOOLEAN
  BY <1>1, JobFields
<1>3. /\ job[w].app \in Incomplete /\ job[w].docs = apps[job[w].app].docs
      /\ \A f \in files : f.m # job[w].m
  BY <1>1 DEF ReadIsFresh, ClaimedFirst, Handling
<1>4. PICK i \in 1..Len(apps), docs \in [Documents -> DocumentType], ok \in BOOLEAN, m \in Messages :
        i = job[w].app /\ docs = job[w].docs /\ ok = job[w].ok /\ m = job[w].m
  BY <1>2
<1>5. i \in Active /\ NotValidated(docs) # {} /\ docs = apps[i].docs /\ AppFits(apps[i])
  BY <1>3, <1>4, AppsApart DEF Incomplete
<1>6. PICK d : d = NextPending(docs)
  OBVIOUS
<1>7. /\ d \in Documents /\ docs[d].status # "VALIDATED"
      /\ \A e \in Documents : e < d => docs[e].status = "VALIDATED"
  BY <1>5, <1>6, FirstPending
<1>8. PICK doc : doc = ApplyResult(d, docs[d], ok)
  OBVIOUS
<1>9. Fits(d, docs[d])
  BY <1>5, <1>7 DEF AppFits
<1>10. Fits(d, doc) /\ doc.received = IF ok THEN docs[d].received + 1 ELSE docs[d].received
  BY <1>7, <1>8, <1>9, ApplyResultFits
<1>11. doc \in DocumentType
  BY <1>10 DEF Fits
<1>12. PICK D : D = [docs EXCEPT ![d] = doc]
  OBVIOUS
<1>13. /\ D \in [Documents -> DocumentType] /\ D[d] = doc
       /\ \A e \in Documents : e # d => D[e] = docs[e]
  BY <1>7, <1>11, <1>12
<1>14. PICK st \in ActiveStatuses : st = IF NotValidated(D) = {} THEN "IN_REVIEW" ELSE "AWAITING_DOCUMENTS"
  BY DEF ActiveStatuses
<1>15. RecordResult(docs, d, ok) = [docs |-> D, status |-> st]
  BY <1>8, <1>12, <1>14 DEF RecordResult
<1>16. PICK a : a = [status |-> st, docs |-> D]
  OBVIOUS
<1>17. apps' = [apps EXCEPT ![i] = a]
  <2>1. apps' = [apps EXCEPT ![i] = [status |-> st, docs |-> [@.docs EXCEPT ![d] = D[d]]]]
    BY <1>4, <1>6, <1>15 DEF SaveOutcome
  <2>2. [apps[i].docs EXCEPT ![d] = D[d]] = D
    BY <1>5, <1>12, <1>13
  <2> QED
    BY <1>16, <2>1, <2>2
<1>18. files' = IF ok THEN files \cup {[app |-> i, doc |-> d, slot |-> doc.received, m |-> m]} ELSE files
  <2>1. PICK res : res = RecordResult(job[w].docs, NextPending(job[w].docs), job[w].ok)
    OBVIOUS
  <2>2. res.docs[d].received = doc.received
    BY <1>4, <1>6, <1>13, <1>15, <2>1
  <2>3. files' = IF job[w].ok THEN files \cup {[app |-> job[w].app, doc |-> NextPending(job[w].docs),
                                               slot |-> res.docs[NextPending(job[w].docs)].received,
                                               m |-> job[w].m]}
                 ELSE files
    BY <2>1 DEF SaveOutcome
  <2> QED
    BY <1>4, <1>6, <2>2, <2>3
<1>19. a.status = st /\ a.docs = D /\ a \in ApplicationType
  BY <1>13, <1>16 DEF ApplicationType
<1>20. AppFits(a)
  <2>1. \A e \in Documents : Fits(e, D[e])
    BY <1>5, <1>10, <1>13 DEF AppFits
  <2>2. ASSUME NEW e \in Documents, D[e] # PendingDocument, NEW k \in 1..(e - 1)
        PROVE  D[k].status = "VALIDATED"
    <3>1. k \in Documents /\ e \in Nat /\ k \in Nat /\ k < e /\ d \in Nat
      BY <1>7, DocumentsAreNumbers DEF Documents
    <3>2. CASE e = d
      <4>1. k # d /\ docs[k].status = "VALIDATED"
        BY <1>7, <3>1, <3>2
      <4> QED
        BY <1>13, <3>1, <4>1
    <3>3. CASE e # d
      <4>1. docs[e] # PendingDocument /\ docs = apps[i].docs
        BY <1>5, <1>13, <2>2, <3>3
      <4>2. \A l \in 1..(e - 1) : docs[l].status = "VALIDATED"
        BY <1>5, <4>1 DEF AppFits
      <4>3. docs[k].status = "VALIDATED"
        BY <4>2
      <4>4. k # d
        BY <1>7, <4>3
      <4> QED
        BY <1>13, <3>1, <4>3, <4>4
    <3> QED
      BY <3>2, <3>3
  <2>3. st = "IN_REVIEW" <=> NotValidated(D) = {}
    BY <1>14
  <2> QED
    BY <1>19, <2>1, <2>2, <2>3 DEF AppFits
<1>21. PICK g : g = [app |-> i, doc |-> d, slot |-> doc.received, m |-> m]
  OBVIOUS
<1>22. g \notin files /\ g.app = i /\ g.doc = d /\ g.slot = doc.received /\ g.m = m
  BY <1>3, <1>4, <1>21
<1>23. files \subseteq FileType /\ IsFiniteSet(files)
  BY DEF TypeOK
<1>24. docs[d].received \in Nat /\ doc.received \in Nat
  BY <1>9, <1>10 DEF Fits, DocumentType
<1>25. \A k \in 1..Len(apps), e \in Documents : k # i \/ e # d => FilesOf(files', k, e) = FilesOf(files, k, e)
  BY <1>18, <1>21, <1>22 DEF FilesOf
<1>26. ASSUME NEW e \in Documents
       PROVE  Filled(files', i, e, a.docs[e].received)
  <2>1. Filled(files, i, e, docs[e].received)
    BY <1>5, AppsApart
  <2>2. CASE e # d
    <3>1. FilesOf(files', i, e) = FilesOf(files, i, e)
      BY <1>25, <2>2
    <3>2. a.docs[e] = docs[e]
      BY <1>13, <1>19, <2>2
    <3> QED
      BY <2>1, <3>1, <3>2 DEF Filled
  <2>3. CASE e = d /\ ok
    <3>1. files' = files \cup {g} /\ a.docs[e].received = docs[e].received + 1
          /\ g.slot = docs[e].received + 1
      BY <1>10, <1>13, <1>18, <1>19, <1>21, <1>22, <2>3
    <3>2. PICK n \in Nat : n = docs[e].received
      BY <1>24, <2>3
    <3>3. PICK fs : fs = files
      OBVIOUS
    <3>4. Filled(fs, i, e, n)
      BY <2>1, <3>2, <3>3
    <3>5. Filled(fs \cup {g}, i, e, n + 1)
      BY <1>22, <1>23, <2>3, <3>1, <3>2, <3>3, <3>4, SlotFilled
    <3> QED
      BY <3>1, <3>2, <3>3, <3>5
  <2>4. CASE e = d /\ ~ ok
    BY <1>10, <1>13, <1>18, <1>19, <2>1, <2>4
  <2> QED
    BY <2>2, <2>3, <2>4
<1>27. EachFileOnce'
  BY <1>3, <1>4, <1>18, <1>21, <1>22, AppsApart DEF EachFileOnce
<1>28. Active \subseteq {i}
  BY <1>5, AppsApart
<1>29. /\ AppsSafe'
       /\ apps' \in Seq(ApplicationType) /\ Len(apps') = Len(apps)
       /\ FileType' = FileType
  BY <1>17, <1>20, <1>25, <1>26, <1>27, <1>28, OneWritten
<1>30. files' \subseteq FileType' /\ IsFiniteSet(files')
  <2>1. g \in FileType
    BY <1>7, <1>21, <1>24 DEF FileType
  <2>2. IsFiniteSet(files \cup {g})
    BY <1>23, FS_AddElement
  <2> QED
    BY <1>18, <1>21, <1>23, <1>29, <2>1, <2>2
<1>31. Len(apps) <= Len(apps') /\ Len(apps') <= MaxApps
  BY <1>29 DEF TypeOK
<1>32. TypeOK'
  BY <1>1, <1>29, <1>30, <1>31, WriteTypes
<1>33. \A k \in 1..Len(apps) : k # job[w].app => apps'[k] = apps[k]
  <2>1. apps \in Seq(ApplicationType)
    BY DEF TypeOK
  <2> QED
    BY <1>4, <1>17, <2>1
<1>34. \A f \in files' : f \in files \/ f.m = job[w].m
  BY <1>4, <1>18, <1>21, <1>22
<1> QED
  BY <1>29, <1>32, <1>33, <1>34
-----------------------------------------------------------------------------
(* One worker per message.                                                  *)

\* What became of a message is not changed by a step.
Settled == \A m \in Messages : outcome[m] # "none" => outcome'[m] = outcome[m]

LEMMA AnswerClaimed ==
  ASSUME TypeOK, ClaimedFirst, NEW w \in Workers, Handling(w), NEW result \in Results,
         Answer(w, result), claimed' = claimed,
         \A f \in files' : f \in files \/ f.m = job[w].m
  PROVE  ClaimedFirst' /\ Settled
<1>1. job[w].at # "idle"
  BY DEF Handling
<1>2. /\ outcome' \in [Messages -> Results]
      /\ \A m \in Messages : m # job[w].m => outcome'[m] = outcome[m]
      /\ job' = [job EXCEPT ![w] = Idle]
  BY <1>1, AnswerFrees
<1>3. job[w].m \in Messages /\ job[w].m \in claimed /\ outcome[job[w].m] = "none"
  BY <1>1, JobFields DEF ClaimedFirst
<1>4. job \in [Workers -> JobType]
  BY DEF TypeOK
<1>5. \A v \in Workers : Handling(v)' => v # w /\ job'[v] = job[v] /\ Handling(v)
  BY <1>2, <1>4 DEF Handling, Idle
<1>6. ASSUME NEW v \in Workers, Handling(v)'
      PROVE  /\ job'[v].m \in claimed' /\ outcome'[job'[v].m] = "none"
             /\ \A u \in Workers : Handling(u)' /\ job'[u].m = job'[v].m => u = v
             /\ \A f \in files' : f.m # job'[v].m
  <2>1. v # w /\ job'[v] = job[v] /\ Handling(v)
    BY <1>5, <1>6
  <2>2. job[v].m \in Messages /\ job[v].m # job[w].m
    BY <2>1, JobFields DEF Handling, ClaimedFirst
  <2>3. outcome'[job'[v].m] = "none" /\ job'[v].m \in claimed'
    BY <1>2, <2>1, <2>2 DEF ClaimedFirst
  <2>4. \A u \in Workers : Handling(u)' /\ job'[u].m = job'[v].m => u = v
    BY <1>5, <2>1 DEF ClaimedFirst
  <2>5. \A f \in files' : f.m # job'[v].m
    BY <2>1, <2>2 DEF ClaimedFirst
  <2> QED
    BY <2>3, <2>4, <2>5
<1>7. \A m \in Messages : outcome'[m] # "none" => m \in claimed'
  BY <1>2, <1>3 DEF ClaimedFirst
<1>8. \A f \in files' : f.m \in claimed'
  BY <1>3 DEF ClaimedFirst
<1>9. Settled
  BY <1>2, <1>3 DEF Settled
<1> QED
  BY <1>6, <1>7, <1>8, <1>9 DEF ClaimedFirst

LEMMA DuplicateClaimed ==
  ASSUME TypeOK, ClaimedFirst, NEW w \in Workers, AlreadyClaimed(w)
  PROVE  ClaimedFirst' /\ Settled
<1>1. job[w].at = "received" /\ Answer(w, outcome[job[w].m]) /\ claimed' = claimed /\ files' = files
  BY DEF AlreadyClaimed, stored
<1>2. job[w].m \in Messages
  BY <1>1, JobFields
<1>3. outcome \in [Messages -> Results] /\ job \in [Workers -> JobType]
  BY DEF TypeOK, Results
<1>4. outcome' = outcome /\ job' = [job EXCEPT ![w] = Idle]
  BY <1>1, <1>2, <1>3 DEF Answer
<1>5. \A v \in Workers : Handling(v)' => job'[v] = job[v] /\ Handling(v)
  BY <1>3, <1>4 DEF Handling, Idle
<1> QED
  BY <1>1, <1>4, <1>5 DEF ClaimedFirst, Settled

LEMMA MoveClaimed ==
  ASSUME TypeOK, ClaimedFirst, NEW w \in Workers, MovesOn(w)
  PROVE  ClaimedFirst' /\ Settled
<1>1. /\ job[w].at # "idle"
      /\ UNCHANGED <<channel, outcome, stored, decision, crashes>>
      /\ (claimed' = claimed /\ Handling(w)) \/ Claim(w)
  BY MovesOnFacts
<1>2. PICK r \in JobType : /\ job' = [job EXCEPT ![w] = r] /\ r.m = job[w].m
                           /\ r.at \notin {"idle", "received"}
  BY MovesOnFacts
<1>3. outcome' = outcome /\ files' = files /\ job \in [Workers -> JobType] /\ job[w].m \in Messages
  BY <1>1, JobFields DEF stored, TypeOK
<1>4. job'[w].m = job[w].m /\ \A v \in Workers : v # w => job'[v] = job[v]
  BY <1>2, <1>3
<1>5. \A v \in Workers : job'[v].m = job[v].m /\ (v # w => (Handling(v)' <=> Handling(v)))
  BY <1>4 DEF Handling
<1>6. CASE claimed' = claimed /\ Handling(w)
  <2>1. \A v \in Workers : Handling(v)' => Handling(v)
    BY <1>5, <1>6
  <2> QED
    BY <1>3, <1>5, <1>6, <2>1 DEF ClaimedFirst, Settled
<1>7. CASE Claim(w)
  <2>1. job[w].m \notin claimed /\ claimed' = claimed \cup {job[w].m}
    BY <1>7 DEF Claim
  <2>2. /\ outcome[job[w].m] = "none" /\ \A f \in files : f.m # job[w].m
        /\ \A v \in Workers : Handling(v) => job[v].m # job[w].m
    BY <1>3, <2>1 DEF ClaimedFirst
  <2>3. ASSUME NEW v \in Workers, Handling(v)'
        PROVE  /\ job'[v].m \in claimed' /\ outcome'[job'[v].m] = "none"
               /\ \A u \in Workers : Handling(u)' /\ job'[u].m = job'[v].m => u = v
               /\ \A f \in files' : f.m # job'[v].m
    <3>1. CASE v = w
      BY <1>3, <1>5, <2>1, <2>2, <3>1
    <3>2. CASE v # w
      <4>1. Handling(v)
        BY <1>5, <2>3, <3>2
      <4>2. job[v].m \in claimed /\ outcome[job[v].m] = "none" /\ \A f \in files : f.m # job[v].m
        BY <4>1 DEF ClaimedFirst
      <4>3. \A u \in Workers : Handling(u)' /\ job'[u].m = job'[v].m => u = v
        BY <1>5, <2>2, <4>1 DEF ClaimedFirst
      <4> QED
        BY <1>3, <1>5, <2>1, <4>2, <4>3
    <3> QED
      BY <3>1, <3>2
  <2>4. /\ \A m \in Messages : outcome'[m] # "none" => m \in claimed'
        /\ \A f \in files' : f.m \in claimed'
    BY <1>3, <2>1 DEF ClaimedFirst
  <2>5. Settled
    BY <1>3 DEF Settled
  <2> QED
    BY <2>3, <2>4, <2>5 DEF ClaimedFirst
<1> QED
  BY <1>1, <1>6, <1>7

LEMMA CrashClaimed ==
  ASSUME TypeOK, ClaimedFirst, Crash
  PROVE  ClaimedFirst' /\ Settled
<1>1. /\ outcome' = [m \in Messages |->
           IF \E w \in Workers : job[w].at \notin {"idle", "received"} /\ job[w].m = m
           THEN "lost" ELSE outcome[m]]
      /\ job' = [w \in Workers |-> Idle] /\ claimed' = claimed /\ files' = files
  BY DEF Crash, stored
<1>2. \A v \in Workers : ~ Handling(v)'
  BY <1>1 DEF Handling, Idle
<1>3. \A w \in Workers : job[w].at \notin {"idle", "received"} =>
        job[w].m \in claimed /\ outcome[job[w].m] = "none"
  BY DEF ClaimedFirst, Handling
<1>4. \A m \in Messages : outcome'[m] # "none" => m \in claimed'
  BY <1>1, <1>3 DEF ClaimedFirst
<1>5. Settled
  BY <1>1, <1>3 DEF Settled
<1>6. \A f \in files' : f.m \in claimed'
  BY <1>1 DEF ClaimedFirst
<1> QED
  BY <1>2, <1>4, <1>5, <1>6 DEF ClaimedFirst

LEMMA DeliverClaimed ==
  ASSUME TypeOK, ClaimedFirst, NEW w \in Workers, NEW m \in Messages, Deliver(w, m)
  PROVE  ClaimedFirst' /\ Settled
<1>1. /\ job' = [job EXCEPT ![w] = [at |-> "received", m |-> m]]
      /\ claimed' = claimed /\ outcome' = outcome /\ files' = files
  BY DEF Deliver, stored
<1>2. job \in [Workers -> JobType]
  BY DEF TypeOK
<1>3. \A v \in Workers : Handling(v)' => job'[v] = job[v] /\ Handling(v)
  BY <1>1, <1>2 DEF Handling
<1> QED
  BY <1>1, <1>3 DEF ClaimedFirst, Settled

LEMMA StillClaimed ==
  ASSUME ClaimedFirst, UNCHANGED <<claimed, outcome, job, files>>
  PROVE  ClaimedFirst' /\ Settled
  BY DEF ClaimedFirst, Settled, Handling
-----------------------------------------------------------------------------
(* What a worker read is still so.                                          *)

Fresh(w) == job[w].at \in {"review", "write"} =>
              /\ appLock[job[w].app] = w
              /\ job[w].app \in Incomplete
              /\ job[w].docs = apps[job[w].app].docs

LEMMA FreshStays ==
  ASSUME TypeOK, ReadIsFresh, NEW v \in Workers, job'[v] = job[v],
         Len(apps') \in Nat, Len(apps) <= Len(apps'),
         \A k \in 1..Len(apps) : appLock[k] = v => appLock'[k] = v /\ apps'[k] = apps[k]
  PROVE  Fresh(v)'
<1> SUFFICES ASSUME job'[v].at \in {"review", "write"}
             PROVE  /\ appLock'[job'[v].app] = v
                    /\ job'[v].app \in Incomplete'
                    /\ job'[v].docs = apps'[job'[v].app].docs
  BY DEF Fresh
<1>1. /\ appLock[job[v].app] = v
      /\ job[v].app \in Incomplete
      /\ job[v].docs = apps[job[v].app].docs
  BY DEF ReadIsFresh
<1>2. PICK k : k = job[v].app
  OBVIOUS
<1>3. /\ k \in 1..Len(apps) /\ apps[k].status \in ActiveStatuses /\ NotValidated(apps[k].docs) # {}
  BY <1>1, <1>2 DEF Incomplete, Active
<1>4. appLock'[k] = v /\ apps'[k] = apps[k]
  BY <1>1, <1>2, <1>3
<1>5. Len(apps) \in Nat
  BY DEF TypeOK
<1>6. k \in 1..Len(apps')
  BY <1>3, <1>5
<1>7. k \in Incomplete'
  BY <1>3, <1>4, <1>6 DEF Incomplete, Active
<1> QED
  BY <1>1, <1>2, <1>4, <1>7

LEMMA AnswerFresh ==
  ASSUME TypeOK, ReadIsFresh, NEW w \in Workers, job[w].at # "idle", NEW result \in Results,
         Answer(w, result), Len(apps') \in Nat, Len(apps) <= Len(apps'),
         \A k \in 1..Len(apps) : appLock[k] \notin {w, Nobody} => apps'[k] = apps[k]
  PROVE  ReadIsFresh'
<1>1. /\ job' = [job EXCEPT ![w] = Idle]
      /\ \A i \in 1..MaxApps : appLock'[i] = IF appLock[i] = w THEN Nobody ELSE appLock[i]
  BY AnswerFrees
<1>2. job \in [Workers -> JobType] /\ 1..Len(apps) \subseteq 1..MaxApps
  BY ActiveFacts DEF TypeOK
<1>3. ASSUME NEW v \in Workers
      PROVE  Fresh(v)'
  <2>1. CASE v = w
    BY <1>1, <1>2, <2>1 DEF Fresh, Idle
  <2>2. CASE v # w
    <3>1. job'[v] = job[v]
      BY <1>1, <1>2, <2>2
    <3>2. \A k \in 1..Len(apps) : appLock[k] = v => appLock'[k] = v /\ apps'[k] = apps[k]
      BY <1>1, <1>2, <2>2
    <3> QED
      BY <3>1, <3>2, FreshStays
  <2> QED
    BY <2>1, <2>2
<1> QED
  BY <1>3 DEF ReadIsFresh, Fresh

LEMMA MoveFresh ==
  ASSUME TypeOK, AppsSafe, ReadIsFresh, NEW w \in Workers, MovesOn(w)
  PROVE  ReadIsFresh'
<1>1. /\ UNCHANGED <<channel, outcome, stored, decision, crashes>>
      /\ appLock' = appLock \/ LockApplication(w)
  BY MovesOnFacts
<1>2. PICK r \in JobType : /\ job' = [job EXCEPT ![w] = r] /\ r.m = job[w].m
                           /\ r.at = "review" => LockApplication(w)
                           /\ r.at = "write" => Review(w)
  BY MovesOnFacts
<1>3. apps' = apps /\ job \in [Workers -> JobType] /\ Len(apps) \in Nat
  BY <1>1 DEF stored, TypeOK
<1>4. 1..Len(apps) \subseteq 1..MaxApps /\ (Active # {} => TheActive \in Active)
      /\ Active \subseteq 1..Len(apps)
  BY ActiveFacts
<1>5. appLock \in [1..MaxApps -> Workers \cup {Nobody}]
  BY DEF TypeOK
<1>6. \A k \in 1..Len(apps), v \in Workers : v # w /\ appLock[k] = v => appLock'[k] = v
  <2>1. CASE appLock' = appLock
    BY <2>1
  <2>2. CASE LockApplication(w)
    <3>1. appLock[TheActive] = Nobody /\ appLock' = [appLock EXCEPT ![TheActive] = w]
      BY <2>2 DEF LockApplication
    <3> QED
      BY <1>4, <1>5, <3>1
  <2> QED
    BY <1>1, <2>1, <2>2
<1>7. ASSUME NEW v \in Workers
      PROVE  Fresh(v)'
  <2>1. CASE v # w
    <3>1. job'[v] = job[v] /\ Len(apps') \in Nat /\ Len(apps) <= Len(apps')
      BY <1>2, <1>3, <2>1
    <3>2. \A k \in 1..Len(apps) : appLock[k] = v => appLock'[k] = v /\ apps'[k] = apps[k]
      BY <1>3, <1>6, <2>1
    <3> QED
      BY <3>1, <3>2, FreshStays
  <2>2. CASE v = w /\ r.at = "review"
    <3>1. /\ Incomplete # {} /\ appLock' = [appLock EXCEPT ![TheActive] = w]
          /\ job' = [job EXCEPT ![w] = Reading(w, TheActive)]
      BY <1>2, <2>2 DEF LockApplication
    <3>2. TheActive \in Incomplete
      <4>1. PICK i \in Incomplete : TRUE
        BY <3>1
      <4>2. i \in Active /\ TheActive \in Active
        BY <1>4, <4>1 DEF Incomplete
      <4> QED
        BY <4>1, <4>2, AppsApart
    <3>3. TheActive \in Incomplete'
      BY <1>3, <3>2 DEF Incomplete, Active
    <3>4. PICK k : k = TheActive
      OBVIOUS
    <3>5. job'[w].app = k /\ job'[w].docs = apps[k].docs
      BY <1>3, <3>1, <3>4 DEF Reading
    <3>6. appLock'[k] = w
      <4>1. k \in Active
        BY <3>2, <3>4 DEF Incomplete
      <4>2. k \in 1..MaxApps
        BY <1>4, <4>1
      <4> QED
        BY <1>5, <3>1, <3>4, <4>2
    <3> QED
      BY <1>3, <2>2, <3>3, <3>4, <3>5, <3>6 DEF Fresh
  <2>3. CASE v = w /\ r.at = "write"
    <3>1. job[w].at = "review" /\ appLock' = appLock
          /\ job'[w].app = job[w].app /\ job'[w].docs = job[w].docs
      <4>1. Review(w)
        BY <1>2, <2>3
      <4>2. PICK ok \in BOOLEAN :
              job' = [job EXCEPT ![w] = [at |-> "write", m |-> job[w].m, app |-> job[w].app,
                                         docs |-> job[w].docs, ok |-> ok]]
        BY <4>1 DEF Review, FileAccepted
      <4>3. job[w].at = "review" /\ appLock' = appLock
        BY <4>1 DEF Review, locks
      <4> QED
        BY <1>3, <4>2, <4>3
    <3>2. /\ appLock[job[w].app] = w
          /\ job[w].app \in Incomplete
          /\ job[w].docs = apps[job[w].app].docs
      BY <3>1 DEF ReadIsFresh
    <3>3. job[w].app \in Incomplete'
      BY <1>3, <3>2 DEF Incomplete, Active
    <3> QED
      BY <1>3, <2>3, <3>1, <3>2, <3>3 DEF Fresh
  <2>4. CASE v = w /\ r.at \notin {"review", "write"}
    BY <1>2, <1>3, <2>4 DEF Fresh
  <2> QED
    BY <2>1, <2>2, <2>3, <2>4
<1> QED
  BY <1>7 DEF ReadIsFresh, Fresh
-----------------------------------------------------------------------------
(* The theorems about the messages.                                         *)

LEMMA IntakeParts == IntakeSafe <=> TypeOK /\ AppsSafe /\ ClaimedFirst /\ ReadIsFresh
  BY DEF IntakeSafe, AppsSafe

LEMMA IntakePartsNext ==
  ASSUME TypeOK', AppsSafe', ClaimedFirst', ReadIsFresh'
  PROVE  IntakeSafe'
  BY DEF IntakeSafe, AppsSafe

\* The steps that only answer, or only go on.
LEMMA QuietKeeps ==
  ASSUME IntakeSafe, NEW w \in Workers, MovesOn(w) \/ AnswersOnly(w) \/ AlreadyClaimed(w)
  PROVE  IntakeSafe' /\ Settled
<1>1. TypeOK /\ AppsSafe /\ ClaimedFirst /\ ReadIsFresh
  BY IntakeParts
<1>2. Len(apps) \in Nat
  BY <1>1 DEF TypeOK
<1>3. CASE MovesOn(w)
  <2>1. /\ UNCHANGED <<channel, outcome, stored, decision, crashes>>
        /\ (claimed' = claimed /\ Handling(w)) \/ Claim(w)
        /\ appLock' \in [1..MaxApps -> Workers \cup {Nobody}]
        /\ docLock' \in [1..MaxApps -> Workers \cup {Nobody}]
        /\ job[w].at # "idle" /\ \E r \in JobType : job' = [job EXCEPT ![w] = r]
    BY <1>1, <1>3, MovesOnFacts
  <2>2. claimed' \subseteq Messages
    <3>1. claimed \subseteq Messages /\ job[w].m \in Messages
      BY <1>1, <2>1, JobFields DEF TypeOK
    <3> QED
      BY <2>1, <3>1 DEF Claim
  <2>3. TypeOK'
    BY <1>1, <2>1, <2>2, MoveTypes
  <2>4. AppsSafe'
    BY <1>1, <2>1, AppsStay
  <2>5. ClaimedFirst' /\ Settled
    BY <1>1, <1>3, MoveClaimed
  <2>6. ReadIsFresh'
    BY <1>1, <1>3, MoveFresh
  <2> QED
    BY <2>3, <2>4, <2>5, <2>6, IntakePartsNext
<1>4. CASE AnswersOnly(w)
  <2>1. PICK result \in Results : Answer(w, result)
    BY <1>1, <1>4, AnswersOnlyFacts
  <2>2. Handling(w) /\ job[w].at # "idle" /\ UNCHANGED <<claimed, stored, decision, crashes>>
    BY <1>1, <1>4, AnswersOnlyFacts DEF Handling
  <2>3. apps' = apps /\ files' = files
    BY <2>2 DEF stored
  <2>4. TypeOK'
    BY <1>1, <2>1, <2>2, AnswerTypes
  <2>5. AppsSafe'
    BY <1>1, <2>2, AppsStay
  <2>6. ClaimedFirst' /\ Settled
    BY <1>1, <2>1, <2>2, <2>3, AnswerClaimed
  <2>7. Len(apps') \in Nat /\ Len(apps) <= Len(apps')
    BY <1>2, <2>3
  <2>8. ReadIsFresh'
    BY <1>1, <2>1, <2>2, <2>3, <2>7, AnswerFresh
  <2> QED
    BY <2>4, <2>5, <2>6, <2>8, IntakePartsNext
<1>5. CASE AlreadyClaimed(w)
  <2>1. job[w].at = "received" /\ Answer(w, outcome[job[w].m])
        /\ UNCHANGED <<claimed, stored, decision, crashes>>
    BY <1>5 DEF AlreadyClaimed
  <2>2. job[w].m \in Messages
    BY <1>1, <2>1, JobFields
  <2>3. PICK result \in Results : result = outcome[job[w].m]
    BY <1>1, <2>2 DEF TypeOK, Results
  <2>4. Answer(w, result) /\ job[w].at # "idle" /\ apps' = apps
    BY <2>1, <2>3 DEF stored
  <2>5. TypeOK'
    BY <1>1, <2>1, <2>4, AnswerTypes
  <2>6. AppsSafe'
    BY <1>1, <2>1, AppsStay
  <2>7. ClaimedFirst' /\ Settled
    BY <1>1, <1>5, DuplicateClaimed
  <2>8. Len(apps') \in Nat /\ Len(apps) <= Len(apps')
    BY <1>2, <2>4
  <2>9. ReadIsFresh'
    BY <1>1, <2>4, <2>8, AnswerFresh
  <2> QED
    BY <2>5, <2>6, <2>7, <2>9, IntakePartsNext
<1> QED
  BY <1>3, <1>4, <1>5

\* The steps that write an application.
LEMMA WriteKeeps ==
  ASSUME IntakeSafe, NEW w \in Workers, SaveOutcome(w) \/ Create(w) \/ ResetApplication(w)
  PROVE  IntakeSafe' /\ Settled
<1>1. TypeOK /\ AppsSafe /\ ClaimedFirst /\ ReadIsFresh
  BY IntakeParts
<1>2. /\ Handling(w) /\ job[w].at # "idle" /\ Answer(w, "done") /\ "done" \in Results
      /\ claimed' = claimed
  BY DEF SaveOutcome, Create, ResetApplication, Handling, Results
<1>3. TypeOK' /\ AppsSafe'
  BY <1>1, SaveKeeps, CreateKeeps, ResetKeeps
<1>4. \A f \in files' : f \in files \/ f.m = job[w].m
  <2>1. CASE SaveOutcome(w)
    BY <1>1, <2>1, SaveKeeps
  <2>2. CASE Create(w) \/ ResetApplication(w)
    BY <2>2 DEF Create, ResetApplication, WithoutFiles
  <2> QED
    BY <2>1, <2>2
<1>5. ClaimedFirst' /\ Settled
  BY <1>1, <1>2, <1>4, AnswerClaimed
<1>6. apps \in Seq(ApplicationType) /\ Len(apps) \in Nat
  BY <1>1 DEF TypeOK
<1>7. /\ Len(apps') \in Nat /\ Len(apps) <= Len(apps')
      /\ \A k \in 1..Len(apps) : appLock[k] \notin {w, Nobody} => apps'[k] = apps[k]
  <2>1. CASE SaveOutcome(w)
    <3>1. Len(apps') = Len(apps) /\ \A k \in 1..Len(apps) : k # job[w].app => apps'[k] = apps[k]
      BY <1>1, <2>1, SaveKeeps
    <3>2. appLock[job[w].app] = w
      BY <1>1, <2>1 DEF SaveOutcome, ReadIsFresh
    <3> QED
      BY <1>6, <3>1, <3>2
  <2>2. CASE Create(w)
    <3>1. apps' = Append(apps, NewApplication) /\ NewApplication \in ApplicationType
      BY <2>2, NewApplicationFits DEF Create
    <3>2. /\ Len(apps') = Len(apps) + 1 /\ \A k \in 1..Len(apps) : apps'[k] = apps[k]
      BY <1>6, <3>1, AppendProperties
    <3> QED
      BY <1>6, <3>2
  <2>3. CASE ResetApplication(w)
    <3>1. apps' = [apps EXCEPT ![job[w].app] = NewApplication] /\ appLock[job[w].app] = Nobody
      BY <2>3 DEF ResetApplication
    <3>2. Len(apps') = Len(apps) /\ \A k \in 1..Len(apps) : k # job[w].app => apps'[k] = apps[k]
      BY <1>6, <3>1
    <3> QED
      BY <1>6, <3>1, <3>2
  <2> QED
    BY <2>1, <2>2, <2>3
<1>8. ReadIsFresh'
  BY <1>1, <1>2, <1>7, AnswerFresh
<1> QED
  BY <1>3, <1>5, <1>8, IntakePartsNext

\* The channel, the coordinator and the crash.
LEMMA OthersKeep ==
  ASSUME IntakeSafe,
         \/ \E w \in Workers, m \in Messages : Deliver(w, m)
         \/ \E i \in 1..Len(apps), to \in {"APPROVED", "REJECTED"} : ReadDecision(i, to)
         \/ WriteDecision \/ Crash
  PROVE  IntakeSafe' /\ Settled
<1>1. TypeOK /\ AppsSafe /\ ClaimedFirst /\ ReadIsFresh
  BY IntakeParts
<1>2. /\ apps \in Seq(ApplicationType) /\ Len(apps) \in Nat
      /\ job \in [Workers -> JobType]
      /\ appLock \in [1..MaxApps -> Workers \cup {Nobody}]
  BY <1>1 DEF TypeOK
<1>3. ASSUME NEW w \in Workers, NEW m \in Messages, Deliver(w, m)
      PROVE  IntakeSafe' /\ Settled
  <2>1. /\ job' = [job EXCEPT ![w] = [at |-> "received", m |-> m]]
        /\ apps' = apps /\ files' = files /\ appLock' = appLock
    BY <1>3 DEF Deliver, stored, locks
  <2>2. TypeOK'
    BY <1>1, <1>3, DeliverTypes
  <2>3. AppsSafe'
    BY <1>1, <2>1, AppsStay DEF stored
  <2>4. ClaimedFirst' /\ Settled
    BY <1>1, <1>3, DeliverClaimed
  <2>5. \A v \in Workers : job'[v].at \in {"review", "write"} => job'[v] = job[v]
    BY <1>2, <2>1
  <2>6. Incomplete' = Incomplete
    BY <2>1 DEF Incomplete, Active
  <2>7. ReadIsFresh'
    BY <1>1, <2>1, <2>5, <2>6 DEF ReadIsFresh
  <2> QED
    BY <2>2, <2>3, <2>4, <2>7, IntakePartsNext
<1>4. ASSUME NEW i \in 1..Len(apps), NEW to \in {"APPROVED", "REJECTED"}, ReadDecision(i, to)
      PROVE  IntakeSafe' /\ Settled
  <2>1. /\ decision' = [app |-> i, to |-> to]
        /\ UNCHANGED <<channel, claimed, outcome, job, stored, locks, crashes>>
    BY <1>4 DEF ReadDecision
  <2>2. apps' = apps /\ files' = files /\ appLock' = appLock /\ docLock' = docLock
    BY <2>1 DEF stored, locks
  <2>3. decision' \in {NoDecision} \cup [app : 1..Len(apps), to : {"APPROVED", "REJECTED"}]
    BY <2>1
  <2>4. JobType' = JobType /\ FileType' = FileType
    BY <2>2 DEF JobType, FileType
  <2>5. TypeOK'
    BY <1>1, <2>1, <2>2, <2>3, <2>4 DEF TypeOK, channel
  <2>6. AppsSafe'
    BY <1>1, <2>1, AppsStay
  <2>7. ClaimedFirst' /\ Settled
    BY <1>1, <2>1, <2>2, StillClaimed
  <2>8. ReadIsFresh'
    BY <1>1, <2>1, <2>2 DEF ReadIsFresh, Incomplete, Active
  <2> QED
    BY <2>5, <2>6, <2>7, <2>8, IntakePartsNext
<1>5. CASE WriteDecision
  <2>1. /\ decision # NoDecision /\ appLock[decision.app] = Nobody
        /\ apps' = [apps EXCEPT ![decision.app].status = decision.to]
        /\ UNCHANGED <<channel, claimed, outcome, job, files, locks, crashes>>
    BY <1>5 DEF WriteDecision
  <2>2. TypeOK' /\ AppsSafe'
    BY <1>1, <1>5, DecisionKeeps
  <2>3. ClaimedFirst' /\ Settled
    BY <1>1, <2>1, StillClaimed
  <2>4. /\ Len(apps') = Len(apps) /\ \A k \in 1..Len(apps) : k # decision.app => apps'[k] = apps[k]
    BY <1>2, <2>1
  <2>5. ASSUME NEW v \in Workers
        PROVE  Fresh(v)'
    <3>1. job'[v] = job[v] /\ Len(apps') \in Nat /\ Len(apps) <= Len(apps')
      BY <1>2, <2>1, <2>4
    <3>2. \A k \in 1..Len(apps) : appLock[k] = v => appLock'[k] = v /\ apps'[k] = apps[k]
      BY <2>1, <2>4 DEF locks
    <3> QED
      BY <1>1, <3>1, <3>2, FreshStays
  <2>6. ReadIsFresh'
    BY <2>5 DEF ReadIsFresh, Fresh
  <2> QED
    BY <2>2, <2>3, <2>6, IntakePartsNext
<1>6. CASE Crash
  <2>1. /\ crashes' = crashes + 1 /\ duplicates + crashes < MaxFaults
        /\ job' = [w \in Workers |-> Idle]
        /\ appLock' = [i \in 1..MaxApps |-> Nobody]
        /\ docLock' = [i \in 1..MaxApps |-> Nobody]
        /\ decision' = NoDecision
        /\ UNCHANGED <<channel, claimed, stored>>
        /\ outcome' = [m \in Messages |->
             IF \E w \in Workers : job[w].at \notin {"idle", "received"} /\ job[w].m = m
             THEN "lost" ELSE outcome[m]]
    BY <1>6 DEF Crash
  <2>2. outcome' \in [Messages -> Results]
    BY <1>1, <2>1 DEF TypeOK, Results
  <2>3. Idle \in JobType
    BY DEF JobType
  <2>4. /\ accepted' \subseteq Messages /\ claimed' \subseteq Messages
        /\ duplicates' \in Nat /\ crashes' \in Nat /\ duplicates' + crashes' <= MaxFaults
        /\ UNCHANGED <<stored, kind, credit>>
    BY <1>1, <2>1 DEF TypeOK, channel
  <2>5. \A w \in Workers : job'[w] = Idle
    BY <2>1
  <2>6. job' = [w \in Workers |-> job'[w]] /\ \A w \in Workers : job'[w] \in JobType
    BY <2>1, <2>3, <2>5
  <2>7. /\ appLock' \in [1..MaxApps -> Workers \cup {Nobody}]
        /\ docLock' \in [1..MaxApps -> Workers \cup {Nobody}]
        /\ decision' \in {NoDecision} \cup [app : 1..Len(apps), to : {"APPROVED", "REJECTED"}]
    BY <2>1
  <2>8. TypeOK'
    BY <1>1, <2>2, <2>4, <2>6, <2>7, TypesStay
  <2>9. AppsSafe'
    BY <1>1, <2>1, AppsStay
  <2>10. ClaimedFirst' /\ Settled
    BY <1>1, <1>6, CrashClaimed
  <2>11. ReadIsFresh'
    BY <2>5 DEF ReadIsFresh, Idle
  <2> QED
    BY <2>8, <2>9, <2>10, <2>11, IntakePartsNext
<1> QED
  BY <1>3, <1>4, <1>5, <1>6

LEMMA IntakeStep ==
  ASSUME IntakeSafe, [Next]_vars
  PROVE  IntakeSafe' /\ Settled
<1>1. CASE UNCHANGED vars
  <2>1. /\ UNCHANGED <<kind, credit, accepted, duplicates, claimed, outcome, job, apps, files>>
        /\ UNCHANGED <<appLock, docLock, decision, crashes, stored>>
    BY <1>1 DEF vars, channel, stored, locks
  <2>2. TypeOK /\ AppsSafe /\ ClaimedFirst /\ ReadIsFresh
    BY IntakeParts
  <2>3. JobType' = JobType /\ FileType' = FileType
    BY <2>1 DEF JobType, FileType
  <2>4. TypeOK'
    BY <2>1, <2>2, <2>3 DEF TypeOK
  <2>5. AppsSafe'
    BY <2>1, <2>2, AppsStay
  <2>6. ClaimedFirst' /\ Settled
    BY <2>1, <2>2, StillClaimed
  <2>7. ReadIsFresh'
    BY <2>1, <2>2 DEF ReadIsFresh, Incomplete, Active
  <2> QED
    BY <2>4, <2>5, <2>6, <2>7, IntakePartsNext
<1>2. ASSUME NEW w \in Workers, Handle(w) \/ Fail(w)
      PROVE  IntakeSafe' /\ Settled
  <2>1. \/ MovesOn(w) \/ AnswersOnly(w) \/ AlreadyClaimed(w)
        \/ SaveOutcome(w) \/ Create(w) \/ ResetApplication(w)
    BY <1>2 DEF Handle, MovesOn, AnswersOnly
  <2> QED
    BY <2>1, QuietKeeps, WriteKeeps
<1> QED
  BY <1>1, <1>2, OthersKeep DEF Next

LEMMA IntakeStart ==
  ASSUME Init
  PROVE  IntakeSafe
<1>1. /\ accepted = {} /\ claimed = {} /\ files = {} /\ duplicates = 0 /\ crashes = 0
      /\ apps \in {<<>>, <<NewApplication>>} /\ outcome = [m \in Messages |-> "none"]
      /\ job = [w \in Workers |-> Idle] /\ decision = NoDecision
      /\ kind \in [Messages -> Kinds] /\ credit \in BOOLEAN
      /\ appLock = [i \in 1..MaxApps |-> Nobody] /\ docLock = [i \in 1..MaxApps |-> Nobody]
  BY DEF Init
<1>2. apps \in Seq(ApplicationType) /\ Len(apps) \in {0, 1}
      /\ \A i \in 1..Len(apps) : i = 1 /\ apps[i] = NewApplication
  <2>1. CASE apps = <<>>
    BY <2>1
  <2>2. CASE apps = <<NewApplication>>
    <3>1. PICK a \in ApplicationType : a = NewApplication
      BY NewApplicationFits
    <3>2. apps = <<a>>
      BY <2>2, <3>1
    <3>3. Len(apps) = 1 /\ apps \in Seq(ApplicationType) /\ apps[1] = a
      BY <3>2
    <3> QED
      BY <3>1, <3>3
  <2> QED
    BY <1>1, <2>1, <2>2
<1>3. TypeOK
  <2>1. job \in [Workers -> JobType]
    BY <1>1 DEF JobType
  <2>2. files \subseteq FileType /\ IsFiniteSet(files)
    BY <1>1, FS_EmptySet
  <2>3. Len(apps) <= MaxApps
    BY <1>2
  <2> QED
    BY <1>1, <1>2, <2>1, <2>2, <2>3 DEF TypeOK
<1>4. NoFileTooMany
  BY <1>2, NewApplicationFits DEF NoFileTooMany, Fits
<1>5. FilesFillTheSlots
  <2>1. ASSUME NEW i \in 1..Len(apps), NEW d \in Documents
        PROVE  Filled(files, i, d, apps[i].docs[d].received)
    <3>1. apps[i].docs[d].received = 0
      BY <1>2, NewApplicationFits DEF PendingDocument
    <3>2. FilesOf(files, i, d) = {}
      BY <1>1 DEF FilesOf
    <3> QED
      BY <3>1, <3>2, NoSlots
  <2> QED
    BY <2>1 DEF FilesFillTheSlots, Filled, FilesOf
<1>6. EachFileOnce
  BY <1>1 DEF EachFileOnce
<1>7. DocumentsInTurn
  BY <1>2, NewApplicationFits DEF DocumentsInTurn
<1>8. ReviewMeansComplete
  BY <1>2, NewApplicationFits DEF ReviewMeansComplete, Active
<1>9. OneActiveApplication
  <2>1. PICK S : S = Active
    OBVIOUS
  <2>2. IsFiniteSet(S)
    BY <1>3, <2>1, ActiveFacts
  <2>3. \A i, j \in S : i = j
    BY <1>2, <2>1 DEF Active
  <2> QED
    BY <2>1, <2>2, <2>3, AtMostOne DEF OneActiveApplication
<1>10. ClaimedFirst
  BY <1>1 DEF ClaimedFirst, Handling, Idle
<1>11. ReadIsFresh
  BY <1>1 DEF ReadIsFresh, Idle
<1> QED
  BY <1>3, <1>4, <1>5, <1>6, <1>7, <1>8, <1>9, <1>10, <1>11 DEF IntakeSafe

\* Whatever the number of messages, deliveries at once, documents and files of the
\* checklist: the files of an application fill its slots once, in the order of the checklist,
\* an application in review is complete and an applicant has one that is open, because a
\* message is claimed before it is handled (inbound-message-deduplicator.ts) and what was
\* read under the lock of the row is what is written (credit-application.repository.ts).
THEOREM IntakeAlwaysSafe == Spec => []IntakeSafe
<1>1. IntakeSafe /\ [Next]_vars => IntakeSafe'
  BY IntakeStep
<1> QED
  BY <1>1, IntakeStart, PTL DEF Spec

\* What became of a message is never changed by a redelivery, nor by a crash later on.
THEOREM AnsweredForGood == Spec => AttendedOnce
<1>1. IntakeSafe /\ [Next]_vars => [\A m \in Messages : outcome[m] # "none" => outcome'[m] = outcome[m]]_vars
  BY IntakeStep DEF Settled
<1> QED
  BY <1>1, IntakeAlwaysSafe, PTL DEF Spec, AttendedOnce
=============================================================================
