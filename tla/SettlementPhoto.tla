--------------------------- MODULE SettlementPhoto ---------------------------
(***************************************************************************)
(* The photograph of a settlement period (packages/domain/src/cash/        *)
(* settlement.ts), from the entries of the ledger as every writer          *)
(* attributes them (cash-ledger.ts, ledger-attribution.ts), with the       *)
(* commission of each collector (commission.ts) and the view of it that a  *)
(* coordinator has.  Which period is closed, and when, is module           *)
(* SettlementPeriods.                                                      *)
(*                                                                         *)
(* A zone is its path, a sequence of labels.  The ledger is kept the way   *)
(* readFlows reads it: an amount for each box, zone, collector and nature. *)
(***************************************************************************)
EXTENDS Sums, ZonePath, FiniteSets

CONSTANTS
  BoxOrder,    \* the cash boxes, in the order of their creation
  BoxZone,     \* BoxZone[b]: its zone, or NoZone
  ZonePaths,   \* the zones of the tenant
  Collectors,
  Amounts,     \* amounts of an entry
  RateScale,   \* the rate that takes everything: 1000 in the code
  Configs,     \* the commission settings the tenant may have
  MaxMoves,    \* bound on the movements
  NoCollector

Bases == {"COLLECTED", "REMITTED", "PRINCIPAL_RECOVERED"}
CommissionPolicies == [rate : Nat, base : Bases]

\* What has no zone is above all of them: it contains each, and is in none.
NoZone == <<>>

Boxes == {BoxOrder[i] : i \in DOMAIN BoxOrder}

\* Every zone hangs from a root, a box is of a zone or of none, and the cap takes no
\* more than everything.
ASSUME PhotoAssumption ==
  /\ ZonePaths \subseteq Seq(STRING) \ {NoZone} /\ IsFiniteSet(ZonePaths)
  /\ \A z \in ZonePaths : <<z[1]>> \in ZonePaths
  /\ BoxOrder \in Seq(Boxes) /\ BoxZone \in [Boxes -> ZonePaths \cup {NoZone}]
  /\ IsFiniteSet(Collectors) /\ NoCollector \notin Collectors
  /\ Amounts \subseteq Nat /\ RateScale \in Nat \ {0}
  /\ \A c \in Configs :
       /\ c.enabled \in BOOLEAN /\ c.cap \in 0..RateScale /\ c.default \in CommissionPolicies
       /\ DOMAIN c.zones \subseteq ZonePaths
       /\ \A z \in DOMAIN c.zones : c.zones[z] \in CommissionPolicies

VARIABLES
  worth,      \* worth[b]: balance of b, in the box or out of it
  owner,      \* owner[b]: assigned_to
  opening,    \* opening[b]: what readBoxes sums before the period
  flows,      \* the entries of the period, as readFlows groups them
  earned,     \* earned[z]: interest allocated in the period to credits of z
  recovered,  \* recovered[k]: capital that k recovered in cash in the period
  config,     \* configuration of the commissions
  moves       \* transactions so far, bounded by MaxMoves

photoVars == <<owner, opening, flows, earned, recovered, config, worth, moves>>

NoFlows == [e \in {} |-> 0]

PhotoInit ==
  /\ owner \in [Boxes -> Collectors \cup {NoCollector}]
  /\ opening \in [Boxes -> Amounts \cup {0}]
  /\ worth = opening
  /\ flows = NoFlows /\ moves = 0
  /\ earned = [z \in ZonePaths |-> 0] /\ recovered = [k \in Collectors |-> 0]
  /\ config \in Configs
-----------------------------------------------------------------------------
(* The movements and their attribution.                                     *)

\* canZoneUseBox.
CanUse(z, b) == Within(z, BoxZone[b])

\* assertCanPayOnBehalfOf.
MayPayFor(k, z, b) ==
  IF owner[b] # NoCollector THEN owner[b] = k
  ELSE CanUse(z, b)

\* ledgerAttribution: the zone and the collector of the business fact, or those
\* of the box.
Entry(b, kind, direction, z, k) ==
  [box |-> b, kind |-> kind, direction |-> direction,
   zone |-> IF z # NoZone THEN z ELSE BoxZone[b],
   collector |-> IF k # NoCollector THEN k ELSE owner[b]]

Posted(f, entries, a) ==
  [e \in DOMAIN f \cup entries |->
     (IF e \in DOMAIN f THEN f[e] ELSE 0) + (IF e \in entries THEN a ELSE 0)]

\* Entries in, then out; assertCanPost lets no box go below zero.
Post(in, out, a) ==
  /\ moves < MaxMoves
  /\ moves' = moves + 1
  /\ \A e \in out : worth[e.box] >= a
  /\ flows' = Posted(flows, in \cup out, a)
  /\ worth' = [b \in Boxes |-> worth[b] + a * Cardinality({e \in in : e.box = b})
                                       - a * Cardinality({e \in out : e.box = b})]
  /\ UNCHANGED <<owner, opening, config>>

Ledger(in, out, a) == Post(in, out, a) /\ UNCHANGED <<earned, recovered>>

\* A payment of a credit of zone z, of which p is capital.
CollectPayment(b, z, a, p) ==
  LET e == Entry(b, "PAYMENT_IN", "IN", z, NoCollector) IN
  /\ Post({e}, {}, a)
  /\ earned' = [earned EXCEPT ![z] = @ + a - p]
  /\ recovered' = IF owner[b] = NoCollector THEN recovered
                  ELSE [recovered EXCEPT ![owner[b]] = @ + p]

\* assertCreditCanUseBox.
Disburse(b, z, a) ==
  /\ owner[b] = NoCollector /\ CanUse(z, b)
  /\ Ledger({}, {Entry(b, "DISBURSEMENT", "OUT", z, NoCollector)}, a)

\* An expense or a commission, paid on behalf of a collector.
PayFor(k, z, b, kind, a) ==
  /\ MayPayFor(k, z, b)
  /\ Ledger({}, {Entry(b, kind, "OUT", z, k)}, a)

Transfer(b, c, a) ==
  /\ b # c
  /\ Ledger({Entry(c, "TRANSFER", "IN", NoZone, NoCollector)},
            {Entry(b, "TRANSFER", "OUT", NoZone, NoCollector)}, a)

\* What has no origin but its box: withdrawals, adjustments, unidentified money.
MoveBox(b, kind, direction, a) ==
  LET e == Entry(b, kind, direction, NoZone, NoCollector) IN
  IF direction = "IN" THEN Ledger({e}, {}, a) ELSE Ledger({}, {e}, a)

CloseDebt(b, kind, a) ==
  /\ owner[b] # NoCollector
  /\ Ledger({}, {Entry(b, kind, "OUT", NoZone, NoCollector)}, a)

\* The assignment of a box changes; what is in the ledger stays attributed.
Reassign(b, k) ==
  /\ owner[b] # k /\ moves < MaxMoves
  /\ owner' = [owner EXCEPT ![b] = k]
  /\ moves' = moves + 1
  /\ UNCHANGED <<opening, flows, earned, recovered, config, worth>>
-----------------------------------------------------------------------------
(* conceptOf.                                                               *)

EntersAs == [PAYMENT_IN |-> "COLLECTED", UNIDENTIFIED |-> "UNIDENTIFIED",
             TRANSFER |-> "TRANSFERS_IN", ADJUSTMENT |-> "ADJUSTMENTS_IN"]

Outgoing == [DISBURSEMENT |-> "DISBURSED", EXPENSE |-> "EXPENSES",
             WITHDRAWAL |-> "WITHDRAWALS", TRANSFER |-> "TRANSFERS_OUT",
             ADJUSTMENT |-> "ADJUSTMENTS_OUT", PAYROLL |-> "DEBT_PAYROLL",
             WRITE_OFF |-> "DEBT_WRITE_OFF", COMMISSION |-> "COMMISSIONS"]

ConceptOf(e) ==
  CASE e.direction = "IN" /\ e.kind \in DOMAIN EntersAs -> EntersAs[e.kind]
    [] e.direction = "OUT" /\ e.kind \in DOMAIN Outgoing -> Outgoing[e.kind]
    [] e.direction = "IN" -> "OTHER_IN"
    [] OTHER -> "OTHER_OUT"

ConceptsIn == {EntersAs[k] : k \in DOMAIN EntersAs} \cup {"OTHER_IN"}
ConceptsOut == {Outgoing[k] : k \in DOMAIN Outgoing} \cup {"OTHER_OUT"}
Concepts == ConceptsIn \cup ConceptsOut

\* conceptsOf.
ConceptsOf(rows) ==
  [concepts |-> [c \in Concepts |-> SumOver(flows, {e \in rows : ConceptOf(e) = c})],
   in |-> SumOver(flows, {e \in rows : e.direction = "IN"}),
   out |-> SumOver(flows, {e \in rows : e.direction = "OUT"})]
-----------------------------------------------------------------------------
(* The commission of a collector.                                           *)

\* readCollectors: a collector is of the zone of his first box.
OwnBoxes(k) == {b \in Boxes : owner[b] = k}
WithBox == {k \in Collectors : OwnBoxes(k) # {}}
ZoneOf(k) ==
  BoxZone[BoxOrder[CHOOSE i \in DOMAIN BoxOrder :
    owner[BoxOrder[i]] = k /\ \A j \in 1..(i - 1) : owner[BoxOrder[j]] # k]]

Containing(z) == {s \in DOMAIN config.zones : Within(z, s)}

\* The shallowest zone that contains his decides.
OutermostSetting(z) ==
  CHOOSE s \in Containing(z) : \A t \in Containing(z) : Len(s) <= Len(t)

\* The deepest one.
DeepestSetting(z) ==
  CHOOSE s \in Containing(z) : \A t \in Containing(z) : Len(t) <= Len(s)

\* resolveCommissionPolicy.
PolicyOf(z) ==
  LET policy == IF Containing(z) = {} THEN config.default
                ELSE config.zones[DeepestSetting(z)]
  IN [base |-> policy.base, rate |-> Min({policy.rate, config.cap})]

\* remittedAmount.
Remitted(concepts) == Max({0, concepts["TRANSFERS_OUT"] - concepts["TRANSFERS_IN"]})

\* computeCommission.
CommissionOf(z, figures) ==
  IF ~ config.enabled THEN 0
  ELSE (figures[PolicyOf(z).base] * PolicyOf(z).rate) \div RateScale

FiguresOf(k) ==
  LET c == ConceptsOf({e \in DOMAIN flows : e.collector = k}).concepts IN
  [COLLECTED |-> c["COLLECTED"], REMITTED |-> Remitted(c),
   PRINCIPAL_RECOVERED |-> recovered[k]]
-----------------------------------------------------------------------------
(* buildSettlement and scopeSettlement.                                     *)

BoxLine(b) ==
  LET c == ConceptsOf({e \in DOMAIN flows : e.box = b}) IN
  [zone |-> BoxZone[b], opening |-> opening[b], in |-> c.in, out |-> c.out,
   closing |-> opening[b] + c.in - c.out, concepts |-> c.concepts]

CollectorLine(k) ==
  [zone |-> ZoneOf(k), figures |-> FiguresOf(k),
   commission |-> CommissionOf(ZoneOf(k), FiguresOf(k)),
   closing |-> Total([b \in OwnBoxes(k) |-> BoxLine(b).closing])]

\* A collector counts in a zone that has entries or a portfolio.
ActiveZones(collectors) ==
  {e.zone : e \in DOMAIN flows} \cup {z \in ZonePaths : earned[z] > 0}

\* zoneLines: the zones of the entries, the portfolio and the commissions.
LinedZones(collectors) ==
  {e.zone : e \in DOMAIN flows} \cup {z \in ZonePaths : earned[z] > 0}
    \cup {collectors[k].zone : k \in {j \in DOMAIN collectors : collectors[j].commission > 0}}

\* zoneLines and resultOf.
ZoneLine(z, collectors) ==
  LET c == ConceptsOf({e \in DOMAIN flows : e.zone = z})
      interest == IF z = NoZone THEN 0 ELSE earned[z]
      commissions == SumOver([k \in DOMAIN collectors |-> collectors[k].commission],
                             {k \in DOMAIN collectors : collectors[k].zone = z})
  IN [in |-> c.in, out |-> c.out, concepts |-> c.concepts, commissions |-> commissions,
      utility |-> interest - c.concepts["EXPENSES"] - c.concepts["DEBT_WRITE_OFF"] - commissions]

\* sumTreasury and mergeResults.
Totalled(boxes, zones, collectors) ==
  [boxes |-> boxes, zones |-> zones, collectors |-> collectors,
   opening |-> Total([b \in DOMAIN boxes |-> boxes[b].opening]),
   in |-> Total([b \in DOMAIN boxes |-> boxes[b].in]),
   out |-> Total([b \in DOMAIN boxes |-> boxes[b].out]),
   closing |-> Total([b \in DOMAIN boxes |-> boxes[b].closing]),
   concepts |-> [c \in Concepts |-> Total([b \in DOMAIN boxes |-> boxes[b].concepts[c]])],
   commissions |-> Total([z \in DOMAIN zones |-> zones[z].commissions]),
   utility |-> Total([z \in DOMAIN zones |-> zones[z].utility])]

Photograph ==
  LET collectors == [k \in WithBox |-> CollectorLine(k)] IN
  Totalled([b \in Boxes |-> BoxLine(b)],
           [z \in LinedZones(collectors) |-> ZoneLine(z, collectors)],
           collectors)

Scoped(photo, scope) ==
  LET Kept(f, S) == [x \in S |-> f[x]]
  IN Totalled(Kept(photo.boxes, {b \in DOMAIN photo.boxes : Within(photo.boxes[b].zone, scope)}),
              Kept(photo.zones, {z \in DOMAIN photo.zones : Within(z, scope)}),
              Kept(photo.collectors,
                   {k \in DOMAIN photo.collectors : Within(photo.collectors[k].zone, scope)}))

\* What readBoxes will sum as the opening of the next period.
NextOpening(b) == BoxLine(b).closing

\* The period ends, and the next one begins where it ended.
ClosePeriod ==
  /\ flows # NoFlows /\ moves < MaxMoves
  /\ opening' = [b \in Boxes |-> NextOpening(b)]
  /\ flows' = NoFlows /\ moves' = moves + 1
  /\ earned' = [z \in ZonePaths |-> 0] /\ recovered' = [k \in Collectors |-> 0]
  /\ UNCHANGED <<owner, config, worth>>

PhotoNext ==
  \/ ClosePeriod
  \/ \E b \in Boxes, k \in Collectors \cup {NoCollector} : Reassign(b, k)
  \/ \E b \in Boxes, a \in Amounts :
       \/ \E z \in ZonePaths : (\E p \in 0..a : CollectPayment(b, z, a, p)) \/ Disburse(b, z, a)
       \/ \E k \in Collectors, z \in ZonePaths \cup {NoZone} :
            \E kind \in {"EXPENSE", "COMMISSION"} : PayFor(k, z, b, kind, a)
       \/ \E c \in Boxes : Transfer(b, c, a)
       \/ \E kind \in {"UNIDENTIFIED", "ADJUSTMENT"} : MoveBox(b, kind, "IN", a)
       \/ \E kind \in {"WITHDRAWAL", "ADJUSTMENT"} : MoveBox(b, kind, "OUT", a)
       \/ \E kind \in {"PAYROLL", "WRITE_OFF"} : CloseDebt(b, kind, a)

PhotoSpec == PhotoInit /\ [][PhotoNext]_photoVars
-----------------------------------------------------------------------------
\* The treasury of the photograph is the ledger's: what a box has at the cut is
\* all that ever moved in it (I1), and the concepts share out what moved.
BoxesAddUp(photo) ==
  /\ \A b \in Boxes : photo.boxes[b].closing = worth[b]
  /\ SumOver(photo.concepts, ConceptsIn) = photo.in
  /\ SumOver(photo.concepts, ConceptsOut) = photo.out
  /\ photo.opening + photo.in - photo.out = photo.closing

\* The two lenses tell of the same entries: by zones and by boxes (I3).
ZonesAddUp(photo) ==
  \A c \in Concepts :
    photo.concepts[c] = Total([z \in DOMAIN photo.zones |-> photo.zones[z].concepts[c]])

\* The result of the business is the interest of the period less what it spent,
\* forgave and owes its collectors, each commission in one zone.
ResultAddsUp(photo) ==
  /\ photo.commissions = Total([k \in DOMAIN photo.collectors |-> photo.collectors[k].commission])
  /\ photo.utility = Total(earned) - photo.concepts["EXPENSES"]
                     - photo.concepts["DEBT_WRITE_OFF"] - photo.commissions

\* A commission takes the rate of the nearest zone that sets one, never above the
\* cap, of an amount that is not negative.
CommissionsFair(photo) ==
  \A k \in DOMAIN photo.collectors :
    LET line == photo.collectors[k]
        most == Max({line.figures[f] : f \in DOMAIN line.figures})
    IN /\ 0 <= line.commission /\ line.commission <= most
       /\ line.commission * RateScale <= most * config.cap
       /\ line.zone \in DOMAIN config.zones =>
            line.commission * RateScale <=
              line.figures[config.zones[line.zone].base] * config.zones[line.zone].rate

\* The coordinators of the roots of the tree see all of it, each of them his part,
\* but for what belongs to no zone.
ViewsPartition(photo) ==
  LET roots == {z \in ZonePaths : Len(z) = 1}
      views == [z \in roots |-> Scoped(photo, z)]
      unzoned == {b \in Boxes : BoxZone[b] = NoZone}
      loose == {z \in DOMAIN photo.zones : z = NoZone}
  IN /\ photo.closing = Total([z \in roots |-> views[z].closing])
                        + Total([b \in unzoned |-> photo.boxes[b].closing])
     /\ photo.utility = Total([z \in roots |-> views[z].utility])
                        + Total([z \in loose |-> photo.zones[z].utility])

AddsUp(photo) ==
  /\ BoxesAddUp(photo)
  /\ ZonesAddUp(photo)
  /\ ResultAddsUp(photo)
  /\ CommissionsFair(photo)
  /\ ViewsPartition(photo)
-----------------------------------------------------------------------------
(* Why they hold: the movements of the open period lead from the opening of *)
(* each box to what it has.                                                 *)

LedgerEntries ==
  [box : Boxes, kind : DOMAIN EntersAs \cup DOMAIN Outgoing, direction : {"IN", "OUT"},
   zone : ZonePaths \cup {NoZone}, collector : Collectors \cup {NoCollector}]

PhotoTypeOK ==
  /\ owner \in [Boxes -> Collectors \cup {NoCollector}]
  /\ opening \in [Boxes -> Int] /\ worth \in [Boxes -> Int]
  /\ DOMAIN flows \subseteq LedgerEntries /\ IsFiniteSet(DOMAIN flows)
  /\ flows \in [DOMAIN flows -> Nat]
  /\ earned \in [ZonePaths -> Nat] /\ recovered \in [Collectors -> Nat]
  /\ config \in Configs

BoxesClose == \A b \in Boxes : BoxLine(b).closing = worth[b]

PhotoInv == PhotoTypeOK /\ BoxesClose
-----------------------------------------------------------------------------
\* What holds of the photograph of the open period from its first movement on, and so
\* of the one that is sealed.
PhotographAddsUp ==
  PhotoInv /\ (flows # NoFlows => \A photo \in {Photograph} : AddsUp(photo))
=============================================================================
