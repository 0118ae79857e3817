-------------------------- MODULE CashLedgerProofs --------------------------
(***************************************************************************)
(* Proofs, for every number of transactions, boxes, collectors and         *)
(* remittances, of the safety of the cash ledger.  The argument: what a    *)
(* transaction reads of a box is still so when it writes, because nobody   *)
(* changes a route box, or takes money out of any box, without its lock.   *)
(* Each action is checked for its own transaction; one lemma (OthersKeep)  *)
(* carries the invariant of all the others over every step.                *)
(***************************************************************************)
EXTENDS CashLedger, TLAPS

BookTypes ==
  /\ balance \in [Boxes -> Int]
  /\ moved \in [RouteBoxes -> Moves]
  /\ cut \in [RouteBoxes -> Nat]

BookOK == BookTypes /\ NoOverdraft /\ LedgerAddsUp /\ ClosedWithinDebt

RowsOK ==
  /\ owner \in [RouteBoxes -> Collectors]
  /\ remit \in [Remittances -> RemittanceRows]
  /\ count \in [Counts -> CountRows]
  /\ RemittancesHaveBox
  /\ ReceptionsAreSquare

LocksOK == holder \in [Locks -> Workers \cup {Nobody}]

WorkerOK(w) == WellFormed(w) /\ HoldsItsLocks(w) /\ ReadsAreCurrent(w)

JobsOK == job \in [Workers -> Jobs] /\ \A w \in Workers : WorkerOK(w)

LEMMA InvParts == LedgerInv <=> BookOK /\ RowsOK /\ LocksOK /\ JobsOK
  BY DEF LedgerInv, TypeOK, BookOK, BookTypes, RowsOK, LocksOK, JobsOK, WorkerOK

LEMMA BoxFacts ==
  /\ RouteBoxes \subseteq Boxes /\ OfficeBoxes \subseteq Boxes /\ BankBoxes \subseteq Boxes
  /\ Boxes \subseteq Locks /\ Remittances \subseteq Locks
  /\ Boxes \subseteq Nat \ {0}
  /\ \A b \in RouteBoxes : b \notin OfficeBoxes /\ b \notin BankBoxes
  /\ CashBoxes \subseteq Boxes /\ RouteBoxes \subseteq CashBoxes
  /\ \A b \in BankBoxes : b \notin CashBoxes
  BY LedgerAssumption DEF Boxes, CashBoxes, Locks

\* What a step of transaction w leaves alone: the cash boxes it has not locked (a
\* bank box may receive money), the rows of remittances it has not locked, the
\* box of a count, and the other transactions with their locks.
KeepsBoxes(w) ==
  /\ \A b \in RouteBoxes : holder[b] # w =>
       balance'[b] = balance[b] /\ cut'[b] = cut[b] /\ moved'[b] = moved[b]
  /\ \A b \in CashBoxes : holder[b] # w => balance'[b] = balance[b]
  /\ \A b \in Boxes : holder[b] # w => balance'[b] >= balance[b]

KeepsRows(w) ==
  /\ \A r \in Remittances : remit[r].status # "NONE" =>
       /\ remit'[r].status # "NONE"
       /\ holder[r] # w => remit'[r].status = remit[r].status
  /\ \A k \in Counts : count[k].box # 0 => count'[k].box = count[k].box

KeepsJobs(w) ==
  /\ \A v \in Workers \ {w} : job'[v] = job[v]
  /\ \A v \in Workers \ {w}, x \in Locks : holder[x] = v => holder'[x] = v

Frame(w) == KeepsBoxes(w) /\ KeepsRows(w) /\ KeepsJobs(w)

\* A step of w keeps what every other transaction relies on.
LEMMA OthersKeep ==
  ASSUME LedgerInv, NEW w, Frame(w), BookTypes', NEW v \in Workers, v # w
  PROVE  WorkerOK(v)'
<1>. DEFINE j == job[v]
<1>1. /\ job'[v] = j
      /\ j \in Jobs
      /\ WellFormed(v) /\ HoldsItsLocks(v) /\ ReadsAreCurrent(v)
  BY DEF Frame, KeepsBoxes, KeepsRows, KeepsJobs, LedgerInv, TypeOK
<1>2. WellFormed(v)'
  <2>1. ASSUME j.op = "adjust" PROVE count'[j.ref].box = j.box
    BY <1>1, <2>1, BoxFacts DEF WellFormed, Frame, KeepsBoxes, KeepsRows, KeepsJobs
  <2>2. ASSUME j.op = "receive" PROVE remit'[j.ref].status # "NONE"
    BY <1>1, <2>2 DEF WellFormed, Frame, KeepsBoxes, KeepsRows, KeepsJobs
  <2>3. ASSUME j.at \in {"opened", "assessed"}
        PROVE  remit'[j.ref].status = "SUBMITTED"
    BY <1>1, <2>3 DEF WellFormed, HoldsItsLocks, Frame, KeepsBoxes, KeepsRows, KeepsJobs
  <2>4. QED
    BY <1>1, <2>1, <2>2, <2>3 DEF WellFormed
<1>3. HoldsItsLocks(v)'
  <2>1. /\ j.op \in LockingOps => j.box \in Locks
        /\ j.op \in {"transfer", "receive"} => j.to \in Locks
        /\ j.at = "assessed" => j.op = "receive"
        /\ j.op = "receive" => j.ref \in Locks
        /\ j.at \in {"opened", "assessed"} => j.box \in Locks /\ j.ref \in Locks
    BY <1>1, BoxFacts DEF WellFormed, LockingOps
  <2>2. \A x \in Locks : holder[x] = v => holder'[x] = v
    BY DEF Frame, KeepsBoxes, KeepsRows, KeepsJobs
  <2>3. QED
    BY <1>1, <2>1, <2>2 DEF HoldsItsLocks
<1>4. ReadsAreCurrent(v)'
  <2>1. ASSUME j.at \in {"summed", "read"}, j.op # "mine"
        PROVE  /\ j.balance <= balance'[j.box]
               /\ j.box \in CashBoxes => balance'[j.box] = balance[j.box]
    <3>1. j.op \in LockingOps /\ j.want = {} /\ j.box \in Boxes
      BY <1>1, <2>1, BoxFacts DEF WellFormed, HoldsItsLocks, LockingOps
    <3>2. holder[j.box] = v /\ j.balance <= balance[j.box]
      BY <1>1, <2>1, <3>1 DEF HoldsItsLocks, ReadsAreCurrent
    <3>3. /\ balance'[j.box] >= balance[j.box]
          /\ j.box \in CashBoxes => balance'[j.box] = balance[j.box]
      BY <1>1, <3>1, <3>2 DEF Frame, KeepsBoxes
    <3>4. balance[j.box] \in Int /\ balance'[j.box] \in Int /\ j.balance \in Int
      BY <1>1, <3>1 DEF LedgerInv, TypeOK, BookTypes, Jobs
    <3>5. QED
      BY <3>2, <3>3, <3>4
  <2>2. ASSUME j.at \in {"moved", "summed", "read"}, j.op \in {"submit", "close"}
        PROVE  /\ balance'[j.box] = balance[j.box]
               /\ CarriedDebt(j.box)' = CarriedDebt(j.box)
    <3>1. j.box \in RouteBoxes /\ holder[j.box] = v
      BY <1>1, <2>2 DEF WellFormed, HoldsItsLocks, LockingOps
    <3>2. QED
      BY <1>1, <3>1 DEF Frame, KeepsBoxes, KeepsRows, KeepsJobs, CarriedDebt
  <2>3. ASSUME j.at = "assessed" PROVE balance'[j.box] = balance[j.box]
    BY <1>1, <2>3 DEF WellFormed, HoldsItsLocks, Frame, KeepsBoxes, KeepsRows, KeepsJobs
  <2>4. QED
    BY <1>1, <2>1, <2>2, <2>3 DEF ReadsAreCurrent
<1>5. QED
  BY <1>2, <1>3, <1>4 DEF WorkerOK

\* A step of w that keeps the types and the rows, and after which w itself may
\* rely on what it has, keeps the invariant.
LEMMA StepKeeps ==
  ASSUME LedgerInv, NEW w \in Workers, Frame(w),
         BookOK', RowsOK', LocksOK', job' \in [Workers -> Jobs], WorkerOK(w)'
  PROVE  LedgerInv'
<1>1. \A v \in Workers : WorkerOK(v)'
  BY OthersKeep DEF BookOK
<1>2. QED
  BY <1>1 DEF LedgerInv, TypeOK, BookOK, BookTypes, RowsOK, LocksOK, WorkerOK

-----------------------------------------------------------------------------
(* The steps that change no box and no row.                                 *)

\* A transaction as its handler opens it: it wants the locks its code asks for.
BeginsWell(j) ==
  /\ j \in Jobs
  /\ j.at = "begin"
  /\ ~ j.before
  /\ j.op \in LockingOps => j.box \in j.want
  /\ j.op \in {"pay", "out", "transfer", "adjust"} => j.box \in Boxes
  /\ j.op = "pix" => j.box \in BankBoxes
  /\ j.op \in {"submit", "close", "mine"} => j.box \in RouteBoxes
  /\ j.op = "transfer" => j.to \in Boxes /\ j.to # j.box /\ j.to \in j.want
  /\ j.op = "adjust" => j.ref \in Counts /\ count[j.ref].box = j.box
  /\ j.op = "receive" =>
       /\ j.ref \in Remittances /\ j.ref \in j.want
       /\ j.to \in OfficeBoxes
       /\ remit[j.ref].status # "NONE"

LEMMA RowsStay ==
  ASSUME LedgerInv, UNCHANGED <<book, owner, remit, count>>
  PROVE  BookOK' /\ RowsOK'
  BY DEF LedgerInv, TypeOK, BookOK, BookTypes, RowsOK, book, NoOverdraft, LedgerAddsUp,
         ClosedWithinDebt, RemittancesHaveBox, ReceptionsAreSquare

LEMMA QuietFrame ==
  ASSUME LedgerInv, NEW w, UNCHANGED <<book, remit, count, holder>>,
         \A v \in Workers \ {w} : job'[v] = job[v]
  PROVE  Frame(w)
<1>1. \A b \in Boxes : balance[b] \in Int
  BY DEF LedgerInv, TypeOK
<1>2. QED
  BY <1>1 DEF Frame, KeepsBoxes, KeepsRows, KeepsJobs, book

LEMMA StartKeeps ==
  ASSUME LedgerInv, NEW w \in Workers, NEW j, Start(w, j), BeginsWell(j)
  PROVE  LedgerInv'
<1>1. /\ UNCHANGED <<book, owner, remit, count, holder>>
      /\ job' = [job EXCEPT ![w] = j]
      /\ job \in [Workers -> Jobs]
  BY DEF Start, LedgerInv, TypeOK
<1>2. job' \in [Workers -> Jobs] /\ job'[w] = j
  BY <1>1 DEF BeginsWell
<1>3. Frame(w)
  BY <1>1, QuietFrame
<1>4. WorkerOK(w)'
  <2>1. WellFormed(w)'
    BY <1>1, <1>2 DEF WellFormed, BeginsWell
  <2>2. HoldsItsLocks(w)' /\ ReadsAreCurrent(w)'
    BY <1>2 DEF HoldsItsLocks, ReadsAreCurrent, BeginsWell
  <2>3. QED
    BY <2>1, <2>2 DEF WorkerOK
<1>5. LocksOK'
  BY <1>1 DEF LocksOK, LedgerInv, TypeOK
<1>6. BookOK' /\ RowsOK'
  BY <1>1, RowsStay
<1>7. QED
  BY <1>2, <1>3, <1>4, <1>5, <1>6, StepKeeps

LEMMA IdleTyped == Idle \in Jobs
  BY LedgerAssumption DEF Idle, Jobs, Stages

LEMMA RequestKeeps ==
  ASSUME LedgerInv, NEW w \in Workers, Request(w)
  PROVE  LedgerInv'
<1>. USE BoxFacts
<1>0. /\ Amounts \cup {0} \subseteq Nat
      /\ \A x \in Locks, y \in Locks : {x} \in SUBSET Locks /\ {x, y} \in SUBSET Locks
  BY LedgerAssumption
<1>1. ASSUME NEW b \in Boxes, NEW m \in Amounts, StartPay(w, b, m)
      PROVE  LedgerInv'
  <2>. DEFINE j == [Idle EXCEPT !.at = "begin", !.op = "pay", !.box = b, !.amount = m,
                                !.want = {b}]
  <2>1. Start(w, j)
    BY <1>1 DEF StartPay
  <2>2. j \in Jobs
    BY <1>0, IdleTyped DEF Idle, Jobs, Stages, Operations
  <2>3. BeginsWell(j)
    BY <2>2 DEF BeginsWell, Idle, LockingOps
  <2>4. QED
    BY <2>1, <2>3, StartKeeps
<1>2. ASSUME NEW b \in Boxes, NEW m \in Amounts, StartPix(w, b, m)
      PROVE  LedgerInv'
  <2>. DEFINE j == [Idle EXCEPT !.at = "begin", !.op = "pix", !.box = b, !.amount = m]
  <2>1. Start(w, j) /\ b \in BankBoxes
    BY <1>2 DEF StartPix
  <2>2. j \in Jobs
    BY <1>0, <2>1, IdleTyped DEF Idle, Jobs, Stages, Operations
  <2>3. BeginsWell(j)
    BY <2>1, <2>2 DEF BeginsWell, Idle, LockingOps
  <2>4. QED
    BY <2>1, <2>3, StartKeeps
<1>3. ASSUME NEW b \in Boxes, NEW m \in Amounts, StartOut(w, b, m)
      PROVE  LedgerInv'
  <2>. DEFINE j == [Idle EXCEPT !.at = "begin", !.op = "out", !.box = b, !.amount = m,
                                !.want = {b}]
  <2>1. Start(w, j)
    BY <1>3 DEF StartOut
  <2>2. j \in Jobs
    BY <1>0, IdleTyped DEF Idle, Jobs, Stages, Operations
  <2>3. BeginsWell(j)
    BY <2>2 DEF BeginsWell, Idle, LockingOps
  <2>4. QED
    BY <2>1, <2>3, StartKeeps
<1>4. ASSUME NEW b \in Boxes, NEW c \in Boxes, NEW m \in Amounts,
             StartTransfer(w, b, c, m)
      PROVE  LedgerInv'
  <2>. DEFINE j == [Idle EXCEPT !.at = "begin", !.op = "transfer", !.box = b, !.to = c,
                                !.amount = m, !.want = {b, c}]
  <2>1. Start(w, j) /\ b # c
    BY <1>4 DEF StartTransfer
  <2>2. j \in Jobs
    BY <1>0, IdleTyped DEF Idle, Jobs, Stages, Operations
  <2>3. BeginsWell(j)
    BY <2>1, <2>2 DEF BeginsWell, Idle, LockingOps
  <2>4. QED
    BY <2>1, <2>3, StartKeeps
<1>5. ASSUME NEW k \in Counts, StartAdjust(w, k)
      PROVE  LedgerInv'
  <2>. DEFINE j == [Idle EXCEPT !.at = "begin", !.op = "adjust", !.box = count[k].box,
                                !.ref = k, !.want = {count[k].box}]
  <2>1. Start(w, j) /\ count[k].box \in Boxes
    BY <1>5 DEF StartAdjust, LedgerInv, TypeOK, CountRows
  <2>2. j \in Jobs
    BY <1>0, <2>1, IdleTyped DEF Idle, Jobs, Stages, Operations
  <2>3. BeginsWell(j)
    BY <2>1, <2>2 DEF BeginsWell, Idle, LockingOps
  <2>4. QED
    BY <2>1, <2>3, StartKeeps
<1>6. ASSUME NEW op \in {"submit", "close"}, NEW b \in RouteBoxes, NEW c \in Collectors,
             NEW m \in Amounts \cup {0}, StartWithRouteBox(w, op, c, b, m)
      PROVE  LedgerInv'
  <2>. DEFINE j == [Idle EXCEPT !.at = "begin", !.op = op, !.box = b, !.who = c,
                                !.amount = m, !.want = {b}]
  <2>1. Start(w, j)
    BY <1>6 DEF StartWithRouteBox
  <2>2. j \in Jobs
    BY <1>0, IdleTyped DEF Idle, Jobs, Stages, Operations
  <2>3. BeginsWell(j)
    BY <2>2 DEF BeginsWell, Idle, LockingOps
  <2>4. QED
    BY <2>1, <2>3, StartKeeps
<1>7. ASSUME NEW b \in RouteBoxes, NEW c \in Collectors, StartMine(w, c, b)
      PROVE  LedgerInv'
  <2>. DEFINE j == [Idle EXCEPT !.at = "begin", !.op = "mine", !.box = b, !.who = c]
  <2>1. Start(w, j)
    BY <1>7 DEF StartMine
  <2>2. j \in Jobs
    BY <1>0, IdleTyped DEF Idle, Jobs, Stages, Operations
  <2>3. BeginsWell(j)
    BY <2>2 DEF BeginsWell, Idle, LockingOps
  <2>4. QED
    BY <2>1, <2>3, StartKeeps
<1>8. ASSUME NEW r \in Remittances, NEW c \in OfficeBoxes, NEW m \in Amounts \cup {0},
             StartReceive(w, r, c, m)
      PROVE  LedgerInv'
  <2>. DEFINE j == [Idle EXCEPT !.at = "begin", !.op = "receive", !.ref = r, !.to = c,
                                !.amount = m, !.want = {r}]
  <2>1. Start(w, j) /\ remit[r].status # "NONE"
    BY <1>8 DEF StartReceive
  <2>2. j \in Jobs
    BY <1>0, <2>1, IdleTyped DEF Idle, Jobs, Stages, Operations
  <2>3. BeginsWell(j)
    BY <2>1, <2>2 DEF BeginsWell, Idle, LockingOps
  <2>4. QED
    BY <2>1, <2>3, StartKeeps
<1>9. QED
  BY <1>1, <1>2, <1>3, <1>4, <1>5, <1>6, <1>7, <1>8
  DEF Request, StartSubmit, StartClose

LEMMA LockKeeps ==
  ASSUME LedgerInv, NEW w \in Workers, Lock(w)
  PROVE  LedgerInv'
<1>. DEFINE x == NextLock(job[w])
            j == [job[w] EXCEPT !.want = @ \ {x}]
<1>1. /\ UNCHANGED <<book, owner, remit, count>>
      /\ holder[x] \in {Nobody, w}
      /\ holder' = [holder EXCEPT ![x] = w]
      /\ job' = [job EXCEPT ![w] = j]
      /\ job \in [Workers -> Jobs] /\ job[w] \in Jobs
      /\ holder \in [Locks -> Workers \cup {Nobody}]
      /\ WellFormed(w) /\ HoldsItsLocks(w) /\ ReadsAreCurrent(w)
  BY DEF Lock, LedgerInv, TypeOK
<1>. HIDE DEF x
<1>2. j \in Jobs
  BY <1>1 DEF Jobs
<1>3. job' \in [Workers -> Jobs] /\ job'[w] = j
  BY <1>1, <1>2
<1>4. LocksOK'
  BY <1>1 DEF LocksOK
<1>5. Frame(w)
  <2>1. \A v \in Workers \ {w}, y \in Locks : holder[y] = v => holder'[y] = v
    BY <1>1, LedgerAssumption
  <2>2. \A b \in Boxes : balance[b] \in Int
    BY DEF LedgerInv, TypeOK
  <2>3. QED
    BY <1>1, <2>1, <2>2 DEF Frame, KeepsBoxes, KeepsRows, KeepsJobs, book
<1>6. WellFormed(w)'
  BY <1>1, <1>3 DEF WellFormed
<1>7. HoldsItsLocks(w)'
  <2>1. \A y \in Locks : holder[y] = w \/ y = x => holder'[y] = w
    BY <1>1
  <2>2. /\ j.op \in LockingOps => j.box \in Locks
        /\ j.op \in {"transfer", "receive"} => j.to \in Locks
        /\ j.at = "assessed" => j.op = "receive"
        /\ j.op = "receive" => j.ref \in Locks
        /\ j.at \in {"opened", "assessed"} => j.box \in Locks /\ j.ref \in Locks
    BY <1>1, BoxFacts DEF WellFormed, LockingOps
  <2>3. \A y : y \in job[w].want => y \in j.want \/ y = x
    OBVIOUS
  <2>4. QED
    BY <1>1, <1>3, <2>1, <2>2, <2>3 DEF HoldsItsLocks
<1>8. ReadsAreCurrent(w)'
  BY <1>1, <1>3 DEF ReadsAreCurrent, book, CarriedDebt
<1>9. BookOK' /\ RowsOK'
  BY <1>1, RowsStay
<1>10. QED
  BY <1>3, <1>4, <1>5, <1>6, <1>7, <1>8, <1>9, StepKeeps DEF WorkerOK

LEMMA QuietKeeps ==
  ASSUME LedgerInv, NEW w \in Workers, NEW j \in Jobs,
         UNCHANGED <<book, owner, remit, count, holder>>,
         job' = [job EXCEPT ![w] = j],
         WorkerOK(w)'
  PROVE  LedgerInv'
<1>1. job' \in [Workers -> Jobs] /\ LocksOK'
  BY DEF LedgerInv, TypeOK, LocksOK
<1>2. Frame(w)
  BY QuietFrame
<1>3. BookOK' /\ RowsOK'
  BY RowsStay
<1>4. QED
  BY <1>1, <1>2, <1>3, StepKeeps

LEMMA InsertKeeps ==
  ASSUME LedgerInv, NEW w \in Workers, Insert(w)
  PROVE  LedgerInv'
<1>. DEFINE j == [job[w] EXCEPT !.at = "inserted"]
<1>1. /\ UNCHANGED <<book, owner, remit, count, holder>>
      /\ job' = [job EXCEPT ![w] = j]
      /\ job \in [Workers -> Jobs] /\ job[w] \in Jobs
      /\ Ready(w, "begin") /\ job[w].op \in {"pay", "pix"}
      /\ WellFormed(w) /\ HoldsItsLocks(w)
  BY DEF Insert, LedgerInv, TypeOK
<1>2. j \in Jobs /\ job'[w] = j
  BY <1>1 DEF Jobs, Stages
<1>3. WellFormed(w)' /\ HoldsItsLocks(w)' /\ ReadsAreCurrent(w)'
  BY <1>1, <1>2 DEF WellFormed, HoldsItsLocks, ReadsAreCurrent, Ready
<1>4. QED
  BY <1>1, <1>2, <1>3, QuietKeeps DEF WorkerOK

LEMMA ReadBalanceKeeps ==
  ASSUME LedgerInv, NEW w \in Workers, ReadBalance(w)
  PROVE  LedgerInv'
<1>. DEFINE stage == IF job[w].at = "moved" THEN "summed" ELSE "read"
            j == [job[w] EXCEPT !.at = stage, !.balance = balance[job[w].box]]
<1>1. /\ UNCHANGED <<book, owner, remit, count, holder>>
      /\ job' = [job EXCEPT ![w] = j]
      /\ job \in [Workers -> Jobs] /\ job[w] \in Jobs
      /\ \/ Ready(w, "begin") /\ job[w].op \in {"out", "transfer", "adjust"}
            /\ stage = "read"
         \/ Ready(w, "moved") /\ stage = "summed"
      /\ WellFormed(w) /\ HoldsItsLocks(w) /\ ReadsAreCurrent(w)
      /\ balance \in [Boxes -> Int]
  BY DEF ReadBalance, LedgerInv, TypeOK, Ready
<1>. HIDE DEF stage
<1>2. job[w].box \in Boxes
  BY <1>1, BoxFacts DEF WellFormed, Ready
<1>3. j \in Jobs /\ job'[w] = j /\ balance[job[w].box] \in Int
  BY <1>1, <1>2 DEF Jobs, Stages
<1>4. WellFormed(w)' /\ HoldsItsLocks(w)'
  BY <1>1, <1>3 DEF WellFormed, HoldsItsLocks, Ready
<1>5. ReadsAreCurrent(w)'
  BY <1>1, <1>3 DEF ReadsAreCurrent, WellFormed, Ready, CarriedDebt, book
<1>6. QED
  BY <1>1, <1>3, <1>4, <1>5, QuietKeeps DEF WorkerOK

LEMMA FindOpenKeeps ==
  ASSUME LedgerInv, NEW w \in Workers, FindOpenRemittance(w)
  PROVE  LedgerInv'
<1>. DEFINE o == Open(job[w].who)
            j == [job[w] EXCEPT !.at = "read", !.open = o]
<1>1. /\ UNCHANGED <<book, owner, remit, count, holder>>
      /\ job' = [job EXCEPT ![w] = j]
      /\ job \in [Workers -> Jobs] /\ job[w] \in Jobs
      /\ Ready(w, "summed")
      /\ WellFormed(w) /\ HoldsItsLocks(w) /\ ReadsAreCurrent(w)
  BY DEF FindOpenRemittance, LedgerInv, TypeOK
<1>2. o \in BOOLEAN
  BY DEF Open
<1>. HIDE DEF o
<1>3. j \in Jobs /\ job'[w] = j
  BY <1>1, <1>2 DEF Jobs, Stages
<1>4. WellFormed(w)' /\ HoldsItsLocks(w)'
  BY <1>1, <1>3 DEF WellFormed, HoldsItsLocks, Ready
<1>5. ReadsAreCurrent(w)'
  BY <1>1, <1>3 DEF ReadsAreCurrent, WellFormed, Ready, CarriedDebt, book
<1>6. QED
  BY <1>1, <1>3, <1>4, <1>5, QuietKeeps DEF WorkerOK

LEMMA ReadMovementsKeeps ==
  ASSUME LedgerInv, NEW w \in Workers, ReadMovements(w)
  PROVE  LedgerInv'
<1>. DEFINE b == job[w].box
            e == cut[b] + moved[b].in - moved[b].out
            c == moved[b].collected > 0
            j == [job[w] EXCEPT !.at = "moved", !.expected = e, !.debt = CarriedDebt(b),
                                !.collected = c]
<1>1. /\ UNCHANGED <<book, owner, remit, count, holder>>
      /\ job' = [job EXCEPT ![w] = j]
      /\ job \in [Workers -> Jobs] /\ job[w] \in Jobs
      /\ Ready(w, "begin") /\ job[w].op \in {"submit", "close", "mine"}
      /\ WellFormed(w) /\ HoldsItsLocks(w)
  BY DEF ReadMovements, LedgerInv, TypeOK
<1>2. b \in RouteBoxes
  BY <1>1 DEF WellFormed
<1>3. /\ moved[b] \in Moves /\ cut[b] \in Nat
      /\ balance[b] = e
  BY <1>2 DEF LedgerInv, TypeOK, LedgerAddsUp
<1>4. e \in Int /\ CarriedDebt(b) \in Nat /\ c \in BOOLEAN
  BY <1>3 DEF Moves, CarriedDebt
<1>. HIDE DEF e, c
<1>5. j \in Jobs /\ job'[w] = j
  BY <1>1, <1>4 DEF Jobs, Stages
<1>6. WellFormed(w)' /\ HoldsItsLocks(w)'
  BY <1>1, <1>5 DEF WellFormed, HoldsItsLocks, Ready
<1>7. ReadsAreCurrent(w)'
  BY <1>1, <1>3, <1>5 DEF ReadsAreCurrent, CarriedDebt, book
<1>8. QED
  BY <1>1, <1>5, <1>6, <1>7, QuietKeeps DEF WorkerOK

LEMMA LoadOpenKeeps ==
  ASSUME LedgerInv, NEW w \in Workers, LoadOpen(w)
  PROVE  LedgerInv'
<1>. DEFINE b == remit[job[w].ref].box
            j == [job[w] EXCEPT !.at = "opened", !.box = b, !.want = {b}]
<1>1. /\ UNCHANGED <<book, owner, remit, count, holder>>
      /\ job' = [job EXCEPT ![w] = j]
      /\ job \in [Workers -> Jobs] /\ job[w] \in Jobs
      /\ Ready(w, "begin") /\ job[w].op = "receive"
      /\ remit[job[w].ref].status = "SUBMITTED"
      /\ WellFormed(w) /\ HoldsItsLocks(w)
  BY DEF LoadOpen, CanOpen, LedgerInv, TypeOK
<1>2. b \in RouteBoxes /\ b \in Boxes /\ {b} \in SUBSET Locks
  BY <1>1, BoxFacts DEF WellFormed, LedgerInv, RemittancesHaveBox
<1>. HIDE DEF b
<1>3. j \in Jobs /\ job'[w] = j
  BY <1>1, <1>2 DEF Jobs, Stages
<1>4. WellFormed(w)'
  BY <1>1, <1>2, <1>3 DEF WellFormed
<1>5. HoldsItsLocks(w)' /\ ReadsAreCurrent(w)'
  BY <1>1, <1>3 DEF HoldsItsLocks, ReadsAreCurrent, LockingOps, Ready
<1>6. QED
  BY <1>1, <1>3, <1>4, <1>5, QuietKeeps DEF WorkerOK

LEMMA AssessKeeps ==
  ASSUME LedgerInv, NEW w \in Workers, Assess(w)
  PROVE  LedgerInv'
<1>. DEFINE b == job[w].box
            locks == IF job[w].amount > 0 THEN {b, job[w].to} ELSE {}
            j == [job[w] EXCEPT !.at = "assessed", !.expected = balance[b],
                                !.want = locks]
<1>1. /\ UNCHANGED <<book, owner, remit, count, holder>>
      /\ job' = [job EXCEPT ![w] = j]
      /\ job \in [Workers -> Jobs] /\ job[w] \in Jobs
      /\ Ready(w, "opened")
      /\ WellFormed(w) /\ HoldsItsLocks(w)
      /\ balance \in [Boxes -> Int]
  BY DEF Assess, LedgerInv, TypeOK
<1>2. /\ b \in Boxes /\ job[w].to \in Boxes
      /\ locks \in SUBSET Locks
      /\ job[w].amount > 0 => job[w].to \in locks
      /\ balance[b] \in Int
  BY <1>1, BoxFacts DEF WellFormed, Ready
<1>. HIDE DEF locks
<1>3. j \in Jobs /\ job'[w] = j
  BY <1>1, <1>2 DEF Jobs, Stages
<1>4. WellFormed(w)'
  BY <1>1, <1>2, <1>3 DEF WellFormed, Ready
<1>5. HoldsItsLocks(w)'
  BY <1>1, <1>2, <1>3 DEF HoldsItsLocks, WellFormed, LockingOps, Ready
<1>6. ReadsAreCurrent(w)'
  BY <1>1, <1>3 DEF ReadsAreCurrent, WellFormed, Ready, book
<1>7. QED
  BY <1>1, <1>3, <1>4, <1>5, <1>6, QuietKeeps DEF WorkerOK
-----------------------------------------------------------------------------
(* The steps that end a transaction.                                        *)

LEMMA EndKeeps ==
  ASSUME LedgerInv, NEW w \in Workers, Release(w), job' = [job EXCEPT ![w] = Idle],
         BookOK', RowsOK', KeepsBoxes(w), KeepsRows(w)
  PROVE  LedgerInv'
<1>1. /\ job \in [Workers -> Jobs]
      /\ holder \in [Locks -> Workers \cup {Nobody}]
      /\ holder' = [x \in Locks |-> IF holder[x] = w THEN Nobody ELSE holder[x]]
  BY DEF LedgerInv, TypeOK, Release
<1>2. job' \in [Workers -> Jobs] /\ job'[w] = Idle
  BY <1>1, IdleTyped
<1>3. LocksOK'
  BY <1>1 DEF LocksOK
<1>4. KeepsJobs(w)
  BY <1>1 DEF KeepsJobs
<1>5. WorkerOK(w)'
  BY <1>2 DEF WorkerOK, WellFormed, HoldsItsLocks, ReadsAreCurrent, Idle, LockingOps
<1>6. QED
  BY <1>2, <1>3, <1>4, <1>5, StepKeeps DEF Frame

LEMMA RollbackKeeps ==
  ASSUME LedgerInv, NEW w \in Workers, Finish(w), UNCHANGED <<book, owner, remit, count>>
  PROVE  LedgerInv'
<1>1. BookOK' /\ RowsOK'
  BY RowsStay
<1>2. \A b \in Boxes : balance[b] \in Int
  BY DEF LedgerInv, TypeOK
<1>3. KeepsBoxes(w) /\ KeepsRows(w)
  BY <1>2 DEF KeepsBoxes, KeepsRows, book
<1>4. QED
  BY <1>1, <1>3, EndKeeps DEF Finish

\* An entry in a box that the transaction has locked, or that brings money into
\* a box of no collector, keeps every ledger adding up.
LEMMA PostKeeps ==
  ASSUME LedgerInv, NEW w, NEW b \in Boxes, NEW e \in Moves, Post(b, e),
         holder[b] = w \/ (b \in BankBoxes /\ e.out <= e.in),
         balance[b] + e.in - e.out >= 0,
         b \in RouteBoxes => moved[b].closed + e.closed <= cut[b]
  PROVE  BookOK' /\ KeepsBoxes(w)
<1>1. /\ balance \in [Boxes -> Int]
      /\ moved \in [RouteBoxes -> Moves]
      /\ cut \in [RouteBoxes -> Nat]
      /\ NoOverdraft /\ LedgerAddsUp /\ ClosedWithinDebt
  BY DEF LedgerInv, TypeOK
<1>2. /\ balance' = [balance EXCEPT ![b] = @ + e.in - e.out]
      /\ moved' = [x \in RouteBoxes |-> IF x = b THEN Plus(moved[x], e) ELSE moved[x]]
      /\ cut' = cut
  BY DEF Post
<1>3. e.in \in Nat /\ e.out \in Nat /\ e.collected \in Nat /\ e.closed \in Nat
  BY DEF Moves
<1>4. \A x \in Boxes : balance'[x] = IF x = b THEN balance[b] + e.in - e.out ELSE balance[x]
  BY <1>1, <1>2
<1>5. \A x \in RouteBoxes : moved'[x] = IF x = b THEN Plus(moved[b], e) ELSE moved[x]
  BY <1>2
<1>6. b \in RouteBoxes =>
        /\ Plus(moved[b], e) \in Moves
        /\ Plus(moved[b], e).in = moved[b].in + e.in
        /\ Plus(moved[b], e).out = moved[b].out + e.out
        /\ Plus(moved[b], e).closed = moved[b].closed + e.closed
  BY <1>1, <1>3 DEF Moves, Plus
<1>7. BookTypes'
  BY <1>1, <1>2, <1>3, <1>6 DEF BookTypes
<1>8. NoOverdraft'
  BY <1>1, <1>4 DEF NoOverdraft
<1>9. LedgerAddsUp'
  <2>1. SUFFICES ASSUME NEW x \in RouteBoxes
                 PROVE  balance'[x] = cut'[x] + moved'[x].in - moved'[x].out
    BY DEF LedgerAddsUp
  <2>2. balance[x] = cut[x] + moved[x].in - moved[x].out
    BY <1>1 DEF LedgerAddsUp
  <2>3. x \in Boxes /\ cut[x] \in Nat /\ moved[x].in \in Nat /\ moved[x].out \in Nat
    BY <1>1, BoxFacts DEF Moves
  <2>4. QED
    BY <1>2, <1>3, <1>4, <1>5, <1>6, <2>2, <2>3
<1>10. ClosedWithinDebt'
  BY <1>1, <1>2, <1>5, <1>6 DEF ClosedWithinDebt
<1>11. KeepsBoxes(w)
  <2>1. \A x \in RouteBoxes : holder[x] # w =>
          balance'[x] = balance[x] /\ cut'[x] = cut[x] /\ moved'[x] = moved[x]
    BY <1>2, <1>4, <1>5, BoxFacts
  <2>2. \A x \in Boxes : holder[x] # w => balance'[x] >= balance[x]
    BY <1>1, <1>3, <1>4
  <2>3. \A x \in CashBoxes : holder[x] # w => balance'[x] = balance[x]
    BY <1>4, BoxFacts
  <2>4. QED
    BY <2>1, <2>2, <2>3 DEF KeepsBoxes
<1>12. QED
  BY <1>7, <1>8, <1>9, <1>10, <1>11 DEF BookOK

LEMMA RowsKept ==
  ASSUME LedgerInv, NEW w, UNCHANGED <<owner, remit, count>>
  PROVE  RowsOK' /\ KeepsRows(w)
  BY DEF LedgerInv, TypeOK, RowsOK, RemittancesHaveBox, ReceptionsAreSquare, KeepsRows

LEMMA CommitEntryKeeps ==
  ASSUME LedgerInv, NEW w \in Workers, CommitEntry(w)
  PROVE  LedgerInv'
<1>. DEFINE b == job[w].box
            m == job[w].amount
            e == [NoMoves EXCEPT !.in = m, !.collected = m]
<1>1. /\ job[w] \in Jobs
      /\ Ready(w, "inserted") /\ WellFormed(w) /\ HoldsItsLocks(w)
  BY DEF CommitEntry, LedgerInv, TypeOK
<1>2. Post(b, e) /\ Finish(w) /\ UNCHANGED <<owner, remit, count>>
  BY <1>1 DEF CommitEntry, WellFormed
<1>3. m \in Nat /\ e \in Moves /\ e.in = m /\ e.out = 0 /\ e.closed = 0
  BY <1>1 DEF Jobs, NoMoves, Moves
<1>4. /\ b \in Boxes
      /\ holder[b] = w \/ b \in BankBoxes
  BY <1>1, BoxFacts DEF WellFormed, HoldsItsLocks, LockingOps, Ready
<1>5. /\ balance[b] \in Int /\ balance[b] >= 0
      /\ b \in RouteBoxes =>
           moved[b].closed \in Nat /\ cut[b] \in Nat /\ moved[b].closed <= cut[b]
  BY <1>4 DEF LedgerInv, TypeOK, NoOverdraft, ClosedWithinDebt, Moves
<1>. HIDE DEF e
<1>6. BookOK' /\ KeepsBoxes(w)
  BY <1>2, <1>3, <1>4, <1>5, PostKeeps
<1>7. QED
  BY <1>2, <1>6, RowsKept, EndKeeps DEF Finish

LEMMA PostOutKeeps ==
  ASSUME LedgerInv, NEW w \in Workers, PostOut(w)
  PROVE  LedgerInv'
<1>. DEFINE b == job[w].box
            m == job[w].amount
            e == [NoMoves EXCEPT !.out = m]
<1>1. /\ job[w] \in Jobs
      /\ Ready(w, "read") /\ job[w].op = "out" /\ CanPost(job[w])
      /\ WellFormed(w) /\ HoldsItsLocks(w) /\ ReadsAreCurrent(w)
      /\ Post(b, e) /\ Finish(w) /\ UNCHANGED <<owner, remit, count>>
  BY DEF PostOut, LedgerInv, TypeOK
<1>2. m \in Nat /\ e \in Moves /\ e.in = 0 /\ e.out = m /\ e.closed = 0
  BY <1>1 DEF Jobs, NoMoves, Moves
<1>3. b \in Boxes /\ holder[b] = w
  BY <1>1 DEF WellFormed, HoldsItsLocks, LockingOps, Ready
<1>4. /\ balance[b] \in Int /\ job[w].balance \in Int /\ job[w].balance <= balance[b]
      /\ job[w].balance - m >= 0
  BY <1>1, <1>3 DEF LedgerInv, TypeOK, Jobs, ReadsAreCurrent, CanPost, Ready
<1>5. b \in RouteBoxes =>
        moved[b].closed \in Nat /\ cut[b] \in Nat /\ moved[b].closed <= cut[b]
  BY DEF LedgerInv, TypeOK, ClosedWithinDebt, Moves
<1>. HIDE DEF e
<1>6. /\ balance[b] + e.in - e.out >= 0
      /\ b \in RouteBoxes => moved[b].closed + e.closed <= cut[b]
  BY <1>2, <1>4, <1>5
<1>. HIDE DEF b
<1>7. BookOK' /\ KeepsBoxes(w)
  BY <1>1, <1>2, <1>3, <1>6, PostKeeps
<1>8. QED
  BY <1>1, <1>7, RowsKept, EndKeeps DEF Finish

LEMMA CloseDebtKeeps ==
  ASSUME LedgerInv, NEW w \in Workers, CloseDebt(w)
  PROVE  LedgerInv'
<1>. DEFINE b == job[w].box
            m == job[w].amount
            e == [NoMoves EXCEPT !.out = m, !.closed = m]
<1>1. /\ job[w] \in Jobs
      /\ Ready(w, "read") /\ job[w].op = "close" /\ CanClose(job[w])
      /\ WellFormed(w) /\ HoldsItsLocks(w) /\ ReadsAreCurrent(w)
      /\ Post(b, e) /\ Finish(w) /\ UNCHANGED <<owner, remit, count>>
  BY DEF CloseDebt, LedgerInv, TypeOK
<1>2. m \in Nat /\ e \in Moves /\ e.in = 0 /\ e.out = m /\ e.closed = m
  BY <1>1 DEF Jobs, NoMoves, Moves
<1>3. b \in RouteBoxes /\ b \in Boxes /\ holder[b] = w
  BY <1>1, BoxFacts DEF WellFormed, HoldsItsLocks, LockingOps, Ready
<1>4. /\ balance[b] \in Int /\ job[w].balance = balance[b]
      /\ job[w].balance - m >= 0 /\ m <= CarriedDebt(b)
  BY <1>1, <1>3, BoxFacts
  DEF LedgerInv, TypeOK, ReadsAreCurrent, CanClose, CanPost, Ready
<1>5. moved[b].closed \in Nat /\ cut[b] \in Nat /\ moved[b].closed <= cut[b]
  BY <1>3 DEF LedgerInv, TypeOK, ClosedWithinDebt, Moves
<1>6. moved[b].closed + m <= cut[b]
  BY <1>2, <1>4, <1>5 DEF CarriedDebt
<1>. HIDE DEF e
<1>7. balance[b] + e.in - e.out >= 0 /\ moved[b].closed + e.closed <= cut[b]
  BY <1>2, <1>4, <1>6
<1>. HIDE DEF b
<1>8. BookOK' /\ KeepsBoxes(w)
  BY <1>1, <1>2, <1>3, <1>7, PostKeeps
<1>9. QED
  BY <1>1, <1>8, RowsKept, EndKeeps DEF Finish

LEMMA AdjustKeeps ==
  ASSUME LedgerInv, NEW w \in Workers, Adjust(w)
  PROVE  LedgerInv'
<1>. DEFINE b == job[w].box
            k == job[w].ref
            d == count[k].counted - count[k].system
            e == IF d > 0 THEN [NoMoves EXCEPT !.in = d] ELSE [NoMoves EXCEPT !.out = - d]
<1>1. /\ job[w] \in Jobs
      /\ Ready(w, "read") /\ job[w].op = "adjust" /\ CanAdjust(job[w])
      /\ WellFormed(w) /\ HoldsItsLocks(w) /\ ReadsAreCurrent(w)
      /\ Post(b, e) /\ Finish(w) /\ UNCHANGED <<owner, remit>>
      /\ count' = [count EXCEPT ![k].adjusted = TRUE]
  BY DEF Adjust, LedgerInv, TypeOK
<1>2. /\ b \in Boxes /\ holder[b] = w
      /\ k \in Counts /\ count[k].box = b
  BY <1>1 DEF WellFormed, HoldsItsLocks, LockingOps, Ready
<1>3. /\ count \in [Counts -> CountRows] /\ count[k] \in CountRows
      /\ count[k].counted \in Nat /\ count[k].system \in Int /\ d \in Int
  BY <1>2 DEF LedgerInv, TypeOK, CountRows
<1>4. e \in Moves /\ e.in - e.out = d /\ e.in \in Nat /\ e.out \in Nat /\ e.closed = 0
  BY <1>3 DEF NoMoves, Moves
<1>5. balance[b] \in Int /\ count[k].system <= balance[b]
  BY <1>1, <1>2 DEF LedgerInv, TypeOK, ReadsAreCurrent, CanAdjust, Ready
<1>6. b \in RouteBoxes =>
        moved[b].closed \in Nat /\ cut[b] \in Nat /\ moved[b].closed <= cut[b]
  BY DEF LedgerInv, TypeOK, ClosedWithinDebt, Moves
<1>7. balance[b] + d >= 0
  BY <1>3, <1>5
<1>. HIDE DEF e, d
<1>8. /\ balance[b] + e.in - e.out >= 0
      /\ b \in RouteBoxes => moved[b].closed + e.closed <= cut[b]
  BY <1>3, <1>4, <1>5, <1>6, <1>7
<1>9. BookOK' /\ KeepsBoxes(w)
  <2>. HIDE DEF b
  <2>1. QED
    BY <1>1, <1>2, <1>4, <1>8, PostKeeps
<1>10. RowsOK' /\ KeepsRows(w)
  <2>1. count' \in [Counts -> CountRows] /\ \A q \in Counts : count'[q].box = count[q].box
    BY <1>1, <1>3 DEF CountRows
  <2>2. QED
    BY <1>1, <2>1 DEF LedgerInv, TypeOK, RowsOK, RemittancesHaveBox, ReceptionsAreSquare,
                      KeepsRows
<1>11. QED
  BY <1>1, <1>9, <1>10, EndKeeps DEF Finish

\* What the origin of a transfer loses its destination gains.
LEMMA TransferKeeps ==
  ASSUME LedgerInv, NEW w, NEW b \in Boxes, NEW c \in Boxes, NEW m \in Nat,
         Transfer(b, c, m), UNCHANGED cut,
         b # c, holder[b] = w, holder[c] = w, balance[b] - m >= 0
  PROVE  BookOK' /\ KeepsBoxes(w)
<1>. DEFINE lost(x) == IF x = b THEN m ELSE 0
            gained(x) == IF x = c THEN m ELSE 0
<1>1. /\ balance \in [Boxes -> Int]
      /\ moved \in [RouteBoxes -> Moves]
      /\ cut \in [RouteBoxes -> Nat]
      /\ NoOverdraft /\ LedgerAddsUp /\ ClosedWithinDebt
  BY DEF LedgerInv, TypeOK
<1>2. /\ balance' \in [Boxes -> Int]
      /\ \A x \in Boxes : balance'[x] = balance[x] - lost(x) + gained(x)
  <2>. DEFINE after == balance[b] - m
              more == balance[c] + m
  <2>1. after \in Int /\ more \in Int /\ \A x \in Boxes : balance[x] \in Int
    BY <1>1
  <2>2. balance' = [balance EXCEPT ![b] = after, ![c] = more]
    BY DEF Transfer
  <2>3. \A x \in Boxes :
          balance[x] - lost(x) + gained(x) =
            IF x = c THEN more ELSE IF x = b THEN after ELSE balance[x]
    BY <2>1
  <2>. HIDE DEF after, more
  <2>4. /\ balance' \in [Boxes -> Int]
        /\ \A x \in Boxes :
             balance'[x] = IF x = c THEN more ELSE IF x = b THEN after ELSE balance[x]
    BY <1>1, <2>1, <2>2
  <2>5. QED
    BY <2>3, <2>4
<1>3. \A x \in Boxes : balance'[x] = balance[x] - lost(x) + gained(x)
  BY <1>2
<1>4. \A x \in RouteBoxes :
        /\ moved'[x] \in Moves
        /\ moved'[x].in = moved[x].in + gained(x)
        /\ moved'[x].out = moved[x].out + lost(x)
        /\ moved'[x].closed = moved[x].closed
        /\ x # b /\ x # c => moved'[x] = moved[x]
  <2>1. SUFFICES ASSUME NEW x \in RouteBoxes
                 PROVE  /\ moved'[x] \in Moves
                        /\ moved'[x].in = moved[x].in + gained(x)
                        /\ moved'[x].out = moved[x].out + lost(x)
                        /\ moved'[x].closed = moved[x].closed
                        /\ x # b /\ x # c => moved'[x] = moved[x]
    OBVIOUS
  <2>2. moved'[x] = Plus(moved[x], [NoMoves EXCEPT !.out = lost(x), !.in = gained(x)])
    BY DEF Transfer
  <2>3. /\ moved[x] \in Moves
        /\ lost(x) \in Nat /\ gained(x) \in Nat
        /\ x # b /\ x # c => lost(x) = 0 /\ gained(x) = 0
    BY <1>1
  <2>. HIDE DEF lost, gained
  <2>4. QED
    BY <2>2, <2>3 DEF Plus, NoMoves, Moves
<1>5. \A x \in Boxes : lost(x) \in Nat /\ gained(x) \in Nat /\ balance[x] \in Int
  BY <1>1
<1>6. BookTypes'
  <2>1. DOMAIN moved' = RouteBoxes /\ moved' = [x \in RouteBoxes |-> moved'[x]]
    BY DEF Transfer
  <2>2. QED
    BY <1>1, <1>2, <1>4, <2>1 DEF BookTypes
<1>7. NoOverdraft'
  BY <1>1, <1>3, <1>5 DEF NoOverdraft
<1>8. LedgerAddsUp' /\ ClosedWithinDebt'
  <2>1. SUFFICES ASSUME NEW x \in RouteBoxes
                 PROVE  /\ balance'[x] = cut'[x] + moved'[x].in - moved'[x].out
                        /\ moved'[x].closed <= cut'[x]
    BY DEF LedgerAddsUp, ClosedWithinDebt
  <2>2. /\ balance[x] = cut[x] + moved[x].in - moved[x].out
        /\ moved[x].closed <= cut[x]
    BY <1>1 DEF LedgerAddsUp, ClosedWithinDebt
  <2>3. x \in Boxes /\ cut[x] \in Nat /\ moved[x].in \in Nat /\ moved[x].out \in Nat
    BY <1>1, BoxFacts DEF Moves
  <2>. HIDE DEF lost, gained
  <2>4. QED
    BY <1>3, <1>4, <1>5, <2>2, <2>3
<1>9. KeepsBoxes(w)
  <2>1. \A x \in Boxes : holder[x] # w => balance'[x] = balance[x]
    BY <1>1, <1>3
  <2>2. \A x \in RouteBoxes : holder[x] # w => moved'[x] = moved[x]
    BY <1>4
  <2>3. QED
    BY <1>1, <2>1, <2>2, BoxFacts DEF KeepsBoxes
<1>10. QED
  BY <1>6, <1>7, <1>8, <1>9 DEF BookOK

LEMMA PostTransferKeeps ==
  ASSUME LedgerInv, NEW w \in Workers, PostTransfer(w)
  PROVE  LedgerInv'
<1>. DEFINE b == job[w].box
            c == job[w].to
            m == job[w].amount
<1>1. /\ job[w] \in Jobs
      /\ Ready(w, "read") /\ job[w].op = "transfer" /\ CanPost(job[w])
      /\ WellFormed(w) /\ HoldsItsLocks(w) /\ ReadsAreCurrent(w)
      /\ Transfer(b, c, m) /\ Finish(w) /\ UNCHANGED <<cut, owner, remit, count>>
  BY DEF PostTransfer, LedgerInv, TypeOK
<1>2. /\ b \in Boxes /\ holder[b] = w
      /\ c \in Boxes /\ holder[c] = w /\ b # c
      /\ m \in Nat
  BY <1>1 DEF WellFormed, HoldsItsLocks, LockingOps, Ready, Jobs
<1>3. /\ balance[b] \in Int /\ job[w].balance \in Int /\ job[w].balance <= balance[b]
      /\ job[w].balance - m >= 0
  BY <1>1, <1>2 DEF LedgerInv, TypeOK, Jobs, ReadsAreCurrent, CanPost, Ready
<1>4. balance[b] - m >= 0
  BY <1>2, <1>3
<1>. HIDE DEF b, c, m
<1>5. BookOK' /\ KeepsBoxes(w)
  BY <1>1, <1>2, <1>4, TransferKeeps
<1>6. QED
  BY <1>1, <1>5, RowsKept, EndKeeps DEF Finish

LEMMA SubmitKeeps ==
  ASSUME LedgerInv, NEW w \in Workers, NEW r \in Remittances, Submit(w, r)
  PROVE  LedgerInv'
<1>1. /\ job[w] \in Jobs
      /\ job[w].op = "submit" /\ WellFormed(w)
      /\ remit[r].status = "NONE"
      /\ remit' = [remit EXCEPT ![r].status = "SUBMITTED", ![r].collector = job[w].who,
                                ![r].box = job[w].box]
      /\ Finish(w) /\ UNCHANGED <<book, owner, count>>
      /\ remit \in [Remittances -> RemittanceRows]
      /\ RemittancesHaveBox /\ ReceptionsAreSquare
  BY DEF Submit, LedgerInv, TypeOK
<1>2. job[w].box \in RouteBoxes /\ job[w].who \in Collectors \cup {Nobody}
  BY <1>1 DEF WellFormed, Jobs
<1>3. /\ remit' \in [Remittances -> RemittanceRows]
      /\ remit'[r].status = "SUBMITTED" /\ remit'[r].box \in RouteBoxes
      /\ \A q \in Remittances : q # r => remit'[q] = remit[q]
  <2>. DEFINE row == [remit[r] EXCEPT !.status = "SUBMITTED", !.collector = job[w].who,
                                      !.box = job[w].box]
  <2>1. row \in RemittanceRows /\ row.status = "SUBMITTED" /\ row.box \in RouteBoxes
    BY <1>1, <1>2 DEF RemittanceRows
  <2>2. remit' = [remit EXCEPT ![r] = row]
    BY <1>1
  <2>. HIDE DEF row
  <2>3. QED
    BY <1>1, <2>1, <2>2
<1>4. RowsOK'
  BY <1>1, <1>3 DEF LedgerInv, TypeOK, RowsOK, RemittancesHaveBox, ReceptionsAreSquare
<1>5. KeepsRows(w)
  BY <1>1, <1>3 DEF KeepsRows
<1>6. BookOK'
  BY <1>1 DEF LedgerInv, TypeOK, BookOK, BookTypes, book, NoOverdraft, LedgerAddsUp,
              ClosedWithinDebt
<1>7. KeepsBoxes(w)
  <2>1. \A b \in Boxes : balance[b] \in Int
    BY DEF LedgerInv, TypeOK
  <2>2. QED
    BY <1>1, <2>1 DEF KeepsBoxes, book
<1>8. QED
  BY <1>1, <1>4, <1>5, <1>6, <1>7, EndKeeps DEF Finish

\* A reception: the other transactions whose entries are already dated are of
\* bank boxes, because the lock of the route box excludes the rest.
LEMMA ReceiveKeeps ==
  ASSUME LedgerInv, NEW w \in Workers, Receive(w)
  PROVE  LedgerInv'
<1>. DEFINE b == job[w].box
            c == job[w].to
            m == job[w].amount
            r == job[w].ref
            row == [remit[r] EXCEPT !.status = "RECEIVED", !.expected = job[w].expected,
                                    !.counted = m, !.shortfall = job[w].expected - m,
                                    !.closing = balance[b] - m]
<1>1. /\ job \in [Workers -> Jobs] /\ job[w] \in Jobs
      /\ Ready(w, "assessed") /\ m <= balance[b]
      /\ \A v \in Workers : WellFormed(v) /\ HoldsItsLocks(v) /\ ReadsAreCurrent(v)
      /\ balance' = [balance EXCEPT ![b] = @ - m, ![c] = @ + m]
      /\ cut' = [cut EXCEPT ![b] = balance[b] - m]
      /\ moved' = [moved EXCEPT ![b] = NoMoves]
      /\ remit' = [remit EXCEPT ![r] = row]
      /\ Release(w)
      /\ UNCHANGED <<owner, count>>
      /\ balance \in [Boxes -> Int]
      /\ moved \in [RouteBoxes -> Moves]
      /\ cut \in [RouteBoxes -> Nat]
      /\ remit \in [Remittances -> RemittanceRows]
      /\ NoOverdraft /\ LedgerAddsUp /\ ClosedWithinDebt
      /\ RemittancesHaveBox /\ ReceptionsAreSquare
  BY DEF Receive, CanReceive, LedgerInv, TypeOK
<1>2. /\ b \in RouteBoxes /\ b \in Boxes /\ holder[b] = w
      /\ r \in Remittances /\ holder[r] = w /\ remit[r].status = "SUBMITTED"
      /\ c \in OfficeBoxes /\ c \in Boxes /\ c \notin RouteBoxes
      /\ m \in Nat
      /\ balance[b] \in Int /\ job[w].expected = balance[b]
  BY <1>1, BoxFacts DEF WellFormed, HoldsItsLocks, ReadsAreCurrent, Ready, Jobs
<1>3. job' = [job EXCEPT ![w] = Idle]
  <2>1. ASSUME NEW v \in Workers, v # w, job[v].at = "inserted", job[v].box = b
        PROVE  FALSE
    <3>1. job[v].op = "pix" => b \in BankBoxes
      BY <1>1, <2>1 DEF WellFormed
    <3>2. job[v].op = "pay" => holder[b] = v
      BY <1>1, <2>1 DEF HoldsItsLocks, LockingOps
    <3>3. QED
      BY <1>1, <1>2, <2>1, <3>1, <3>2, BoxFacts DEF WellFormed
  <2>2. job' = [v \in Workers |-> IF v = w THEN Idle
                 ELSE IF job[v].at = "inserted" /\ job[v].box = b
                      THEN [job[v] EXCEPT !.before = TRUE] ELSE job[v]]
    BY DEF Receive
  <2>3. QED
    BY <1>1, <2>1, <2>2
<1>4. \A x \in Boxes : balance'[x] = IF x = b THEN balance[b] - m
                                    ELSE IF x = c THEN balance[c] + m ELSE balance[x]
  BY <1>1, <1>2
<1>5. \A x \in RouteBoxes :
        /\ cut'[x] = IF x = b THEN balance[b] - m ELSE cut[x]
        /\ moved'[x] = IF x = b THEN NoMoves ELSE moved[x]
  BY <1>1
<1>6. NoMoves \in Moves /\ NoMoves.in = 0 /\ NoMoves.out = 0 /\ NoMoves.closed = 0
  BY DEF NoMoves, Moves
<1>7. balance[b] - m \in Nat
  BY <1>1, <1>2
<1>8. BookOK'
  <2>1. BookTypes'
    BY <1>1, <1>2, <1>6, <1>7 DEF BookTypes
  <2>2. NoOverdraft'
    BY <1>1, <1>2, <1>4, <1>7 DEF NoOverdraft
  <2>3. LedgerAddsUp' /\ ClosedWithinDebt'
    <3>1. SUFFICES ASSUME NEW x \in RouteBoxes
                   PROVE  /\ balance'[x] = cut'[x] + moved'[x].in - moved'[x].out
                          /\ moved'[x].closed <= cut'[x]
      BY DEF LedgerAddsUp, ClosedWithinDebt
    <3>2. CASE x = b
      BY <1>2, <1>4, <1>5, <1>6, <1>7, <3>2
    <3>3. CASE x # b
      BY <1>1, <1>2, <1>4, <1>5, <3>3, BoxFacts DEF LedgerAddsUp, ClosedWithinDebt
    <3>4. QED
      BY <3>2, <3>3
  <2>4. QED
    BY <2>1, <2>2, <2>3 DEF BookOK
<1>9. KeepsBoxes(w)
  <2>1. \A x \in RouteBoxes : holder[x] # w =>
          balance'[x] = balance[x] /\ cut'[x] = cut[x] /\ moved'[x] = moved[x]
    BY <1>2, <1>4, <1>5, BoxFacts
  <2>2. \A x \in Boxes : holder[x] # w => balance'[x] >= balance[x]
    BY <1>1, <1>2, <1>4
  <2>3. \A x \in CashBoxes : holder[x] # w => balance'[x] = balance[x]
    <3>1. holder[c] = w \/ m = 0
      BY <1>1, <1>2 DEF HoldsItsLocks, Ready
    <3>2. balance[c] + 0 = balance[c]
      BY <1>1, <1>2
    <3>3. QED
      BY <1>2, <1>4, <3>1, <3>2, BoxFacts
  <2>4. QED
    BY <2>1, <2>2, <2>3 DEF KeepsBoxes
<1>10. /\ row \in RemittanceRows
       /\ row.status = "RECEIVED" /\ row.box = remit[r].box
       /\ row.expected = row.counted + row.shortfall
       /\ row.closing = row.shortfall
  <2>. DEFINE q == remit[r]
              e == balance[b]
              left == e - m
  <2>1. q \in RemittanceRows
    BY <1>1, <1>2
  <2>2. e \in Nat /\ left \in Nat /\ m \in Nat /\ e = m + left
    BY <1>2, <1>7, <1>1
  <2>3. row = [q EXCEPT !.status = "RECEIVED", !.expected = e, !.counted = m,
                        !.shortfall = left, !.closing = left]
    BY <1>2
  <2>. HIDE DEF row, m, left, e, q
  <2>4. /\ row \in RemittanceRows
        /\ row.status = "RECEIVED" /\ row.box = q.box
        /\ row.expected = row.counted + row.shortfall
        /\ row.closing = row.shortfall
    BY <2>1, <2>2, <2>3 DEF RemittanceRows
  <2>5. QED
    BY <2>4 DEF q
<1>. HIDE DEF row
<1>11. /\ remit' \in [Remittances -> RemittanceRows]
       /\ remit'[r] = row
       /\ \A q \in Remittances : q # r => remit'[q] = remit[q]
  BY <1>1, <1>2, <1>10
<1>12. RowsOK'
  BY <1>1, <1>2, <1>10, <1>11
  DEF LedgerInv, TypeOK, RowsOK, RemittancesHaveBox, ReceptionsAreSquare
<1>13. KeepsRows(w)
  BY <1>1, <1>2, <1>10, <1>11 DEF KeepsRows
<1>14. QED
  BY <1>1, <1>3, <1>8, <1>9, <1>12, <1>13, EndKeeps
-----------------------------------------------------------------------------
(* The steps of no transaction.                                             *)

LEMMA OutsideKeeps ==
  ASSUME LedgerInv, UNCHANGED <<book, remit, holder, job>>, RowsOK',
         KeepsRows(Nobody)
  PROVE  LedgerInv'
<1>1. BookOK'
  BY DEF LedgerInv, TypeOK, BookOK, BookTypes, book, NoOverdraft, LedgerAddsUp,
         ClosedWithinDebt
<1>2. \A b \in Boxes : balance[b] \in Int
  BY DEF LedgerInv, TypeOK
<1>3. Frame(Nobody)
  BY <1>2 DEF Frame, KeepsBoxes, KeepsJobs, book
<1>4. \A v \in Workers : v # Nobody
  BY LedgerAssumption
<1>5. \A v \in Workers : WorkerOK(v)'
  BY <1>1, <1>3, <1>4, OthersKeep DEF BookOK
<1>6. job' \in [Workers -> Jobs] /\ holder' \in [Locks -> Workers \cup {Nobody}]
  BY DEF LedgerInv, TypeOK
<1>7. QED
  BY <1>1, <1>5, <1>6 DEF LedgerInv, TypeOK, BookOK, BookTypes, RowsOK, WorkerOK

LEMMA TakeCountKeeps ==
  ASSUME LedgerInv, NEW k \in Counts, NEW b \in Boxes, NEW m \in Amounts \cup {0},
         TakeCount(k, b, m)
  PROVE  LedgerInv'
<1>. DEFINE row == [box |-> b, system |-> balance[b], counted |-> m, adjusted |-> FALSE]
<1>1. /\ count[k].box = 0 /\ count' = [count EXCEPT ![k] = row]
      /\ UNCHANGED <<book, owner, remit, holder, job>>
      /\ count \in [Counts -> CountRows]
      /\ balance[b] \in Int /\ m \in Nat
  BY LedgerAssumption DEF TakeCount, LedgerInv, TypeOK
<1>2. row \in CountRows
  BY <1>1 DEF CountRows
<1>. HIDE DEF row
<1>3. /\ count' \in [Counts -> CountRows]
      /\ \A q \in Counts : count[q].box # 0 => count'[q].box = count[q].box
  BY <1>1, <1>2
<1>4. RowsOK' /\ KeepsRows(Nobody)
  BY <1>1, <1>3
  DEF LedgerInv, TypeOK, RowsOK, RemittancesHaveBox, ReceptionsAreSquare, KeepsRows
<1>5. QED
  BY <1>1, <1>4, OutsideKeeps

LEMMA ReassignKeeps ==
  ASSUME LedgerInv, NEW b \in RouteBoxes, NEW c \in Collectors, Reassign(b, c)
  PROVE  LedgerInv'
<1>1. RowsOK' /\ KeepsRows(Nobody)
  BY DEF Reassign, LedgerInv, TypeOK, RowsOK, RemittancesHaveBox, ReceptionsAreSquare,
         KeepsRows
<1>2. QED
  BY <1>1, OutsideKeeps DEF Reassign
-----------------------------------------------------------------------------
(* The theorems.                                                            *)

LEMMA InitHolds == Init => LedgerInv
<1>. SUFFICES ASSUME Init PROVE LedgerInv
  OBVIOUS
<1>1. /\ NoMoves \in Moves /\ NoRemittance \in RemittanceRows /\ NoCount \in CountRows
      /\ NoMoves.in = 0 /\ NoMoves.out = 0 /\ NoMoves.closed = 0
      /\ NoRemittance.status = "NONE"
  BY DEF NoMoves, Moves, NoRemittance, RemittanceRows, NoCount, CountRows
<1>2. TypeOK
  BY <1>1, IdleTyped DEF Init, TypeOK
<1>3. NoOverdraft /\ LedgerAddsUp /\ ClosedWithinDebt
  BY <1>1, BoxFacts DEF Init, NoOverdraft, LedgerAddsUp, ClosedWithinDebt
<1>4. RemittancesHaveBox /\ ReceptionsAreSquare
  BY <1>1 DEF Init, RemittancesHaveBox, ReceptionsAreSquare
<1>5. \A w \in Workers : WellFormed(w) /\ HoldsItsLocks(w) /\ ReadsAreCurrent(w)
  BY DEF Init, WellFormed, HoldsItsLocks, ReadsAreCurrent, Idle, LockingOps
<1>6. QED
  BY <1>2, <1>3, <1>4, <1>5 DEF LedgerInv

LEMMA StutterKeeps ==
  ASSUME LedgerInv, UNCHANGED vars
  PROVE  LedgerInv'
<1>1. RowsOK' /\ KeepsRows(Nobody)
  BY DEF vars, LedgerInv, TypeOK, RowsOK, RemittancesHaveBox, ReceptionsAreSquare,
         KeepsRows
<1>2. QED
  BY <1>1, OutsideKeeps DEF vars, book

LEMMA StatementKeeps ==
  ASSUME LedgerInv, NEW w \in Workers, Statement(w)
  PROVE  LedgerInv'
<1>1. CASE \/ Insert(w) \/ ReadBalance(w) \/ ReadMovements(w) \/ FindOpenRemittance(w)
            \/ LoadOpen(w) \/ Assess(w)
  BY <1>1, InsertKeeps, ReadBalanceKeeps, ReadMovementsKeeps, FindOpenKeeps, LoadOpenKeeps,
     AssessKeeps
<1>2. CASE CommitEntry(w) \/ PostOut(w) \/ PostTransfer(w) \/ Adjust(w) \/ CloseDebt(w)
  BY <1>2, CommitEntryKeeps, PostOutKeeps, PostTransferKeeps, AdjustKeeps, CloseDebtKeeps
<1>3. CASE Receive(w) \/ \E r \in Remittances : Submit(w, r)
  BY <1>3, ReceiveKeeps, SubmitKeeps
<1>4. CASE Answer(w) \/ Reject(w)
  BY <1>4, RollbackKeeps DEF Answer, Reject
<1>5. QED
  BY <1>1, <1>2, <1>3, <1>4 DEF Statement

LEMMA NextKeeps ==
  ASSUME LedgerInv, [Next]_vars
  PROVE  LedgerInv'
<1>1. ASSUME NEW w \in Workers, Request(w) \/ Lock(w) \/ Statement(w) \/ Abort(w)
      PROVE  LedgerInv'
  BY <1>1, RequestKeeps, LockKeeps, StatementKeeps, RollbackKeeps DEF Abort
<1>2. QED
  BY <1>1, TakeCountKeeps, ReassignKeeps, StutterKeeps DEF Next

\* The invariant of the ledger: the locks of the transactions are what their
\* handlers count on, what each has read is still so, and the ledger of every
\* route box adds up without overdraft (cash-ledger.ts, post under lockCashBox).
THEOREM LedgerSafe == Spec => []LedgerInv
<1>1. LedgerInv /\ [Next]_vars => LedgerInv'
  BY NextKeeps
<1>2. QED
  BY <1>1, InitHolds, PTL DEF Spec

\* No box is overdrawn, with any number of transactions and any amounts
\* (assertCanPost, decided on a balance read under the lock of the box).
THEOREM NeverOverdrawn == Spec => []NoOverdraft
<1>1. LedgerInv => NoOverdraft
  BY DEF LedgerInv
<1>2. QED
  BY <1>1, LedgerSafe, PTL

\* The last cut of a route box and its movements since always add up to its
\* balance (receive dates the delivery and the cut under the lock of the box).
THEOREM LedgerAlwaysAddsUp == Spec => []LedgerAddsUp
<1>1. LedgerInv => LedgerAddsUp
  BY DEF LedgerInv
<1>2. QED
  BY <1>1, LedgerSafe, PTL

\* A received remittance is square and its cut is the debt that stays
\* (assessReception and receive, collector-remittance.ts).
THEOREM ReceptionsAlwaysSquare == Spec => []ReceptionsAreSquare
<1>1. LedgerInv => ReceptionsAreSquare
  BY DEF LedgerInv
<1>2. QED
  BY <1>1, LedgerSafe, PTL

\* The closures of debt never exceed the debt carried from the last cut, however
\* many transactions close it at once (buildDebtClosure under lockCashBox).
THEOREM ClosuresWithinDebt == Spec => []ClosedWithinDebt
<1>1. LedgerInv => ClosedWithinDebt
  BY DEF LedgerInv
<1>2. QED
  BY <1>1, LedgerSafe, PTL

\* A declaration or the closure of a debt loads the state of the box under its lock,
\* and finds that the last cut plus what came in and went out since is the balance,
\* however many other transactions are in flight (loadRouteBoxState,
\* route-box-state.ts:91).
THEOREM SummaryAlwaysMatches == Spec => []SummaryMatchesLedger
<1>1. LedgerInv => SummaryMatchesLedger
  BY BoxFacts DEF LedgerInv, WellFormed, ReadsAreCurrent, Consistent, SummaryMatchesLedger
<1>2. QED
  BY <1>1, LedgerSafe, PTL

\* The figures of a received remittance are never rewritten, not even by a second
\* reception of it that was waiting for its row (loadOpenInScope FOR UPDATE).
THEOREM ReceivedStaysReceived == Spec => ReceivedIsFinal
<1>1. ASSUME LedgerInv, [Next]_vars, NEW r \in Remittances, remit[r].status = "RECEIVED"
      PROVE  remit'[r] = remit[r]
  <2>1. ASSUME NEW w \in Workers, Receive(w)
        PROVE  remit'[r] = remit[r]
    <3>1. remit[job[w].ref].status = "SUBMITTED" /\ remit \in [Remittances -> RemittanceRows]
      BY <1>1, <2>1 DEF LedgerInv, TypeOK, WellFormed, Receive, Ready
    <3>2. QED
      BY <1>1, <2>1, <3>1 DEF Receive
  <2>2. ASSUME NEW w \in Workers, NEW q \in Remittances, Submit(w, q)
        PROVE  remit'[r] = remit[r]
    BY <1>1, <2>2 DEF Submit, LedgerInv, TypeOK
  <2>3. ASSUME NEW w \in Workers, Request(w) \/ Lock(w) \/ Abort(w)
        PROVE  remit' = remit
    BY <2>3 DEF Request, StartPay, StartPix, StartOut, StartTransfer, StartAdjust,
                StartSubmit, StartMine, StartClose, StartReceive, StartWithRouteBox,
                Start, Lock, Abort
  <2>4. ASSUME NEW w \in Workers, Statement(w), ~ Receive(w),
               ~ \E q \in Remittances : Submit(w, q)
        PROVE  remit' = remit
    BY <2>4 DEF Statement, Insert, CommitEntry, ReadBalance, PostOut, PostTransfer,
                Adjust, ReadMovements, FindOpenRemittance, CloseDebt, Answer, LoadOpen,
                Assess, Reject
  <2>5. ASSUME NEW w \in Workers, Statement(w)
        PROVE  remit'[r] = remit[r]
    BY <2>1, <2>2, <2>4, <2>5
  <2>6. QED
    BY <1>1, <2>3, <2>5 DEF Next, vars, TakeCount, Reassign
<1>2. LedgerInv /\ [Next]_vars =>
        [\A r \in Remittances : remit[r].status = "RECEIVED" => remit'[r] = remit[r]]_vars
  BY <1>1
<1>3. QED
  BY <1>2, LedgerSafe, PTL DEF Spec, ReceivedIsFinal

\* Only an adjustment touches the mark of a count, and only a closure raises what
\* was closed in a box.
LEMMA RequestTouches ==
  ASSUME NEW w, Request(w)
  PROVE  /\ UNCHANGED <<book, owner, remit, count, holder>>
         /\ \E j : job' = [job EXCEPT ![w] = j]
  BY DEF Request, StartPay, StartPix, StartOut, StartTransfer, StartAdjust, StartSubmit,
         StartMine, StartClose, StartReceive, StartWithRouteBox, Start

LEMMA CountsTouched ==
  ASSUME LedgerInv, [Next]_vars, NEW k \in Counts, count'[k].adjusted, ~ count[k].adjusted
  PROVE  \E w \in Workers : Adjust(w) /\ job[w].ref = k
<1>1. count \in [Counts -> CountRows]
  BY DEF LedgerInv, TypeOK
<1>2. ASSUME NEW w \in Workers, Request(w) \/ Lock(w) \/ Abort(w)
      PROVE  FALSE
  BY <1>2, RequestTouches DEF Lock, Abort
<1>3. ASSUME NEW w \in Workers, Statement(w), ~ Adjust(w)
      PROVE  FALSE
  BY <1>3 DEF Statement, Insert, CommitEntry, ReadBalance, PostOut, PostTransfer,
              ReadMovements, FindOpenRemittance, Submit, CloseDebt, Answer, LoadOpen, Assess,
              Receive, Reject
<1>4. ASSUME NEW q \in Counts, NEW b \in Boxes, NEW m \in Amounts \cup {0},
             TakeCount(q, b, m)
      PROVE  FALSE
  BY <1>1, <1>4 DEF TakeCount
<1>5. PICK w \in Workers : Adjust(w)
  BY <1>2, <1>3, <1>4 DEF Next, vars, Reassign
<1>6. job[w].ref = k
  <2>1. job[w].ref \in Counts
    BY <1>5 DEF Adjust, LedgerInv, WellFormed
  <2>2. count' = [count EXCEPT ![job[w].ref].adjusted = TRUE]
    BY <1>5 DEF Adjust
  <2>3. QED
    BY <1>1, <2>1, <2>2
<1>7. QED
  BY <1>5, <1>6

\* An adjustment leaves a cash box with what was counted, however many movements
\* there were since the count: it is refused unless the balance is still the
\* counted one, and nobody else moves a cash box that is locked (adjustToCount).
THEOREM AdjustmentsSeal == Spec => AdjustmentSealsCount
<1>1. ASSUME LedgerInv, [Next]_vars, NEW k \in Counts,
             count'[k].adjusted, ~ count[k].adjusted, count[k].box \in CashBoxes
      PROVE  balance'[count[k].box] = count[k].counted
  <2>1. PICK w \in Workers : Adjust(w) /\ job[w].ref = k
    BY <1>1, CountsTouched
  <2>. DEFINE b == job[w].box
              d == count[k].counted - count[k].system
              e == IF d > 0 THEN [NoMoves EXCEPT !.in = d]
                   ELSE [NoMoves EXCEPT !.out = - d]
  <2>2. /\ Ready(w, "read") /\ job[w].op = "adjust"
        /\ job[w].balance = count[k].system
        /\ Post(b, e)
        /\ WellFormed(w) /\ ReadsAreCurrent(w)
    BY <1>1, <2>1 DEF Adjust, CanAdjust, LedgerInv
  <2>3. /\ b = count[k].box /\ b \in CashBoxes /\ b \in Boxes
        /\ balance[b] = count[k].system
    BY <1>1, <2>1, <2>2 DEF WellFormed, ReadsAreCurrent, Ready
  <2>4. /\ count[k].counted \in Nat /\ count[k].system \in Int /\ d \in Int
        /\ balance \in [Boxes -> Int]
    BY <1>1 DEF LedgerInv, TypeOK, CountRows
  <2>5. e.in \in Int /\ e.out \in Int /\ e.in - e.out = d
    BY <2>4 DEF NoMoves
  <2>6. balance'[b] = balance[b] + e.in - e.out
    BY <2>2, <2>3, <2>4 DEF Post
  <2>. HIDE DEF e, b
  <2>7. balance'[b] = count[k].counted
    BY <2>3, <2>4, <2>5, <2>6
  <2>8. QED
    BY <2>3, <2>7
<1>2. LedgerInv /\ [Next]_vars =>
        [\A k \in Counts :
           count'[k].adjusted /\ ~ count[k].adjusted /\ count[k].box \in CashBoxes =>
           balance'[count[k].box] = count[k].counted]_vars
  BY <1>1
<1>3. QED
  BY <1>2, LedgerSafe, PTL DEF Spec, AdjustmentSealsCount

-----------------------------------------------------------------------------
(* Closures of debt and remittances, while boxes keep their collector.      *)

\* Who submits or closes is the collector of the box, and so is who submitted
\* the remittance that waits.
OwnersRule ==
  /\ \A w \in Workers :
       job[w].op \in {"submit", "close"} => job[w].who = owner[job[w].box]
  /\ \A r \in Remittances :
       remit[r].status = "SUBMITTED" => remit[r].collector = owner[remit[r].box]

LEMMA OwnersStart ==
  ASSUME LedgerInv, OwnersRule, NEW w \in Workers, NEW j, Start(w, j),
         j.op \in {"submit", "close"} => j.who = owner[j.box]
  PROVE  OwnersRule'
<1>1. job \in [Workers -> Jobs]
  BY DEF LedgerInv, TypeOK
<1>2. QED
  BY <1>1 DEF Start, OwnersRule

\* A step that keeps the owners and the rows, and after which a transaction is
\* over, or is about the same collector and box, or is a reception.
LEMMA OwnersSame ==
  ASSUME OwnersRule, UNCHANGED owner,
         \A r \in Remittances :
           remit'[r] = remit[r] \/ remit'[r].status # "SUBMITTED"
           \/ remit'[r].collector = owner[remit'[r].box],
         \A v \in Workers :
           \/ job'[v].op \notin {"submit", "close"}
           \/ /\ job'[v].op = job[v].op /\ job'[v].who = job[v].who
              /\ job'[v].box = job[v].box
  PROVE  OwnersRule'
  BY DEF OwnersRule

LEMMA OwnersRequest ==
  ASSUME LedgerInv, OwnersRule, NEW w \in Workers, Request(w)
  PROVE  OwnersRule'
<1>1. ASSUME NEW op \in {"submit", "close"}, NEW b \in RouteBoxes, NEW c \in Collectors,
             NEW m, StartWithRouteBox(w, op, c, b, m)
      PROVE  OwnersRule'
  <2>. DEFINE j == [Idle EXCEPT !.at = "begin", !.op = op, !.box = b, !.who = c,
                                !.amount = m, !.want = {b}]
  <2>1. Start(w, j) /\ owner[b] = c
    BY <1>1 DEF StartWithRouteBox
  <2>2. j.who = c /\ j.box = b
    BY DEF Idle
  <2>. HIDE DEF j
  <2>3. QED
    BY <2>1, <2>2, OwnersStart
<1>2. ASSUME NEW j, Start(w, j), j.op \notin {"submit", "close"}
      PROVE  OwnersRule'
  BY <1>2, OwnersStart
<1>3. ASSUME NEW b \in Boxes, NEW m \in Amounts,
             StartPay(w, b, m) \/ StartPix(w, b, m) \/ StartOut(w, b, m)
      PROVE  OwnersRule'
  BY <1>2, <1>3 DEF StartPay, StartPix, StartOut, Idle
<1>4. ASSUME NEW b \in Boxes, NEW c \in Boxes, NEW m \in Amounts, StartTransfer(w, b, c, m)
      PROVE  OwnersRule'
  BY <1>2, <1>4 DEF StartTransfer, Idle
<1>5. ASSUME NEW k \in Counts, StartAdjust(w, k)
      PROVE  OwnersRule'
  BY <1>2, <1>5 DEF StartAdjust, Idle
<1>6. ASSUME NEW b \in RouteBoxes, NEW c \in Collectors, StartMine(w, c, b)
      PROVE  OwnersRule'
  BY <1>2, <1>6 DEF StartMine, Idle
<1>7. ASSUME NEW r \in Remittances, NEW c \in OfficeBoxes, NEW m \in Amounts \cup {0},
             StartReceive(w, r, c, m)
      PROVE  OwnersRule'
  BY <1>2, <1>7 DEF StartReceive, Idle
<1>8. QED
  BY <1>1, <1>3, <1>4, <1>5, <1>6, <1>7 DEF Request, StartSubmit, StartClose

LEMMA OwnersStep ==
  ASSUME Reassigns = FALSE, LedgerInv, OwnersRule, [Next]_vars
  PROVE  OwnersRule'
<1>0. /\ job \in [Workers -> Jobs]
      /\ remit \in [Remittances -> RemittanceRows]
      /\ \A w \in Workers : WellFormed(w)
  BY DEF LedgerInv, TypeOK
<1>1. ASSUME NEW w \in Workers,
             \/ Lock(w) \/ Insert(w) \/ ReadBalance(w) \/ ReadMovements(w)
             \/ FindOpenRemittance(w) \/ Assess(w)
      PROVE  OwnersRule'
  <2>1. /\ UNCHANGED <<owner, remit>>
        /\ \A v \in Workers : /\ job'[v].op = job[v].op /\ job'[v].who = job[v].who
                             /\ job'[v].box = job[v].box
    BY <1>0, <1>1 DEF Lock, Insert, ReadBalance, ReadMovements, FindOpenRemittance, Assess,
                      Jobs
  <2>2. QED
    BY <2>1, OwnersSame
<1>2. ASSUME NEW w \in Workers, LoadOpen(w)
      PROVE  OwnersRule'
  <2>1. /\ UNCHANGED <<owner, remit>>
        /\ \A v \in Workers \ {w} : job'[v] = job[v]
        /\ job'[w].op = "receive"
    BY <1>0, <1>2 DEF LoadOpen, Jobs
  <2>2. QED
    BY <2>1, OwnersSame
<1>3. ASSUME NEW w \in Workers, Finish(w), UNCHANGED <<owner, remit>>
      PROVE  OwnersRule'
  <2>1. \A v \in Workers : job'[v].op = "none" \/ job'[v] = job[v]
    BY <1>0, <1>3 DEF Finish, Idle
  <2>2. QED
    BY <1>3, <2>1, OwnersSame
<1>4. ASSUME NEW w \in Workers, NEW r \in Remittances, Submit(w, r)
      PROVE  OwnersRule'
  <2>1. /\ job[w].who = owner[job[w].box] /\ UNCHANGED owner
        /\ remit' = [remit EXCEPT ![r].status = "SUBMITTED", ![r].collector = job[w].who,
                                  ![r].box = job[w].box]
    BY <1>4 DEF Submit, OwnersRule
  <2>2. remit'[r].collector = job[w].who /\ remit'[r].box = job[w].box
    BY <1>0, <2>1 DEF RemittanceRows
  <2>3. \A q \in Remittances : q # r => remit'[q] = remit[q]
    BY <1>0, <2>1
  <2>4. \A v \in Workers : job'[v].op = "none" \/ job'[v] = job[v]
    BY <1>0, <1>4 DEF Submit, Finish, Idle
  <2>5. QED
    BY <2>1, <2>2, <2>3, <2>4, OwnersSame
<1>5. ASSUME NEW w \in Workers, Receive(w)
      PROVE  OwnersRule'
  <2>1. job[w].ref \in Remittances /\ UNCHANGED owner
    BY <1>0, <1>5 DEF Receive, WellFormed, Ready
  <2>2. remit'[job[w].ref].status = "RECEIVED"
    BY <1>0, <1>5, <2>1 DEF Receive, RemittanceRows
  <2>3. \A q \in Remittances : q # job[w].ref => remit'[q] = remit[q]
    BY <1>0, <1>5, <2>1 DEF Receive
  <2>4. \A v \in Workers :
          \/ job'[v].op = "none"
          \/ job'[v].op = job[v].op /\ job'[v].who = job[v].who /\ job'[v].box = job[v].box
    BY <1>0, <1>5 DEF Receive, Jobs, Idle
  <2>5. QED
    BY <2>1, <2>2, <2>3, <2>4, OwnersSame
<1>6. ASSUME NEW w \in Workers, Statement(w)
      PROVE  OwnersRule'
  BY <1>1, <1>2, <1>3, <1>4, <1>5, <1>6
  DEF Statement, CommitEntry, PostOut, PostTransfer, Adjust, CloseDebt, Answer, Reject
<1>7. ASSUME UNCHANGED <<owner, remit, job>>
      PROVE  OwnersRule'
  BY <1>7 DEF OwnersRule
<1>8. ASSUME NEW w \in Workers, Request(w) \/ Lock(w) \/ Statement(w) \/ Abort(w)
      PROVE  OwnersRule'
  BY <1>1, <1>3, <1>6, <1>8, OwnersRequest DEF Abort
<1>9. QED
  BY <1>7, <1>8 DEF Next, TakeCount, Reassign, vars

LEMMA ClosuresTouched ==
  ASSUME LedgerInv, [Next]_vars, NEW b \in RouteBoxes, moved'[b].closed > moved[b].closed
  PROVE  \E w \in Workers : CloseDebt(w) /\ job[w].box = b
<1>0. /\ moved \in [RouteBoxes -> Moves]
      /\ moved[b].closed \in Nat
      /\ moved[b].closed + 0 = moved[b].closed
  BY DEF LedgerInv, TypeOK, Moves
<1>1. ASSUME moved' = moved \/ moved'[b].closed = moved[b].closed \/ moved'[b].closed = 0
      PROVE  FALSE
  BY <1>0, <1>1
<1>2. ASSUME NEW x, NEW e, Post(x, e), x # b \/ e.closed = 0
      PROVE  FALSE
  <2>1. moved'[b] = IF b = x THEN Plus(moved[b], e) ELSE moved[b]
    BY <1>2 DEF Post
  <2>2. moved'[b].closed = moved[b].closed
    BY <1>0, <1>2, <2>1 DEF Plus
  <2>3. QED
    BY <1>1, <2>2
<1>3. ASSUME NEW w \in Workers, CommitEntry(w) PROVE FALSE
  <2>. DEFINE e == [NoMoves EXCEPT !.in = job[w].amount, !.collected = job[w].amount]
  <2>1. e.closed = 0
    BY DEF NoMoves
  <2>. HIDE DEF e
  <2>2. Post(job[w].box, e) \/ moved' = moved
    BY <1>3 DEF CommitEntry, e
  <2>3. QED
    BY <1>1, <1>2, <2>1, <2>2
<1>4. ASSUME NEW w \in Workers, PostOut(w) PROVE FALSE
  <2>. DEFINE e == [NoMoves EXCEPT !.out = job[w].amount]
  <2>1. e.closed = 0
    BY DEF NoMoves
  <2>. HIDE DEF e
  <2>2. Post(job[w].box, e)
    BY <1>4 DEF PostOut, e
  <2>3. QED
    BY <1>2, <2>1, <2>2
<1>5. ASSUME NEW w \in Workers, PostTransfer(w) PROVE FALSE
  <2>. DEFINE c == job[w].to
              m == job[w].amount
              e == [NoMoves EXCEPT !.out = IF b = job[w].box THEN m ELSE 0,
                                   !.in = IF b = c THEN m ELSE 0]
  <2>1. moved'[b] = Plus(moved[b], e)
    BY <1>5 DEF PostTransfer, Transfer
  <2>2. e.closed = 0
    BY DEF NoMoves
  <2>. HIDE DEF e
  <2>3. moved'[b].closed = moved[b].closed
    BY <1>0, <2>1, <2>2 DEF Plus
  <2>4. QED
    BY <1>1, <2>3
<1>6. ASSUME NEW w \in Workers, Adjust(w) PROVE FALSE
  <2>. DEFINE d == count[job[w].ref].counted - count[job[w].ref].system
              e == IF d > 0 THEN [NoMoves EXCEPT !.in = d]
                   ELSE [NoMoves EXCEPT !.out = - d]
  <2>1. e.closed = 0
    BY DEF NoMoves
  <2>. HIDE DEF e
  <2>2. Post(job[w].box, e)
    BY <1>6 DEF Adjust, e
  <2>3. QED
    BY <1>2, <2>1, <2>2
<1>7. ASSUME NEW w \in Workers, Receive(w) PROVE FALSE
  <2>1. moved'[b] = moved[b] \/ moved'[b] = NoMoves
    BY <1>0, <1>7 DEF Receive
  <2>2. QED
    BY <1>1, <2>1 DEF NoMoves
<1>8. ASSUME NEW w \in Workers, Statement(w), ~ CloseDebt(w) PROVE FALSE
  BY <1>1, <1>3, <1>4, <1>5, <1>6, <1>7, <1>8
  DEF Statement, Insert, ReadBalance, ReadMovements, FindOpenRemittance, Submit, Answer,
      LoadOpen, Assess, Reject, book
<1>9. ASSUME NEW w \in Workers, Request(w) \/ Lock(w) \/ Abort(w) PROVE FALSE
  BY <1>1, <1>9, RequestTouches DEF Lock, Abort, book
<1>10. PICK w \in Workers : CloseDebt(w)
  BY <1>1, <1>8, <1>9 DEF Next, TakeCount, Reassign, vars, book
<1>11. job[w].box = b
  BY <1>2, <1>10 DEF CloseDebt
<1>12. QED
  BY <1>10, <1>11

\* A closure that found no remittance of its collector decides on a box of which none
\* waits, from the read until it is written.
NoneWaits(w) ==
  job[w].at = "read" /\ job[w].op = "close" /\ ~ job[w].open =>
    \A r \in Remittances : remit[r].box = job[w].box => remit[r].status # "SUBMITTED"

OpenRule == \A w \in Workers : NoneWaits(w)

\* A step after which no more remittances wait, and no more closures are decided.
LEMMA OpenSame ==
  ASSUME OpenRule, NEW v \in Workers,
         \A r \in Remittances : remit'[r] = remit[r] \/ remit'[r].status # "SUBMITTED",
         \/ job'[v].at # "read"
         \/ job'[v].op # "close"
         \/ /\ job'[v].at = job[v].at /\ job'[v].op = job[v].op
            /\ job'[v].box = job[v].box /\ job'[v].open = job[v].open
  PROVE  NoneWaits(v)'
  BY DEF OpenRule, NoneWaits

LEMMA OpenRequest ==
  ASSUME LedgerInv, OpenRule, NEW w \in Workers, Request(w)
  PROVE  OpenRule'
<1>1. \E j : j.at = "begin" /\ Start(w, j)
  <2>1. ASSUME NEW op, NEW c \in Collectors, NEW b \in RouteBoxes, NEW m,
               StartWithRouteBox(w, op, c, b, m)
        PROVE  \E j : j.at = "begin" /\ Start(w, j)
    BY <2>1 DEF StartWithRouteBox, Idle
  <2>2. ASSUME NEW c \in Collectors, NEW b \in RouteBoxes, StartMine(w, c, b)
        PROVE  \E j : j.at = "begin" /\ Start(w, j)
    BY <2>2 DEF StartMine, Idle
  <2>3. ASSUME NEW b \in Boxes, NEW m \in Amounts,
               StartPay(w, b, m) \/ StartPix(w, b, m) \/ StartOut(w, b, m)
        PROVE  \E j : j.at = "begin" /\ Start(w, j)
    BY <2>3 DEF StartPay, StartPix, StartOut, Idle
  <2>4. ASSUME NEW b \in Boxes, NEW c \in Boxes, NEW m \in Amounts, StartTransfer(w, b, c, m)
        PROVE  \E j : j.at = "begin" /\ Start(w, j)
    BY <2>4 DEF StartTransfer, Idle
  <2>5. ASSUME NEW k \in Counts, StartAdjust(w, k)
        PROVE  \E j : j.at = "begin" /\ Start(w, j)
    BY <2>5 DEF StartAdjust, Idle
  <2>6. ASSUME NEW r \in Remittances, NEW c \in OfficeBoxes, NEW m \in Amounts \cup {0},
               StartReceive(w, r, c, m)
        PROVE  \E j : j.at = "begin" /\ Start(w, j)
    BY <2>6 DEF StartReceive, Idle
  <2>7. QED
    BY <2>1, <2>2, <2>3, <2>4, <2>5, <2>6 DEF Request, StartSubmit, StartClose
<1>2. /\ \A v \in Workers : job'[v].at = "begin" \/ job'[v] = job[v]
      /\ UNCHANGED remit
  BY <1>1 DEF Start, LedgerInv, TypeOK
<1>3. QED
  BY <1>2, OpenSame DEF OpenRule

LEMMA OpenStep ==
  ASSUME LedgerInv, OwnersRule, OpenRule, [Next]_vars
  PROVE  OpenRule'
<1>0. /\ job \in [Workers -> Jobs]
      /\ remit \in [Remittances -> RemittanceRows]
      /\ \A w \in Workers : WellFormed(w) /\ HoldsItsLocks(w)
  BY DEF LedgerInv, TypeOK
<1>1. ASSUME NEW w \in Workers,
             \/ Lock(w) \/ Insert(w) \/ ReadBalance(w) \/ ReadMovements(w)
             \/ LoadOpen(w) \/ Assess(w)
      PROVE  OpenRule'
  <2>1. \A v \in Workers :
          \/ job'[v].at # "read"
          \/ job'[v].op # "close"
          \/ /\ job'[v].at = job[v].at /\ job'[v].op = job[v].op
             /\ job'[v].box = job[v].box /\ job'[v].open = job[v].open
    BY <1>0, <1>1
    DEF Lock, Insert, ReadBalance, ReadMovements, LoadOpen, Assess, Jobs, Ready
  <2>2. UNCHANGED remit
    BY <1>1 DEF Lock, Insert, ReadBalance, ReadMovements, LoadOpen, Assess
  <2>3. QED
    BY <2>1, <2>2, OpenSame DEF OpenRule
<1>2. ASSUME NEW w \in Workers, FindOpenRemittance(w)
      PROVE  OpenRule'
  <2>1. /\ UNCHANGED <<owner, remit>>
        /\ \A v \in Workers \ {w} : job'[v] = job[v]
        /\ job'[w].op = job[w].op /\ job'[w].box = job[w].box
        /\ job'[w].open = Open(job[w].who)
    BY <1>0, <1>2 DEF FindOpenRemittance, Jobs
  <2>2. ASSUME job[w].op = "close", ~ Open(job[w].who), NEW r \in Remittances,
               remit[r].box = job[w].box, remit[r].status = "SUBMITTED"
        PROVE  FALSE
    <3>1. job[w].who = owner[job[w].box] /\ remit[r].collector = owner[remit[r].box]
      BY <2>2 DEF OwnersRule
    <3>2. QED
      BY <2>2, <3>1 DEF Open
  <2>3. NoneWaits(w)'
    BY <2>1, <2>2 DEF NoneWaits
  <2>4. QED
    BY <2>1, <2>3, OpenSame DEF OpenRule
<1>3. ASSUME NEW w \in Workers, Finish(w), UNCHANGED remit
      PROVE  OpenRule'
  <2>1. \A v \in Workers : job'[v].at = "idle" \/ job'[v] = job[v]
    BY <1>0, <1>3 DEF Finish, Idle
  <2>2. QED
    BY <1>3, <2>1, OpenSame DEF OpenRule
<1>4. ASSUME NEW w \in Workers, NEW r \in Remittances, Submit(w, r)
      PROVE  OpenRule'
  <2>1. /\ job'[w].at = "idle"
        /\ \A v \in Workers \ {w} : job'[v] = job[v]
        /\ remit'[r].box = job[w].box
        /\ \A q \in Remittances : q # r => remit'[q] = remit[q]
    BY <1>0, <1>4 DEF Submit, Finish, Idle, RemittanceRows
  <2>2. holder[job[w].box] = w
    BY <1>0, <1>4 DEF Submit, Ready, HoldsItsLocks, LockingOps
  <2>3. ASSUME NEW v \in Workers \ {w}, job[v].at = "read", job[v].op = "close"
        PROVE  job[v].box # job[w].box
    <3>1. holder[job[v].box] = v
      BY <1>0, <2>3 DEF HoldsItsLocks, LockingOps
    <3>2. QED
      BY <2>2, <3>1
  <2>4. QED
    BY <2>1, <2>3 DEF OpenRule, NoneWaits
<1>5. ASSUME NEW w \in Workers, Receive(w)
      PROVE  OpenRule'
  <2>1. job[w].ref \in Remittances
    BY <1>0, <1>5 DEF Receive, WellFormed, Ready
  <2>2. remit'[job[w].ref].status = "RECEIVED"
    BY <1>0, <1>5, <2>1 DEF Receive, RemittanceRows
  <2>3. \A q \in Remittances : q # job[w].ref => remit'[q] = remit[q]
    BY <1>0, <1>5, <2>1 DEF Receive
  <2>4. \A v \in Workers :
          \/ job'[v].at = "idle"
          \/ /\ job'[v].at = job[v].at /\ job'[v].op = job[v].op
             /\ job'[v].box = job[v].box /\ job'[v].open = job[v].open
    BY <1>0, <1>5 DEF Receive, Jobs, Idle
  <2>5. QED
    BY <2>2, <2>3, <2>4, OpenSame DEF OpenRule
<1>6. ASSUME NEW w \in Workers, Statement(w)
      PROVE  OpenRule'
  BY <1>1, <1>2, <1>3, <1>4, <1>5, <1>6
  DEF Statement, CommitEntry, PostOut, PostTransfer, Adjust, CloseDebt, Answer, Reject
<1>7. ASSUME UNCHANGED <<remit, job>>
      PROVE  OpenRule'
  BY <1>7 DEF OpenRule, NoneWaits
<1>8. ASSUME NEW w \in Workers, Request(w) \/ Lock(w) \/ Statement(w) \/ Abort(w)
      PROVE  OpenRule'
  BY <1>1, <1>3, <1>6, <1>8, OpenRequest DEF Abort
<1>9. QED
  BY <1>7, <1>8 DEF Next, TakeCount, Reassign, vars

\* While boxes keep their collector, a debt is never closed on a box whose
\* remittance waits to be received, although whether one does was read before the
\* closure is written: the collector who closes is the one who would submit it, and
\* submits under the lock of the box (requireRouteBox, loadRouteBoxState and
\* closeDebt, remittance.repository.ts).
THEOREM NoClosureWhenSubmitted ==
  ASSUME Reassigns = FALSE
  PROVE  Spec => NoClosureWhileOpen
<1>1. Init => OwnersRule /\ OpenRule
  BY DEF Init, OwnersRule, OpenRule, NoneWaits, Idle, NoRemittance
<1>2. LedgerInv /\ OwnersRule /\ OpenRule /\ [Next]_vars => OwnersRule' /\ OpenRule'
  BY OwnersStep, OpenStep
<1>3. ASSUME LedgerInv, OpenRule, [Next]_vars, NEW b \in RouteBoxes,
             moved'[b].closed > moved[b].closed,
             NEW r \in Remittances, remit[r].box = b, remit[r].status = "SUBMITTED"
      PROVE  FALSE
  <2>1. PICK w \in Workers : CloseDebt(w) /\ job[w].box = b
    BY <1>3, ClosuresTouched
  <2>2. NoneWaits(w) /\ job[w].at = "read" /\ job[w].op = "close" /\ ~ job[w].open
    BY <1>3, <2>1 DEF CloseDebt, Ready, CanClose, OpenRule
  <2>3. QED
    BY <1>3, <2>1, <2>2 DEF NoneWaits
<1>4. LedgerInv /\ OpenRule /\ [Next]_vars =>
        [\A b \in RouteBoxes : moved'[b].closed > moved[b].closed =>
           \A r \in Remittances : remit[r].box = b => remit[r].status # "SUBMITTED"]_vars
  BY <1>3
<1>5. QED
  BY <1>1, <1>2, <1>4, LedgerSafe, PTL DEF Spec, NoClosureWhileOpen
=============================================================================
