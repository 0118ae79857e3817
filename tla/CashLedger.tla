----------------------------- MODULE CashLedger -----------------------------
(***************************************************************************)
(* The cash boxes of a tenant, their append-only ledger and the            *)
(* remittances of the collectors (apps/api/src/cash).                      *)
(*                                                                         *)
(* A worker runs one READ COMMITTED transaction; `job' is what it has read *)
(* so far and `want' the advisory locks (of boxes) or row locks (of        *)
(* remittances) it must take before its next statement.  Locks are held    *)
(* until commit.  A box is a number, and numbers compare as box ids do.    *)
(* The ledger is kept as the sums the code reads: the balance of a box,    *)
(* and the movements since the last cut of a route box.                    *)
(***************************************************************************)
EXTENDS Integers, FiniteSets

CONSTANTS
  Workers,      \* transactions that can be open at the same time
  RouteBoxes,   \* CASH boxes assigned to a collector
  OfficeBoxes,  \* CASH boxes of the office
  BankBoxes,    \* BANK boxes, which receive the PIX payments
  Collectors,
  Remittances,  \* rows of collector_remittance that may be used
  Counts,       \* rows of cash_count that may be used
  Amounts,      \* amounts of movements and of counts
  Ops,          \* operations in use
  Reassigns,    \* BOOLEAN: may a route box change its collector?
  MaxMoved,     \* bound on what enters a route box between two cuts, and on
                \* what the other boxes receive
  Nobody

Boxes == RouteBoxes \cup OfficeBoxes \cup BankBoxes
CashBoxes == RouteBoxes \cup OfficeBoxes
Locks == Boxes \cup Remittances

Operations == {"pay", "pix", "out", "transfer", "adjust", "submit", "receive",
               "close", "mine"}

ASSUME LedgerAssumption ==
  /\ Boxes \subseteq Nat \ {0}
  /\ Remittances \subseteq Nat \ {0}
  /\ Boxes \cap Remittances = {}
  /\ RouteBoxes \cap (OfficeBoxes \cup BankBoxes) = {}
  /\ OfficeBoxes \cap BankBoxes = {}
  /\ Counts \subseteq Nat \ {0}
  /\ Amounts \subseteq Nat \ {0}
  /\ Collectors # {}
  /\ Nobody \notin Workers \cup Collectors
  /\ Ops \subseteq Operations
  /\ Reassigns \in BOOLEAN

VARIABLES
  balance,  \* balance[b]: sum of the committed entries of the box
  moved,    \* moved[b]: entries of a route box after its last cut, summed
  cut,      \* cut[b]: closing_balance_minor of that cut, 0 if none
  owner,    \* owner[b]: assigned_to of a route box
  remit,    \* remit[r]: row of collector_remittance
  count,    \* count[k]: row of cash_count, and whether an entry adjusts it
  holder,   \* holder[x]: the transaction that holds lock x
  job       \* job[w]: the transaction open in worker w

vars == <<balance, moved, cut, owner, remit, count, holder, job>>
book == <<balance, moved, cut>>

NoMoves == [in |-> 0, out |-> 0, collected |-> 0, closed |-> 0]

NoRemittance == [status |-> "NONE", collector |-> Nobody, box |-> 0,
                 expected |-> 0, counted |-> 0, shortfall |-> 0, closing |-> 0]

NoCount == [box |-> 0, system |-> 0, counted |-> 0, adjusted |-> FALSE]

Idle == [at |-> "idle", op |-> "none", box |-> 0, to |-> 0, amount |-> 0,
         who |-> Nobody, ref |-> 0, want |-> {}, expected |-> 0, debt |-> 0,
         collected |-> FALSE, balance |-> 0, open |-> FALSE, before |-> FALSE]

Init ==
  /\ balance = [b \in Boxes |-> 0]
  /\ moved = [b \in RouteBoxes |-> NoMoves]
  /\ cut = [b \in RouteBoxes |-> 0]
  /\ owner \in [RouteBoxes -> Collectors]
  /\ remit = [r \in Remittances |-> NoRemittance]
  /\ count = [k \in Counts |-> NoCount]
  /\ holder = [x \in Locks |-> Nobody]
  /\ job = [w \in Workers |-> Idle]
-----------------------------------------------------------------------------
(* Opening a transaction, its locks and its end.                            *)

Start(w, fields) ==
  /\ job[w].at = "idle"
  /\ fields.op \in Ops
  /\ job' = [job EXCEPT ![w] = fields]
  /\ UNCHANGED <<book, owner, remit, count, holder>>

\* The locks of a transfer are taken origin first.
NextLockAsGiven(j) ==
  IF j.box \in j.want THEN j.box ELSE CHOOSE x \in j.want : TRUE

\* lockBox in the order of the ids, which is what `sort' does before it.
NextLock(j) == CHOOSE x \in j.want : \A y \in j.want : x <= y

\* lockCashBox, lockBox, or a SELECT ... FOR UPDATE: re-entrant.
Lock(w) ==
  LET x == NextLock(job[w]) IN
  /\ job[w].want # {}
  /\ holder[x] \in {Nobody, w}
  /\ holder' = [holder EXCEPT ![x] = w]
  /\ job' = [job EXCEPT ![w].want = @ \ {x}]
  /\ UNCHANGED <<book, owner, remit, count>>

Release(w) ==
  holder' = [x \in Locks |-> IF holder[x] = w THEN Nobody ELSE holder[x]]

Finish(w) ==
  /\ Release(w)
  /\ job' = [job EXCEPT ![w] = Idle]

\* Worker w has its locks and is at stage s.
Ready(w, s) == job[w].at = s /\ job[w].want = {}

Plus(m, e) == [in |-> m.in + e.in, out |-> m.out + e.out,
               collected |-> m.collected + e.collected,
               closed |-> m.closed + e.closed]

\* An entry that is created and committed at once.
Post(b, e) ==
  /\ balance' = [balance EXCEPT ![b] = @ + e.in - e.out]
  /\ moved' = [x \in RouteBoxes |-> IF x = b THEN Plus(moved[x], e) ELSE moved[x]]
  /\ UNCHANGED cut

\* A bound of the model, not of the code.
RoomFor(b, m) == (IF b \in RouteBoxes THEN moved[b].in ELSE balance[b]) + m <= MaxMoved
-----------------------------------------------------------------------------
(* Money that comes in: a cash payment or movement, and a verified PIX.     *)

\* The cash payment is entered without the lock of its box.
StartPayUnlocked(w, b, m) ==
  /\ RoomFor(b, m)
  /\ Start(w, [Idle EXCEPT !.at = "begin", !.op = "pay", !.box = b, !.amount = m])

\* postCashPaymentToRouteBox, postPaymentToReceivingBox, post with direction IN.
StartPay(w, b, m) ==
  /\ RoomFor(b, m)
  /\ Start(w, [Idle EXCEPT !.at = "begin", !.op = "pay", !.box = b, !.amount = m,
                           !.want = {b}])

\* routeVerifiedPaymentToBox takes no lock.
StartPix(w, b, m) ==
  /\ b \in BankBoxes
  /\ RoomFor(b, m)
  /\ Start(w, [Idle EXCEPT !.at = "begin", !.op = "pix", !.box = b, !.amount = m])

\* The entry gets its created_at now, and is visible when its transaction,
\* which also writes the payment, commits.
Insert(w) ==
  /\ Ready(w, "begin")
  /\ job[w].op \in {"pay", "pix"}
  /\ job' = [job EXCEPT ![w].at = "inserted"]
  /\ UNCHANGED <<book, owner, remit, count, holder>>

CommitEntry(w) ==
  LET b == job[w].box
      m == job[w].amount
  IN
  /\ Ready(w, "inserted")
  /\ IF job[w].before
     THEN balance' = [balance EXCEPT ![b] = @ + m] /\ UNCHANGED <<moved, cut>>
     ELSE Post(b, [NoMoves EXCEPT !.in = m, !.collected = m])
  /\ Finish(w)
  /\ UNCHANGED <<owner, remit, count>>
-----------------------------------------------------------------------------
(* Money that goes out, transfers and adjustments.                          *)

\* post with direction OUT, and postCashOut (expenses, disbursements,
\* commissions).
StartOut(w, b, m) ==
  Start(w, [Idle EXCEPT !.at = "begin", !.op = "out", !.box = b, !.amount = m,
                        !.want = {b}])

StartTransfer(w, b, c, m) ==
  /\ b # c
  /\ RoomFor(c, m)
  /\ Start(w, [Idle EXCEPT !.at = "begin", !.op = "transfer", !.box = b, !.to = c,
                           !.amount = m, !.want = {b, c}])

\* CashCountDrizzleRepository.count: one read of the balance, no lock.
TakeCount(k, b, m) ==
  /\ "adjust" \in Ops
  /\ count[k].box = 0
  /\ count' = [count EXCEPT ![k] = [box |-> b, system |-> balance[b], counted |-> m,
                                    adjusted |-> FALSE]]
  /\ UNCHANGED <<book, owner, remit, holder, job>>

StartAdjust(w, k) ==
  /\ count[k].box # 0
  /\ Start(w, [Idle EXCEPT !.at = "begin", !.op = "adjust", !.box = count[k].box,
                           !.ref = k, !.want = {count[k].box}])

\* balanceOfBox, of the origin.
ReadBalance(w) ==
  /\ \/ Ready(w, "begin") /\ job[w].op \in {"out", "transfer", "adjust"}
     \/ Ready(w, "moved")
  /\ job' = [job EXCEPT ![w].at = IF @ = "moved" THEN "summed" ELSE "read",
                        ![w].balance = balance[job[w].box]]
  /\ UNCHANGED <<book, owner, remit, count, holder>>

\* assertCanPost forgets that a box cannot be overdrawn.
CanPostAnything(j) == TRUE

\* assertCanPost: no overdraft of the balance that was read.
CanPost(j) == j.balance - j.amount >= 0

PostOut(w) ==
  /\ Ready(w, "read")
  /\ job[w].op = "out"
  /\ CanPost(job[w])
  /\ Post(job[w].box, [NoMoves EXCEPT !.out = job[w].amount])
  /\ Finish(w)
  /\ UNCHANGED <<owner, remit, count>>

\* The two entries of postTransferTx.
Transfer(b, c, m) ==
  /\ balance' = [balance EXCEPT ![b] = @ - m, ![c] = @ + m]
  /\ moved' = [x \in RouteBoxes |->
       Plus(moved[x], [NoMoves EXCEPT !.out = IF x = b THEN m ELSE 0,
                                      !.in = IF x = c THEN m ELSE 0])]

PostTransfer(w) ==
  /\ Ready(w, "read")
  /\ job[w].op = "transfer"
  /\ CanPost(job[w])
  /\ Transfer(job[w].box, job[w].to, job[w].amount)
  /\ Finish(w)
  /\ UNCHANGED <<cut, owner, remit, count>>

\* STALE_COUNT is not checked.
CanAdjustStale(j) ==
  ~ count[j.ref].adjusted /\ count[j.ref].counted # count[j.ref].system

\* A count is adjusted once, only if the balance is still the one it was taken
\* against, and only if there is a difference (buildAdjustment).
CanAdjust(j) ==
  /\ ~ count[j.ref].adjusted
  /\ j.balance = count[j.ref].system
  /\ count[j.ref].counted # count[j.ref].system

Adjust(w) ==
  LET k == job[w].ref
      difference == count[k].counted - count[k].system
  IN
  /\ Ready(w, "read")
  /\ job[w].op = "adjust"
  /\ CanAdjust(job[w])
  /\ Post(job[w].box, IF difference > 0 THEN [NoMoves EXCEPT !.in = difference]
                      ELSE [NoMoves EXCEPT !.out = - difference])
  /\ count' = [count EXCEPT ![k].adjusted = TRUE]
  /\ Finish(w)
  /\ UNCHANGED <<owner, remit>>
-----------------------------------------------------------------------------
(* Remittances: loadRouteBoxState and its three users.                      *)

Open(c) == \E r \in Remittances :
  remit[r].status = "SUBMITTED" /\ remit[r].collector = c

\* requireRouteBox runs before the lock.
StartWithRouteBox(w, op, c, b, m) ==
  /\ owner[b] = c
  /\ Start(w, [Idle EXCEPT !.at = "begin", !.op = op, !.box = b, !.who = c,
                           !.amount = m, !.want = {b}])

\* closeDebt reads the state of the box without locking it first.
StartCloseUnlocked(w, c, b, m) ==
  /\ owner[b] = c
  /\ Start(w, [Idle EXCEPT !.at = "begin", !.op = "close", !.box = b, !.who = c,
                           !.amount = m])

StartSubmit(w, c, b) == StartWithRouteBox(w, "submit", c, b, 0)
StartClose(w, c, b, m) == StartWithRouteBox(w, "close", c, b, m)

\* RemittanceQueryRepository.mine: the same reads, without the lock.
StartMine(w, c, b) ==
  /\ owner[b] = c
  /\ Start(w, [Idle EXCEPT !.at = "begin", !.op = "mine", !.box = b, !.who = c])

\* carriedDebtMinor.
CarriedDebt(b) == IF cut[b] > moved[b].closed THEN cut[b] - moved[b].closed ELSE 0

\* lastCut and the movements after it, summarised.  (A cut between the two
\* reads would give the same sum, which is the balance at the second.)
ReadMovements(w) ==
  LET b == job[w].box IN
  /\ Ready(w, "begin")
  /\ job[w].op \in {"submit", "close", "mine"}
  /\ job' = [job EXCEPT ![w].at = "moved",
                        ![w].expected = cut[b] + moved[b].in - moved[b].out,
                        ![w].debt = CarriedDebt(b),
                        ![w].collected = moved[b].collected > 0]
  /\ UNCHANGED <<book, owner, remit, count, holder>>

\* "Rendicion inconsistente": loadRouteBoxState throws otherwise.
Consistent(j) == j.expected = j.balance

\* findOpenRemittance, the last statement of loadRouteBoxState: by collector.
FindOpenRemittance(w) ==
  /\ Ready(w, "summed")
  /\ Consistent(job[w])
  /\ job' = [job EXCEPT ![w].at = "read", ![w].open = Open(job[w].who)]
  /\ UNCHANGED <<book, owner, remit, count, holder>>

\* The index collector_remittance_one_open_idx, over the rows as they are.
OneOpen(c) == ~ Open(c)

\* assertCanSubmitRemittance, over the state that was read, and then the index.
CanSubmit(j) ==
  /\ ~ j.open
  /\ j.collected \/ j.balance > 0
  /\ OneOpen(j.who)

Submit(w, r) ==
  /\ Ready(w, "read")
  /\ job[w].op = "submit"
  /\ CanSubmit(job[w])
  /\ remit[r].status = "NONE"
  /\ \A q \in Remittances : remit[q].status = "NONE" => r <= q
  /\ remit' = [remit EXCEPT ![r].status = "SUBMITTED", ![r].collector = job[w].who,
                            ![r].box = job[w].box]
  /\ Finish(w)
  /\ UNCHANGED <<book, owner, count>>

\* The amount to close is not compared with the debt.
CanCloseMore(j) == ~ j.open /\ CanPost(j)

\* buildDebtClosure and assertCanPost, over the state that was read.
CanClose(j) ==
  /\ ~ j.open
  /\ j.amount <= j.debt
  /\ CanPost(j)

CloseDebt(w) ==
  /\ Ready(w, "read")
  /\ job[w].op = "close"
  /\ CanClose(job[w])
  /\ Post(job[w].box, [NoMoves EXCEPT !.out = job[w].amount, !.closed = job[w].amount])
  /\ Finish(w)
  /\ UNCHANGED <<owner, remit, count>>

Answer(w) ==
  /\ Ready(w, "read")
  /\ job[w].op = "mine"
  /\ Finish(w)
  /\ UNCHANGED <<book, owner, remit, count>>

\* receive: the coordinator counts m and chooses the office box c.
StartReceive(w, r, c, m) ==
  /\ remit[r].status # "NONE"
  /\ RoomFor(c, m)
  /\ Start(w, [Idle EXCEPT !.at = "begin", !.op = "receive", !.ref = r, !.to = c,
                           !.amount = m, !.want = {r}])

\* The row is locked but its status is not looked at again.
CanOpenAgain(j) == TRUE

CanOpen(j) == remit[j.ref].status = "SUBMITTED"

\* The box of the remittance is not locked before it is counted.
LoadOpenUnlocked(w) ==
  LET b == remit[job[w].ref].box IN
  /\ Ready(w, "begin")
  /\ job[w].op = "receive"
  /\ CanOpen(job[w])
  /\ job' = [job EXCEPT ![w].at = "opened", ![w].box = b]
  /\ UNCHANGED <<book, owner, remit, count, holder>>

\* loadOpenInScope, then lockCashBox.
LoadOpen(w) ==
  LET b == remit[job[w].ref].box IN
  /\ Ready(w, "begin")
  /\ job[w].op = "receive"
  /\ CanOpen(job[w])
  /\ job' = [job EXCEPT ![w].at = "opened", ![w].box = b, ![w].want = {b}]
  /\ UNCHANGED <<book, owner, remit, count, holder>>

\* More than expected may be counted.
CanReceiveAnything(j) == TRUE

\* assessReception: never more than expected.
CanReceive(j) == j.amount <= balance[j.box]

Assess(w) ==
  LET b == job[w].box IN
  /\ Ready(w, "opened")
  /\ CanReceive(job[w])
  /\ job' = [job EXCEPT ![w].at = "assessed", ![w].expected = balance[b],
                        ![w].want = IF job[w].amount > 0 THEN {b, job[w].to} ELSE {}]
  /\ UNCHANGED <<book, owner, remit, count, holder>>

\* The delivery, the closing balance and the cut.  The entries of the box that
\* have a created_at by now, committed or not, are before the cut.
Receive(w) ==
  LET b == job[w].box
      c == job[w].to
      m == job[w].amount
  IN
  /\ Ready(w, "assessed")
  /\ CanReceive(job[w])
  /\ balance' = [balance EXCEPT ![b] = @ - m, ![c] = @ + m]
  /\ cut' = [cut EXCEPT ![b] = balance[b] - m]
  /\ moved' = [moved EXCEPT ![b] = NoMoves]
  /\ remit' = [remit EXCEPT ![job[w].ref] =
       [@ EXCEPT !.status = "RECEIVED", !.expected = job[w].expected, !.counted = m,
                 !.shortfall = job[w].expected - m, !.closing = balance[b] - m]]
  /\ Release(w)
  /\ job' = [v \in Workers |->
       IF v = w THEN Idle
       ELSE IF job[v].at = "inserted" /\ job[v].box = b
            THEN [job[v] EXCEPT !.before = TRUE] ELSE job[v]]
  /\ UNCHANGED <<owner, count>>
-----------------------------------------------------------------------------
\* CashBoxDrizzleRepository.update with assignedTo: no lock, no remittance check.
Reassign(b, c) ==
  /\ Reassigns
  /\ owner[b] # c
  /\ owner' = [owner EXCEPT ![b] = c]
  /\ UNCHANGED <<book, remit, count, holder, job>>

\* The decision a transaction is about to take is to go on.
Accepts(w) ==
  LET j == job[w] IN
  \/ j.at = "read" /\
     \/ j.op \in {"out", "transfer"} /\ CanPost(j)
     \/ j.op = "adjust" /\ CanAdjust(j)
     \/ j.op = "submit" /\ CanSubmit(j)
     \/ j.op = "close" /\ CanClose(j)
     \/ j.op = "mine"
  \/ j.at = "summed" /\ Consistent(j)
  \/ j.at = "begin" /\ CanOpen(j)
  \/ j.at \in {"opened", "assessed"} /\ CanReceive(j)

\* The decision is an error: the transaction is rolled back.
Reject(w) ==
  /\ \/ \E s \in {"summed", "read", "opened", "assessed"} : Ready(w, s)
     \/ Ready(w, "begin") /\ job[w].op = "receive"
  /\ ~ Accepts(w)
  /\ Finish(w)
  /\ UNCHANGED <<book, owner, remit, count>>

\* A crash, a lost connection, a transaction the database aborts.
Abort(w) ==
  /\ job[w].at # "idle"
  /\ Finish(w)
  /\ UNCHANGED <<book, owner, remit, count>>

Request(w) ==
  \/ \E b \in Boxes, m \in Amounts :
       StartPay(w, b, m) \/ StartPix(w, b, m) \/ StartOut(w, b, m)
  \/ \E b, c \in Boxes, m \in Amounts : StartTransfer(w, b, c, m)
  \/ \E k \in Counts : StartAdjust(w, k)
  \/ \E b \in RouteBoxes, c \in Collectors :
       \/ StartSubmit(w, c, b)
       \/ StartMine(w, c, b)
       \/ \E m \in Amounts : StartClose(w, c, b, m)
  \/ \E r \in Remittances, c \in OfficeBoxes, m \in Amounts \cup {0} :
       StartReceive(w, r, c, m)

\* The next statement of an open transaction that holds its locks.
Statement(w) ==
  \/ Insert(w)
  \/ CommitEntry(w)
  \/ ReadBalance(w)
  \/ PostOut(w)
  \/ PostTransfer(w)
  \/ Adjust(w)
  \/ ReadMovements(w)
  \/ FindOpenRemittance(w)
  \/ \E r \in Remittances : Submit(w, r)
  \/ CloseDebt(w)
  \/ Answer(w)
  \/ LoadOpen(w)
  \/ Assess(w)
  \/ Receive(w)
  \/ Reject(w)

Next ==
  \/ \E w \in Workers : Request(w) \/ Lock(w) \/ Statement(w) \/ Abort(w)
  \/ \E k \in Counts, b \in Boxes, m \in Amounts \cup {0} : TakeCount(k, b, m)
  \/ \E b \in RouteBoxes, c \in Collectors : Reassign(b, c)

Spec == Init /\ [][Next]_vars

\* A transaction the database runs goes on to its end, and the queue of a lock
\* is served in order.  Nothing is assumed of requests and of crashes.
Fairness == \A w \in Workers : WF_vars(Statement(w)) /\ SF_vars(Lock(w))

FairSpec == Spec /\ Fairness
-----------------------------------------------------------------------------
Stages == {"idle", "begin", "inserted", "moved", "summed", "read", "opened", "assessed"}

Moves == [in : Nat, out : Nat, collected : Nat, closed : Nat]

RemittanceRows == [status : {"NONE", "SUBMITTED", "RECEIVED"},
                   collector : Collectors \cup {Nobody}, box : RouteBoxes \cup {0},
                   expected : Nat, counted : Nat, shortfall : Nat, closing : Nat]

CountRows == [box : Boxes \cup {0}, system : Int, counted : Nat, adjusted : BOOLEAN]

Jobs == [at : Stages, op : Operations \cup {"none"}, box : Boxes \cup {0},
         to : Boxes \cup {0}, amount : Nat, who : Collectors \cup {Nobody},
         ref : Remittances \cup Counts \cup {0}, want : SUBSET Locks, expected : Int,
         debt : Nat, collected : BOOLEAN, balance : Int, open : BOOLEAN, before : BOOLEAN]

TypeOK ==
  /\ balance \in [Boxes -> Int]
  /\ moved \in [RouteBoxes -> Moves]
  /\ cut \in [RouteBoxes -> Nat]
  /\ owner \in [RouteBoxes -> Collectors]
  /\ remit \in [Remittances -> RemittanceRows]
  /\ count \in [Counts -> CountRows]
  /\ holder \in [Locks -> Workers \cup {Nobody}]
  /\ job \in [Workers -> Jobs]

\* No box is ever overdrawn, although every withdrawal, transfer, adjustment,
\* closure and reception decides on a balance it read a statement earlier
\* ("sin sobregiro de caja", cash-box.ts line 61).
NoOverdraft == \A b \in Boxes : balance[b] >= 0

\* The ledger of a route box is always its last cut plus the movements after it: a
\* cut takes in every entry that is already dated, committed or not
\* (cash-ledger.ts lines 25-28, remittance.ts line 9).
LedgerAddsUp ==
  \A b \in RouteBoxes : balance[b] = cut[b] + moved[b].in - moved[b].out

\* Whoever loads the state of a route box, under its lock, finds that the previous
\* cut and the movements after it add up to the balance (route-box-state.ts lines
\* 54-57).
SummaryMatchesLedger ==
  \A w \in Workers :
    job[w].at = "summed" /\ job[w].op \in {"submit", "close"} => Consistent(job[w])

\* A reception is square: what stays in the box after the cut is exactly what
\* was expected and not counted, the debt carried at that moment
\* (remittance.ts line 10, collector-remittance.ts lines 66-67).
ReceptionsAreSquare ==
  \A r \in Remittances : remit[r].status = "RECEIVED" =>
    /\ remit[r].expected = remit[r].counted + remit[r].shortfall
    /\ remit[r].closing = remit[r].shortfall

\* The closures of debt never add up to more than the debt that was carried
\* from the last cut (remittance.ts line 11).
ClosedWithinDebt == \A b \in RouteBoxes : moved[b].closed <= cut[b]

\* A debt is closed only while no remittance of that box waits to be received
\* (remittance.ts line 11, "sin rendicion en curso"), although whether one does is
\* read, by collector, a statement before the closure is written.
NoClosureWhileOpen ==
  [][\A b \in RouteBoxes : moved'[b].closed > moved[b].closed =>
       \A r \in Remittances : remit[r].box = b => remit[r].status # "SUBMITTED"]_vars

\* An adjustment of a cash box leaves it with what was counted, so it seals the
\* difference and not something else (adjustToCount: "si cambio, el descuadre
\* ya no es valido", cash-box.repository.ts line 274).  A bank box is excepted:
\* a PIX entry, which takes no lock, may commit after the balance was compared.
AdjustmentSealsCount ==
  [][\A k \in Counts :
       count'[k].adjusted /\ ~ count[k].adjusted /\ count[k].box \in CashBoxes =>
       balance'[count[k].box] = count[k].counted]_vars

\* A received remittance is final: its figures are never rewritten.
ReceivedIsFinal ==
  [][\A r \in Remittances : remit[r].status = "RECEIVED" => remit'[r] = remit[r]]_vars

WaitsFor(w, v) == job[w].want # {} /\ v # w /\ holder[NextLock(job[w])] = v

\* No set of transactions in which each waits for another of the set:
\* "Bloqueo ordenado por id para evitar interbloqueos" (postTransferTx).
NoCircularWait ==
  \A S \in (SUBSET Workers) \ {{}} :
    \E w \in S : \A v \in S : ~ WaitsFor(w, v)

\* Every transaction that is opened ends.
EveryTransactionEnds ==
  \A w \in Workers : job[w].at # "idle" ~> job[w].at = "idle"
-----------------------------------------------------------------------------
(* The inductive invariant: what each open transaction may rely on.         *)

LockingOps == {"pay", "out", "transfer", "adjust", "submit", "close"}

\* Which boxes and rows the transaction of w is about.
WellFormed(w) ==
  LET j == job[w] IN
  /\ ~ j.before
  /\ j.at = "inserted" => j.op \in {"pay", "pix"}
  /\ j.at \in {"moved", "summed"} => j.op \in {"submit", "close", "mine"}
  /\ j.at = "read" => j.op \in {"out", "transfer", "adjust", "submit", "close", "mine"}
  /\ j.at \in {"opened", "assessed"} => j.op = "receive"
  /\ j.op \in {"pay", "out", "transfer", "adjust"} => j.box \in Boxes
  /\ j.op = "pix" => j.box \in BankBoxes
  /\ j.op \in {"submit", "close", "mine"} => j.box \in RouteBoxes
  /\ j.op = "transfer" => j.to \in Boxes /\ j.to # j.box
  /\ j.op = "adjust" => j.ref \in Counts /\ count[j.ref].box = j.box
  /\ j.op = "receive" =>
       /\ j.ref \in Remittances
       /\ j.to \in OfficeBoxes
       /\ remit[j.ref].status # "NONE"
  /\ j.at \in {"opened", "assessed"} =>
       /\ j.box \in RouteBoxes
       /\ remit[j.ref].status = "SUBMITTED"

\* A lock that the transaction does not want any more is a lock it holds.
HoldsItsLocks(w) ==
  LET j == job[w] IN
  /\ j.op \in LockingOps => j.box \in j.want \/ holder[j.box] = w
  /\ j.op = "transfer" => j.to \in j.want \/ holder[j.to] = w
  /\ j.op = "receive" => j.ref \in j.want \/ holder[j.ref] = w
  /\ j.at \in {"inserted", "moved", "summed", "read"} => j.want = {}
  /\ j.at \in {"opened", "assessed"} => holder[j.ref] = w
  /\ j.at = "opened" => j.box \in j.want \/ holder[j.box] = w
  /\ j.at = "assessed" => holder[j.box] = w
  /\ j.at = "assessed" /\ j.amount > 0 => j.to \in j.want \/ holder[j.to] = w

\* What the transaction has read is still so: exactly for the state of a route
\* box and the balance of a cash box, and as a lower bound for the balance of a
\* bank box, to which a PIX entry may have been added.
ReadsAreCurrent(w) ==
  LET j == job[w] IN
  /\ j.at \in {"summed", "read"} /\ j.op # "mine" => j.balance <= balance[j.box]
  /\ j.at \in {"summed", "read"} /\ j.op # "mine" /\ j.box \in CashBoxes =>
       j.balance = balance[j.box]
  /\ j.at \in {"moved", "summed", "read"} /\ j.op \in {"submit", "close"} =>
       j.expected = balance[j.box] /\ j.debt = CarriedDebt(j.box)
  /\ j.at = "assessed" => j.expected = balance[j.box]

RemittancesHaveBox ==
  \A r \in Remittances : remit[r].status # "NONE" => remit[r].box \in RouteBoxes

\* Each transaction holds the locks of what it has read, what it has read is
\* still so, and the ledger of every route box adds up, without overdraft
\* (loadRouteBoxState, postTransferTx and receive under lockCashBox).
LedgerInv ==
  /\ TypeOK
  /\ \A w \in Workers : WellFormed(w) /\ HoldsItsLocks(w) /\ ReadsAreCurrent(w)
  /\ RemittancesHaveBox
  /\ NoOverdraft
  /\ LedgerAddsUp
  /\ ClosedWithinDebt
  /\ ReceptionsAreSquare
=============================================================================
