-------------------------- MODULE SettlementPeriods --------------------------
(***************************************************************************)
(* The settlement of a tenant by periods: apps/api/src/settlements, with   *)
(* the rule of the periods (packages/domain/src/cash/settlement-period.ts) *)
(* and the commission of the collector, which a closure causes and which   *)
(* is paid later (packages/application/src/cash/commissions.ts).           *)
(*                                                                         *)
(* An instant is a number, a business day lasts DayLength of them, and a   *)
(* time zone says how long before instant 0 day 0 began.  The entries      *)
(* of the ledger are identities: a sum over entries is the set of them.    *)
(* The calendar (weeks, halves of a month, months) is left out: here a     *)
(* frequency is a number of days counted from an anchor.                   *)
(***************************************************************************)
EXTENDS Integers, Sequences, FiniteSets

CONSTANTS
  Entries,    \* entries of cash_transaction that may be written
  Closers,    \* the cron and the administrators that close
  Payers,     \* requests to pay a commission
  TimeZones,  \* the time zones the tenant may have
  Settings,   \* the settlement settings the tenant may set
  DayLength,  \* instants of a business day
  MaxClock,   \* bound on the time that passes
  MaxCrashes, \* bound on the closures that fail
  Cron,       \* the closer that is the cron
  NoCloser,   \* nobody holds the lock of the settlement
  NoDay       \* absence of a day

ASSUME PeriodsAssumption ==
  /\ DayLength \in Nat \ {0}
  /\ MaxClock \in Nat /\ MaxCrashes \in Nat
  /\ TimeZones \subseteq 0..(DayLength - 1) /\ TimeZones # {}
  /\ Settings \subseteq [days : Nat \ {0}, anchor : Nat, autoClose : BOOLEAN,
                         startDate : Nat \cup {NoDay}, rate : Nat]
  /\ Settings # {}
  /\ Cron \in Closers /\ NoCloser \notin Closers
  /\ NoDay \notin Int

VARIABLES
  clock,
  zone,      \* time zone of the tenant; it does not change here
  settings,  \* its settlement and commission settings
  dated,     \* dated[e]: created_at of an entry, -1 until it has one
  committed, \* the entries that are committed
  period,    \* rows of settlement_period, in the order of their insertion
  holder,    \* who holds the advisory lock of the settlement
  closing,   \* closing[w]: the closure open in w
  paying,    \* paying[q]: the commission q is about to pay
  paid,      \* the COMMISSION entries of the ledger
  failures   \* closures that failed so far

tenant == <<clock, zone, settings>>
entries == <<dated, committed>>
commissions == <<paying, paid>>
periodsVars == <<tenant, entries, period, holder, closing, commissions, failures>>

NoClosing == [at |-> "idle", now |-> 0, start |-> 0, end |-> 0, from |-> 0, to |-> 0,
              opening |-> {}]
NoPaying == [period |-> 0, amount |-> 0]

PeriodsInit ==
  /\ clock = 0
  /\ zone \in TimeZones
  /\ settings \in Settings
  /\ dated = [e \in Entries |-> -1]
  /\ committed = {}
  /\ period = <<>>
  /\ holder = NoCloser
  /\ closing = [w \in Closers |-> NoClosing]
  /\ paying = [q \in Payers |-> NoPaying]
  /\ paid = <<>>
  /\ failures = 0
-----------------------------------------------------------------------------
\* businessDateOf.
BusinessDate(t, z) == (t + z) \div DayLength

\* localHourInstant, at midnight.
Midnight(day, z) == day * DayLength - z

Today == BusinessDate(clock, zone)

\* periodContaining: the last day of it that is exclusive.
PeriodStart(s, day) == day - ((day - s.anchor) % s.days)
PeriodEnd(s, day) == PeriodStart(s, day) + s.days

LastEnd == IF period = <<>> THEN NoDay ELSE period[Len(period)].end

\* readFirstActivity.
FirstActivity ==
  IF committed = {} THEN NoDay
  ELSE BusinessDate(CHOOSE t \in {dated[e] : e \in committed} :
                      \A e \in committed : t <= dated[e], zone)

\* nextPeriodToClose: where it starts, NoDay if there is nothing to settle.
NextStart ==
  IF LastEnd # NoDay THEN LastEnd
  ELSE IF settings.startDate # NoDay THEN settings.startDate
  ELSE IF FirstActivity # NoDay THEN PeriodStart(settings, FirstActivity) ELSE NoDay

\* isPeriodEnded also lets the period of today be closed.
EndedEarly(end, today) == end <= today + 1

\* isPeriodEnded.
Ended(end, today) == end <= today

\* pendingClosures > 0, seen at an instant.
PendingAt(now) ==
  NextStart # NoDay /\ Ended(PeriodEnd(settings, NextStart), BusinessDate(now, zone))

\* canAutoClose.
CanAutoClose == settings.autoClose /\ settings.startDate # NoDay
-----------------------------------------------------------------------------
(* Time, settings and the ledger.                                           *)

Tick ==
  /\ clock < MaxClock
  /\ clock' = clock + 1
  /\ UNCHANGED <<zone, settings, entries, period, holder, closing, commissions, failures>>

\* mergeOperationalSettings.
SetSettings(s) ==
  /\ settings # s
  /\ settings' = s
  /\ UNCHANGED <<clock, zone, entries, period, holder, closing, commissions, failures>>

\* An entry is inserted, with the clock's time as created_at (clock_timestamp).
InsertEntry(e) ==
  /\ dated[e] = -1
  /\ dated' = [dated EXCEPT ![e] = clock]
  /\ UNCHANGED <<tenant, committed, period, holder, closing, commissions, failures>>

CommitEntry(e) ==
  /\ dated[e] # -1
  /\ e \notin committed
  /\ committed' = committed \cup {e}
  /\ UNCHANGED <<tenant, dated, period, holder, closing, commissions, failures>>
-----------------------------------------------------------------------------
(* close, statement by statement.                                           *)

\* The call, with `now`: the cron makes it for the tenants that canAutoClose.
Call(w) ==
  /\ closing[w].at = "idle"
  /\ w = Cron => CanAutoClose
  /\ closing' = [closing EXCEPT ![w].at = "called", ![w].now = clock]
  /\ UNCHANGED <<tenant, entries, period, holder, commissions, failures>>

\* A closure does not wait for the lock of the tenant.
LockUnlocked(w) ==
  /\ closing[w].at = "called"
  /\ closing' = [closing EXCEPT ![w].at = "locked"]
  /\ UNCHANGED <<tenant, entries, period, holder, commissions, failures>>

\* pg_advisory_xact_lock: one for the tenant.
Lock(w) ==
  /\ closing[w].at = "called"
  /\ holder = NoCloser
  /\ holder' = w
  /\ closing' = [closing EXCEPT ![w].at = "locked"]
  /\ UNCHANGED <<tenant, entries, period, commissions, failures>>

\* The end of the transaction, which releases the lock.
Finish(w) ==
  /\ closing' = [closing EXCEPT ![w] = NoClosing]
  /\ holder' = IF holder = w THEN NoCloser ELSE holder

\* context, nextPeriodToClose and toRange.
ReadContext(w) ==
  LET end == PeriodEnd(settings, NextStart) IN
  /\ closing[w].at = "locked"
  /\ PendingAt(closing[w].now)
  /\ closing' = [closing EXCEPT ![w] =
       [@ EXCEPT !.at = "context", !.start = NextStart, !.end = end,
                 !.from = Midnight(NextStart, zone), !.to = Midnight(end, zone)]]
  /\ UNCHANGED <<tenant, entries, period, holder, commissions, failures>>

\* NOTHING_TO_SETTLE or PERIOD_NOT_ENDED.
NothingToClose(w) ==
  /\ closing[w].at = "locked"
  /\ ~ PendingAt(closing[w].now)
  /\ Finish(w)
  /\ UNCHANGED <<tenant, entries, period, commissions, failures>>

\* The entries up to the cut, itself included.
DatedUpTo(from, to) == {e \in committed : from <= dated[e] /\ dated[e] <= to}

\* created_at >= from and created_at < to.
DatedIn(from, to) == {e \in committed : from <= dated[e] /\ dated[e] < to}

\* The opening balance only adds what happened since the first period.
DatedBeforeSinceStart(from) ==
  {e \in committed : /\ dated[e] < from
                      /\ period # <<>> => dated[e] >= period[Len(period)].from}

\* created_at < from, from the beginning of the ledger.
DatedBefore(from) == {e \in committed : dated[e] < from}

\* readBoxes: the opening balance.
ReadOpening(w) ==
  /\ closing[w].at = "context"
  /\ closing' = [closing EXCEPT ![w].at = "opening",
                                ![w].opening = DatedBefore(closing[w].from)]
  /\ UNCHANGED <<tenant, entries, period, holder, commissions, failures>>

RowOf(j) ==
  LET flows == DatedIn(j.from, j.to) IN
  [start |-> j.start, end |-> j.end, from |-> j.from, to |-> j.to, opening |-> j.opening,
   flows |-> flows, commission |-> settings.rate * Cardinality(flows)]

\* readFlows, buildSettlement, readCommissionConfig, and the row: its unique
\* index is by tenant and start.
Seal(w) ==
  /\ closing[w].at = "opening"
  /\ \A p \in 1..Len(period) : period[p].start # closing[w].start
  /\ period' = Append(period, RowOf(closing[w]))
  /\ Finish(w)
  /\ UNCHANGED <<tenant, entries, commissions, failures>>

\* The lock belongs to the session, and outlives a closure that fails.
FailClosingLocked(w) ==
  /\ closing[w].at # "idle"
  /\ failures < MaxCrashes
  /\ failures' = failures + 1
  /\ closing' = [closing EXCEPT ![w] = NoClosing]
  /\ UNCHANGED <<tenant, entries, period, holder, commissions>>

\* An error of the database, or a crash: the transaction is rolled back.
FailClosing(w) ==
  /\ closing[w].at # "idle"
  /\ failures < MaxCrashes
  /\ failures' = failures + 1
  /\ Finish(w)
  /\ UNCHANGED <<tenant, entries, period, commissions>>
-----------------------------------------------------------------------------
(* PayCollectorCommissionHandler.                                           *)

\* What is due is computed again with the rate of today.
DueNow(p) == settings.rate * Cardinality(period[p].flows)

\* loadDue: what the sealed photograph says.
Due(p) == period[p].commission

\* loadDue and assertCommissionPayable.
LoadDue(q, p) ==
  /\ paying[q] = NoPaying
  /\ Due(p) > 0
  /\ paying' = [paying EXCEPT ![q] = [period |-> p, amount |-> Due(p)]]
  /\ UNCHANGED <<tenant, entries, period, holder, closing, paid, failures>>

\* cash_tx_commission_idx.
Payable(p) == \A i \in 1..Len(paid) : paid[i].period # p

PayCommission(q) ==
  /\ paying[q] # NoPaying
  /\ Payable(paying[q].period)
  /\ paid' = Append(paid, paying[q])
  /\ paying' = [paying EXCEPT ![q] = NoPaying]
  /\ UNCHANGED <<tenant, entries, period, holder, closing, failures>>

\* COMMISSION_ALREADY_PAID, no funds, or a crash.
FailPaying(q) ==
  /\ paying[q] # NoPaying
  /\ paying' = [paying EXCEPT ![q] = NoPaying]
  /\ UNCHANGED <<tenant, entries, period, holder, closing, paid, failures>>
-----------------------------------------------------------------------------
Statement(w) == ReadContext(w) \/ NothingToClose(w) \/ ReadOpening(w) \/ Seal(w)

PeriodsNext ==
  \/ Tick
  \/ \E s \in Settings : SetSettings(s)
  \/ \E e \in Entries : InsertEntry(e) \/ CommitEntry(e)
  \/ \E w \in Closers : Call(w) \/ Lock(w) \/ Statement(w) \/ FailClosing(w)
  \/ \E q \in Payers :
       (\E p \in 1..Len(period) : LoadDue(q, p)) \/ PayCommission(q) \/ FailPaying(q)

PeriodsSpec == PeriodsInit /\ [][PeriodsNext]_periodsVars

\* The cron runs every hour (settlement.cron.ts line 26) and the database runs
\* a closure it has started to its end; it serves the lock to the cron in turn.
PeriodsFairSpec ==
  /\ PeriodsSpec
  /\ WF_periodsVars(Call(Cron)) /\ SF_periodsVars(Lock(Cron))
  /\ \A w \in Closers : WF_periodsVars(Statement(w))
-----------------------------------------------------------------------------
Rows == [start : Int, end : Int, from : Int, to : Int, opening : SUBSET Entries,
         flows : SUBSET Entries, commission : Nat]

Closings == [at : {"idle", "called", "locked", "context", "opening"}, now : Nat,
             start : Int, end : Int, from : Int, to : Int, opening : SUBSET Entries]

PeriodsTypeOK ==
  /\ clock \in 0..MaxClock
  /\ zone \in TimeZones
  /\ settings \in Settings
  /\ dated \in [Entries -> Nat \cup {-1}]
  /\ committed \subseteq Entries
  /\ period \in Seq(Rows)
  /\ holder \in Closers \cup {NoCloser}
  /\ closing \in [Closers -> Closings]
  /\ paying \in [Payers -> [period : Nat, amount : Nat]]
  /\ paid \in Seq([period : Nat, amount : Nat])
  /\ failures \in 0..MaxCrashes

\* The closed periods are a chain of days, without gaps and without overlaps,
\* whatever the settings became between two closures and whoever closed: the
\* cron and the administrators race for the lock (settlement-period.ts lines
\* 6-7; I10 of PLAN_CONTROL_CAMPO_Y_LIQUIDACION.md).
PeriodsChain ==
  \A p \in 1..Len(period) :
    /\ period[p].start < period[p].end
    /\ p > 1 => period[p].start = period[p - 1].end

\* A period that is sealed is over: no entry is dated in it any more, although
\* the photograph may be taken long after the lock was granted.
SealedIsOver ==
  \A p \in 1..Len(period) : period[p].end <= Today

\* No entry is in the photographs of two periods.
CountedOnce ==
  \A p, q \in 1..Len(period) : p # q => period[p].flows \cap period[q].flows = {}

\* What a photograph counted stays in the balance of every later one, whatever
\* was committed late between the two statements that read the books.
BalanceCarriesOver ==
  \A p \in 1..Len(period), e \in Entries :
    /\ p > 1 /\ e \in period[p - 1].opening \cup period[p - 1].flows
    => e \in period[p].opening

\* The closing balance of a period is the opening balance of the next one
\* (I2 of PLAN_CONTROL_CAMPO_Y_LIQUIDACION.md line 238).
OpeningIsPreviousClosing ==
  \A p \in 2..Len(period) :
    period[p].opening = period[p - 1].opening \cup period[p - 1].flows

\* A commission is paid once, for what the photograph sealed, however many
\* requests race and whatever the rate is by now (commissions.ts line 108).
CommissionPaidAsSealed ==
  /\ \A i \in 1..Len(paid) : paid[i].amount = period[paid[i].period].commission
  /\ \A i, j \in 1..Len(paid) : i # j => paid[i].period # paid[j].period

-----------------------------------------------------------------------------
(* What the statements of a closure rely on, which makes the properties     *)
(* inductive (ProgressProofs).                                              *)

EntriesDated ==
  /\ IsFiniteSet(committed)
  /\ \A e \in committed : dated[e] \in Nat

\* Whoever is past the lock holds it.
LockHeld ==
  \A w \in Closers : closing[w].at \in {"locked", "context", "opening"} => holder = w

\* What a closure has read is still so: it goes on from the last period, over days that
\* have ended, and no photographed entry is missing in its opening balance.
ClosuresFit ==
  \A w \in Closers :
    /\ closing[w].now <= clock
    /\ closing[w].at \in {"context", "opening"} =>
         /\ closing[w].start < closing[w].end /\ closing[w].end <= Today
         /\ closing[w].from = Midnight(closing[w].start, zone)
         /\ closing[w].to = Midnight(closing[w].end, zone)
         /\ period # <<>> => closing[w].start = period[Len(period)].end
    /\ closing[w].at = "opening" =>
         /\ \A e \in closing[w].opening : e \in committed /\ dated[e] < closing[w].from
         /\ period # <<>> =>
              period[Len(period)].opening \cup period[Len(period)].flows
                \subseteq closing[w].opening

\* A photograph is of entries committed in its days, or before them.
RowsFit ==
  \A p \in 1..Len(period) :
    /\ period[p].from = Midnight(period[p].start, zone)
    /\ period[p].to = Midnight(period[p].end, zone)
    /\ \A e \in period[p].opening : e \in committed /\ dated[e] < period[p].from
    /\ \A e \in period[p].flows :
         e \in committed /\ period[p].from <= dated[e] /\ dated[e] < period[p].to

PeriodsOrdered ==
  \A p, q \in 1..Len(period) : p < q => period[p].end <= period[q].start

\* A commission about to be paid, or paid, is of a period that is closed.
CommissionsFit ==
  /\ \A q \in Payers : paying[q] # NoPaying =>
       /\ paying[q].period \in 1..Len(period)
       /\ paying[q].amount = period[paying[q].period].commission
  /\ \A i \in 1..Len(paid) : paid[i].period \in 1..Len(period)

PeriodsInv ==
  /\ PeriodsTypeOK /\ EntriesDated
  /\ LockHeld /\ ClosuresFit /\ RowsFit
  /\ PeriodsChain /\ PeriodsOrdered /\ SealedIsOver /\ BalanceCarriesOver
  /\ CommissionsFit /\ CommissionPaidAsSealed

\* What holds of the closed periods of a tenant in every state, whoever closes
\* at the same time and whatever the ledger commits in between.
PeriodsSafe == PeriodsInv /\ CountedOnce

\* Nothing is left to the cron: the tenant closes by hand, or no period is due.
CaughtUp == CanAutoClose => ~ PendingAt(clock)

\* While the tenant closes by itself, every period that ends is closed in the
\* end, also when closures fail and an administrator holds the lock.
EndedPeriodsAreClosed == []<>CaughtUp
=============================================================================
