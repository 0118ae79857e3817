--------------------------- MODULE MigratedCredit ---------------------------
(***************************************************************************)
(* The loading of a credit that began in another system, with the payments *)
(* it had there (register-migrated-credit.ts, migrated-credit.ts,          *)
(* migrated-credit.repository.ts), on the schedule that every credit is    *)
(* given (schedule.ts).                                                    *)
(*                                                                         *)
(* A day is its number; month m of the calendar begins at FirstDay(m).     *)
(* An instant is twice the day, plus one from its noon on.  The handler    *)
(* reads the clock and computes everything, and saves it in one            *)
(* transaction that others may overtake.                                   *)
(***************************************************************************)
EXTENDS Portfolio, SequencesExt

CONSTANTS
  Loaders,     \* requests in flight
  Forms,       \* what an administrator types
  Length,      \* Length[m]: the days of month m of the calendar
  Scale,       \* 1000: the interest is in thousandths of the principal
  NoRef,       \* no reference in the former system
  FirstNow, MaxNow,  \* bounds of the clock
  MaxLoads     \* bound of the loads that start

VARIABLES
  now,         \* the instant
  load,        \* load[h]: what h will save
  loads,
  migrated     \* the credits saved, in order, with their instalments and payments

migratedVars == <<now, load, loads, migrated>>

Day(instant) == instant \div 2
Noon(day) == 2 * day + 1

\* applyInterest and buildSchedule: equal instalments, and the rest in the last.
WithInterest(principal, interest) == (principal * (Scale + interest)) \div Scale

\* The rest is lost.
EvenSchedule(total, n) == [i \in 1..n |-> total \div n]
BuildSchedule(total, n) ==
  [i \in 1..n |-> IF i = n THEN total - (n - 1) * (total \div n) ELSE total \div n]

FirstDay(m) == 1 + SumOver(Length, 1..(m - 1))
MonthOf(day) == CHOOSE m \in DOMAIN Length : day \in FirstDay(m)..(FirstDay(m) + Length[m] - 1)

\* scheduleDueDates: a day that the month does not have is one of the next.
DueDate(start, frequency, i) ==
  CASE frequency = "MONTHLY" ->
         FirstDay(MonthOf(start) + i) + (start - FirstDay(MonthOf(start)))
    [] frequency = "WEEKLY" -> start + 7 * i
    [] frequency = "BIWEEKLY" -> start + 14 * i
    [] OTHER -> start + i

\* assertHistoricalPayment.
Historical(p, start, today) == p.amount > 0 /\ start <= p.on /\ p.on <= today

AmountsOf(payments) == [k \in DOMAIN payments |-> payments[k].amount]
SumOf(payments) == Total(AmountsOf(payments))

\* As they were typed.
AsTyped(payments) == payments

\* By their date, those of one day as they were typed: the k-th has k - 1 before it.
Earlier(payments, j, i) ==
  \/ payments[j].on < payments[i].on
  \/ payments[j].on = payments[i].on /\ j < i
Rank(payments, i) == 1 + Cardinality({j \in DOMAIN payments : Earlier(payments, j, i)})
ByDate(payments) ==
  [k \in DOMAIN payments |->
     payments[CHOOSE i \in DOMAIN payments : Rank(payments, i) = k]]

\* historicalInstant: noon of the day, or now if it is still to come.
HistoricalInstant(day, instant) == Lesser(Noon(day), instant)

\* What is paid of each instalment after the first k payments.
PaidAfter(due, payments) ==
  LET paid[k \in 0..Len(payments)] ==
        IF k = 0 THEN [i \in DOMAIN due |-> 0]
        ELSE [i \in DOMAIN due |->
                paid[k - 1][i] + Cascade(due, paid[k - 1], payments[k].amount)[i]]
  IN  paid

\* planMigratedCredit, and what applyAllocationsTx writes of it: each payment takes from
\* what the earlier ones left, and its capital from what they recovered.
PlanOf(form, instant) ==
  LET total == WithInterest(form.principal, form.interest)
      due == BuildSchedule(total, form.n)
      ordered == ByDate(form.payments)
      paid == PaidAfter(due, ordered)
      alloc == [k \in DOMAIN ordered |-> Cascade(due, paid[k - 1], ordered[k].amount)]
  IN [ref |-> form.ref, start |-> form.start, frequency |-> form.frequency,
      principal |-> form.principal, total |-> total, due |-> due,
      dates |-> [i \in 1..form.n |-> DueDate(form.start, form.frequency, i)],
      payments |-> [k \in DOMAIN ordered |->
                      [on |-> ordered[k].on, amount |-> ordered[k].amount,
                       at |-> HistoricalInstant(ordered[k].on, instant),
                       alloc |-> alloc[k],
                       capital |-> SplitPrincipal(form.principal, total,
                                                  Total(paid[k - 1]), alloc[k])]],
      paid |-> paid[Len(ordered)],
      status |-> IF SumOf(ordered) = total /\ total > 0 THEN "SETTLED" ELSE "ACTIVE"]

\* The load is refused before anything is read or written.
Acceptable(form, today) ==
  /\ form.start <= today
  /\ \A k \in DOMAIN form.payments : Historical(form.payments[k], form.start, today)
  /\ SumOf(form.payments) <= WithInterest(form.principal, form.interest)

Nothing == [busy |-> FALSE]
-----------------------------------------------------------------------------
MigrationInit ==
  /\ now = FirstNow /\ loads = 0 /\ migrated = <<>>
  /\ load = [h \in Loaders |-> Nothing]

\* RegisterMigratedCreditHandler up to the transaction.
Load(h, form) ==
  /\ ~ load[h].busy /\ loads < MaxLoads
  /\ Acceptable(form, Day(now))
  /\ load' = [load EXCEPT ![h] = [busy |-> TRUE, plan |-> PlanOf(form, now)]]
  /\ loads' = loads + 1
  /\ UNCHANGED <<now, migrated>>

\* A reference is not looked at.
SaveAnyway(h) ==
  /\ load[h].busy /\ load' = [load EXCEPT ![h] = Nothing]
  /\ migrated' = Append(migrated, load[h].plan)
  /\ UNCHANGED <<now, loads>>

\* save: one transaction, refused as a whole if the reference is taken.
Save(h) ==
  /\ load[h].busy /\ load' = [load EXCEPT ![h] = Nothing]
  /\ LET plan == load[h].plan
         taken == plan.ref # NoRef /\ \E k \in DOMAIN migrated : migrated[k].ref = plan.ref
     IN migrated' = IF taken THEN migrated ELSE Append(migrated, plan)
  /\ UNCHANGED <<now, loads>>

Tick ==
  /\ now < MaxNow /\ now' = now + 1
  /\ UNCHANGED <<load, loads, migrated>>

MigrationNext ==
  \/ \E h \in Loaders : Save(h) \/ \E f \in Forms : Load(h, f)
  \/ Tick

MigrationSpec == MigrationInit /\ [][MigrationNext]_migratedVars
-----------------------------------------------------------------------------
\* A schedule owes what was agreed, no more and no less, in instalments that no one
\* could owe less than nothing of; each falls due after the one before it and after
\* the start, and a monthly one in the month that corresponds or in the first three
\* days of the next.
ScheduleHolds(c) ==
  /\ Total(c.due) = c.total /\ c.total >= c.principal
  /\ \A i \in DOMAIN c.due :
       /\ c.due[i] >= 0
       /\ c.dates[i] > IF i = 1 THEN c.start ELSE c.dates[i - 1]
       /\ c.frequency = "MONTHLY" =>
            \/ MonthOf(c.dates[i]) = MonthOf(c.start) + i
            \/ c.dates[i] - FirstDay(MonthOf(c.start) + i + 1) \in 0..2

SchedulesHold == \A k \in DOMAIN migrated : ScheduleHolds(migrated[k])

\* The payments of the past enter as if they had been made here, on their day: the
\* earliest pays the oldest instalment, no centavo is lost, the capital they recover is
\* that of their sum, and the credit is closed exactly if nothing is owed
\* (migrated-credit.ts lines 12-15).
HistoryKept(c) ==
  LET zero == [i \in DOMAIN c.due |-> 0]
      until(j) == SumOver(AmountsOf(c.payments), 1..j)
      capital == [j \in DOMAIN c.payments |-> Total(c.payments[j].capital)]
  IN /\ c.paid = Cascade(c.due, zero, until(Len(c.payments)))
     /\ Total(c.paid) = until(Len(c.payments))
     /\ \A j \in DOMAIN c.payments :
          /\ \A i \in DOMAIN c.due :
               Cascade(c.due, zero, until(j - 1))[i] + c.payments[j].alloc[i]
                 = Cascade(c.due, zero, until(j))[i]
          /\ j > 1 => c.payments[j - 1].at <= c.payments[j].at
          /\ Day(c.payments[j].at) = c.payments[j].on
     /\ Total(capital) = PrincipalRecovered(c.principal, c.total, Total(c.paid))
     /\ (c.status = "SETTLED") <=> (c.paid = c.due)

\* No payment of the past is still to come.
PastOnly(c) == \A j \in DOMAIN c.payments : c.payments[j].at \in 0..now

HistoryIsKept ==
  \A k \in DOMAIN migrated : HistoryKept(migrated[k]) /\ PastOnly(migrated[k])

\* A reference of the former system is loaded once, by however many requests at once.
LoadedOnce ==
  \A j, k \in DOMAIN migrated :
    migrated[j].ref = migrated[k].ref /\ migrated[j].ref # NoRef => j = k

-----------------------------------------------------------------------------
(* Why they hold: the calendar has the months that a credit needs, and who   *)
(* is about to save has a plan that keeps them.                              *)

InMonth(m, day) == day \in FirstDay(m)..(FirstDay(m) + Length[m] - 1)

\* What the contract of the request lets through, in a calendar that goes far enough.
MigrationTerms ==
  /\ Scale \in Nat \ {0} /\ FirstNow \in Nat
  /\ Length \in Seq(28..31)
  /\ \A form \in Forms :
       /\ form.principal \in Nat \ {0} /\ form.interest \in Nat /\ form.n \in Nat \ {0}
       /\ form.start \in Nat /\ form.payments \in Seq([on : Nat, amount : Int])
       /\ \E m \in DOMAIN Length :
            /\ InMonth(m, form.start)
            /\ form.frequency = "MONTHLY" => m + form.n + 1 \in DOMAIN Length

\* Who is about to save has a plan that keeps what is promised of the saved ones.
MigrationInv ==
  /\ now \in Nat /\ DOMAIN load = Loaders /\ migrated \in Seq(ToSet(migrated))
  /\ \A h \in Loaders :
       load[h].busy => LET plan == load[h].plan
                       IN  ScheduleHolds(plan) /\ HistoryKept(plan) /\ PastOnly(plan)
  /\ SchedulesHold /\ HistoryIsKept /\ LoadedOnce

\* The schedules hold, the past is kept, a reference is loaded once, and why.
MigrationSafe ==
  SchedulesHold /\ HistoryIsKept /\ LoadedOnce /\ MigrationTerms /\ MigrationInv
=============================================================================
