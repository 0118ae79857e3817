---------------------------- MODULE Collections ----------------------------
(***************************************************************************)
(* Collecting in the street: the stops of a route                          *)
(* (apps/api/src/collections/collection-route.repository.ts), the visits   *)
(* and observations of a collector                                         *)
(* (packages/application/src/credit/collection), the daily reminders, and  *)
(* the interceptor that stores the answer of a repeated request            *)
(* (apps/api/src/observability/idempotency.interceptor.ts), which is what  *)
(* stands in front of the dispatch and the resolution of a stop.           *)
(*                                                                         *)
(* One step is one transaction, or one read of a request that spans        *)
(* several.  The money of a stop is registered in its own transaction by   *)
(* the code that module Payments models; here it is counted.               *)
(***************************************************************************)
EXTENDS Integers, Sequences, FiniteSets

CONSTANTS
  Credits,
  Keys,        \* values of the header Idempotency-Key
  Threads,     \* requests and cron runs that are handled at once
  Threshold,   \* overdue installments that call for a visit
  MaxStops,    \* bound on the stops
  MaxCalls,    \* bound on the requests sent with a key
  MaxOverdue,  \* bound on the overdue installments of a credit
  MaxHistory,  \* bound on the notes and visits of a credit
  MaxDays,     \* bound on the days
  MaxCrashes   \* bound on the restarts of the API

ASSUME CollectionsAssumption ==
  /\ Threshold \in Nat \ {0}  \* MIN_VISIT_OVERDUE_THRESHOLD
  /\ {MaxStops, MaxCalls, MaxOverdue, MaxHistory, MaxDays, MaxCrashes} \subseteq Nat

VARIABLES
  day,      \* local date of the tenant
  overdue,  \* overdue[c]: installments of c that are due and not paid
  stops,    \* rows of route_stop
  stopPaid, \* stopPaid[s]: payments registered by stop s
  want,     \* want[k]: the request that is sent with key k
  calls,    \* calls[k]: requests sent with key k
  stored,   \* stored[k]: row of idempotency_key
  history,  \* history[c]: collection_note and collection_visit, by time
  claims,   \* claims of the reminders of a credit for a day
  sent,     \* sent[c]: days of the reminders sent for c, one entry each
  job,      \* job[t]: what thread t is doing
  crashes

street == <<stops, stopPaid>>
requests == <<want, calls, stored>>
reminders == <<claims, sent>>
collectVars == <<day, overdue, street, requests, history, reminders, job, crashes>>

Free == [at |-> "idle"]
NoWant == [op |-> "none"]
Outcomes == {"PAID", "NOT_PAID", "PROMISE", "NOT_FOUND"}
OpenStatuses == {"ASSIGNED", "SEEN"}

CollectInit ==
  /\ day = 1
  /\ overdue \in [Credits -> {0, Threshold}]
  /\ stops = <<>>
  /\ stopPaid = <<>>
  /\ want = [k \in Keys |-> NoWant]
  /\ calls = [k \in Keys |-> 0]
  /\ stored = [k \in Keys |-> "none"]
  /\ history = [c \in Credits |-> <<>>]
  /\ claims = {}
  /\ sent = [c \in Credits |-> <<>>]
  /\ job = [t \in Threads |-> Free]
  /\ crashes = 0
-----------------------------------------------------------------------------
(* A request with a key, and the interceptor.                               *)

Dispatches == [op : {"dispatch"}, credit : Credits]
Resolutions == [op : {"resolve"}, stop : DOMAIN stops, outcome : Outcomes]

\* The client sends the request, for the first time or again.
Send(t, k) ==
  /\ job[t] = Free
  /\ calls[k] < MaxCalls
  /\ \E w \in Dispatches \cup Resolutions :
       want[k] \in {NoWant, w} /\ want' = [want EXCEPT ![k] = w]
  /\ calls' = [calls EXCEPT ![k] = @ + 1]
  /\ job' = [job EXCEPT ![t] = [at |-> "look", key |-> k]]
  /\ UNCHANGED <<day, overdue, street, stored, history, reminders, crashes>>

\* There is a stored answer: it is the answer.
AnswerStored(t) ==
  /\ job[t].at = "look"
  /\ stored[job[t].key] # "none"
  /\ job' = [job EXCEPT ![t] = Free]
  /\ UNCHANGED <<day, overdue, street, requests, history, reminders, crashes>>

FirstTime(t) ==
  /\ job[t].at = "look"
  /\ stored[job[t].key] = "none"
  /\ job' = [job EXCEPT ![t].at = want[job[t].key].op]
  /\ UNCHANGED <<day, overdue, street, requests, history, reminders, crashes>>

Handled(t) == job' = [job EXCEPT ![t] = [at |-> "save", key |-> @.key]]

\* The answer of a failure is stored like any other.
RefuseStoring(t) ==
  /\ stored' = [stored EXCEPT ![job[t].key] = IF @ = "none" THEN "refused" ELSE @]
  /\ job' = [job EXCEPT ![t] = Free]

\* An error leaves the pipe of the interceptor: nothing is stored.
Refuse(t) == job' = [job EXCEPT ![t] = Free] /\ UNCHANGED stored

\* save: ON CONFLICT DO NOTHING.
Saved(k, answer) == IF stored[k] = "none" THEN answer ELSE stored[k]

SaveAnswer(t) ==
  /\ job[t].at = "save"
  /\ stored' = [stored EXCEPT ![job[t].key] = Saved(job[t].key, "done")]
  /\ job' = [job EXCEPT ![t] = Free]
  /\ UNCHANGED <<day, overdue, street, want, calls, history, reminders, crashes>>
-----------------------------------------------------------------------------
(* The stops of a route.                                                    *)

OpenStops(c) == {s \in DOMAIN stops : stops[s].credit = c /\ stops[s].status \in OpenStatuses}

Wanted(t) == want[job[t].key]

\* dispatch: the candidates are read, with the stops they have open.
ReadCandidate(t) ==
  /\ job[t].at = "dispatch"
  /\ IF OpenStops(Wanted(t).credit) = {}
     THEN job' = [job EXCEPT ![t].at = "insert"] /\ UNCHANGED stored
     ELSE Refuse(t)
  /\ UNCHANGED <<day, overdue, street, want, calls, history, reminders, crashes>>

\* route_stop_one_open_idx is not there.
MayOpenAlways(c) == TRUE

\* route_stop_one_open_idx.
MayOpen(c) == OpenStops(c) = {}

InsertStop(t) ==
  LET c == Wanted(t).credit IN
  /\ job[t].at = "insert"
  /\ Len(stops) < MaxStops
  /\ IF MayOpen(c)
     THEN /\ stops' = Append(stops, [credit |-> c, status |-> "ASSIGNED",
                                     outcome |-> "none", key |-> job[t].key])
          /\ stopPaid' = Append(stopPaid, 0)
          /\ Handled(t)
          /\ UNCHANGED stored
     ELSE Refuse(t) /\ UNCHANGED street
  /\ UNCHANGED <<day, overdue, want, calls, history, reminders, crashes>>

MarkStopSeen(s) ==
  /\ stops[s].status = "ASSIGNED"
  /\ stops' = [stops EXCEPT ![s].status = "SEEN"]
  /\ UNCHANGED <<day, overdue, stopPaid, requests, history, reminders, job, crashes>>

\* resolveStop does not look at the status.
ResolvableAlways(s) == TRUE

\* resolveStop and cancelStop: assertOpen, on the locked row.
Resolvable(s) == stops[s].status \in OpenStatuses

Note == [what |-> "note", level |-> 0, by |-> "any"]
Visit(level, by) == [what |-> "visit", level |-> level, by |-> by]

\* The note of the outcome and, when somebody was found, the visit, with the arrears
\* that are left after the payment.
Visited(c, outcome, level) ==
  history' = [history EXCEPT ![c] =
    @ \o <<Note>> \o (IF outcome = "NOT_FOUND" THEN <<>> ELSE <<Visit(level, "stop")>>)]

ResolveStop(t) ==
  LET s == Wanted(t).stop
      outcome == Wanted(t).outcome
      c == stops[s].credit
  IN
  /\ job[t].at = "resolve"
  /\ IF Resolvable(s)
     THEN /\ Len(history[c]) + 2 <= MaxHistory
          /\ \E left \in (IF outcome = "PAID" THEN {overdue[c], overdue[c] - 1} ELSE {overdue[c]}) :
               /\ left >= 0
               /\ overdue' = [overdue EXCEPT ![c] = left]
               /\ Visited(c, outcome, left)
          /\ stopPaid' = IF outcome = "PAID" THEN [stopPaid EXCEPT ![s] = @ + 1] ELSE stopPaid
          /\ stops' = [stops EXCEPT ![s].status = "RESOLVED", ![s].outcome = outcome]
          /\ Handled(t)
          /\ UNCHANGED stored
     ELSE Refuse(t) /\ UNCHANGED <<overdue, street, history>>
  /\ UNCHANGED <<day, want, calls, reminders, crashes>>

\* The coordinator cancels; this request carries no key.
CancelStop(s) ==
  /\ Resolvable(s)
  /\ stops' = [stops EXCEPT ![s].status = "CANCELLED"]
  /\ UNCHANGED <<day, overdue, stopPaid, requests, history, reminders, job, crashes>>
-----------------------------------------------------------------------------
(* Observations and visits.                                                 *)

AddObservation(c) ==
  /\ Len(history[c]) < MaxHistory
  /\ history' = [history EXCEPT ![c] = Append(@, Note)]
  /\ UNCHANGED <<day, overdue, street, requests, reminders, job, crashes>>

NeedsVisit(level, last) == level >= Threshold /\ level >= last + Threshold

Visits(c) == {i \in DOMAIN history[c] : history[c][i].what = "visit"}

LastVisit(c) == IF Visits(c) = {} THEN 0
                ELSE CHOOSE i \in Visits(c) : \A j \in Visits(c) : j <= i

\* The arrears at the last visit; a credit that was never visited needs the threshold.
LevelAt(c, i) == IF i = 0 THEN 0 ELSE history[c][i].level

\* MarkCollectionVisitedHandler: the arrears are read,
ReadOverdue(t, c) ==
  /\ job[t] = Free
  /\ job' = [job EXCEPT ![t] = [at |-> "marking", credit |-> c, level |-> overdue[c]]]
  /\ UNCHANGED <<day, overdue, street, requests, history, reminders, crashes>>

\* then the last visit,
ReadLastVisit(t) ==
  /\ job[t].at = "marking"
  /\ job' = [job EXCEPT ![t] = [at |-> "visited", credit |-> @.credit, level |-> @.level,
                                last |-> LastVisit(@.credit)]]
  /\ UNCHANGED <<day, overdue, street, requests, history, reminders, crashes>>

\* then the latest observation, and assertCanMarkVisited decides,
ReadLatestNote(t) ==
  LET j == job[t]
      fresh == \E i \in DOMAIN history[j.credit] :
                 i > j.last /\ history[j.credit][i].what = "note"
  IN
  /\ j.at = "visited"
  /\ job' = [job EXCEPT ![t] =
       IF NeedsVisit(j.level, LevelAt(j.credit, j.last)) /\ fresh
       THEN [at |-> "record", credit |-> j.credit, level |-> j.level]
       ELSE Free]
  /\ UNCHANGED <<day, overdue, street, requests, history, reminders, crashes>>

\* and the visit is recorded.
RecordVisit(t) ==
  /\ job[t].at = "record"
  /\ Len(history[job[t].credit]) < MaxHistory
  /\ history' = [history EXCEPT ![job[t].credit] = Append(@, Visit(job[t].level, "mark"))]
  /\ job' = [job EXCEPT ![t] = Free]
  /\ UNCHANGED <<day, overdue, street, requests, reminders, crashes>>
-----------------------------------------------------------------------------
(* Reminders: of the hourly cron, and by hand.                              *)

\* listDue, findDueCredit: something is due, and there is a key and a channel.
FindDue(t, c) ==
  /\ job[t] = Free
  /\ overdue[c] > 0
  /\ job' = [job EXCEPT ![t] = [at |-> "claim", credit |-> c, day |-> day]]
  /\ UNCHANGED <<day, overdue, street, requests, history, reminders, crashes>>

\* The claim is looked for, and inserted when the message was sent.
TakeClaimLate(c, d) == UNCHANGED claims

\* claimDailyReminder: INSERT ... ON CONFLICT DO NOTHING.
TakeClaim(c, d) == claims' = claims \cup {<<c, d>>}

ClaimReminder(t) ==
  LET j == job[t] IN
  /\ j.at = "claim"
  /\ IF <<j.credit, j.day>> \in claims
     THEN job' = [job EXCEPT ![t] = Free] /\ UNCHANGED claims
     ELSE job' = [job EXCEPT ![t].at = "send"] /\ TakeClaim(j.credit, j.day)
  /\ UNCHANGED <<day, overdue, street, requests, history, sent, crashes>>

\* The message goes out, or the channel fails and the claim stays.
SendReminder(t) ==
  /\ job[t].at = "send"
  /\ \/ sent' = [sent EXCEPT ![job[t].credit] = Append(@, job[t].day)]
     \/ UNCHANGED sent
  /\ job' = [job EXCEPT ![t] = Free]
  /\ UNCHANGED <<day, overdue, street, requests, history, claims, crashes>>
-----------------------------------------------------------------------------
\* A day passes: an installment of some credits falls due.
NextDay ==
  /\ day < MaxDays
  /\ day' = day + 1
  /\ \E late \in SUBSET Credits :
       overdue' = [c \in Credits |->
         IF c \in late /\ overdue[c] < MaxOverdue THEN overdue[c] + 1 ELSE overdue[c]]
  /\ UNCHANGED <<street, requests, history, reminders, job, crashes>>

\* A payment that does not come from a stop.
PaidElsewhere(c) ==
  /\ overdue[c] > 0
  /\ overdue' = [overdue EXCEPT ![c] = @ - 1]
  /\ UNCHANGED <<day, street, requests, history, reminders, job, crashes>>

Crash ==
  /\ crashes < MaxCrashes
  /\ \E t \in Threads : job[t] # Free
  /\ crashes' = crashes + 1
  /\ job' = [t \in Threads |-> Free]
  /\ UNCHANGED <<day, overdue, street, requests, history, reminders>>

RequestStep(t) ==
  \/ \E k \in Keys : Send(t, k)
  \/ AnswerStored(t) \/ FirstTime(t) \/ SaveAnswer(t)
  \/ ReadCandidate(t) \/ InsertStop(t) \/ ResolveStop(t)

VisitStep(t) ==
  \/ \E c \in Credits : ReadOverdue(t, c)
  \/ ReadLastVisit(t) \/ ReadLatestNote(t) \/ RecordVisit(t)

ReminderStep(t) ==
  \/ \E c \in Credits : FindDue(t, c)
  \/ ClaimReminder(t) \/ SendReminder(t)

Street ==
  \/ \E s \in DOMAIN stops : MarkStopSeen(s) \/ CancelStop(s)
  \/ \E c \in Credits : AddObservation(c) \/ PaidElsewhere(c)
  \/ NextDay
  \/ Crash

CollectNext ==
  \/ \E t \in Threads : RequestStep(t) \/ VisitStep(t) \/ ReminderStep(t)
  \/ Street

CollectSpec == CollectInit /\ [][CollectNext]_collectVars
-----------------------------------------------------------------------------
StopType == [credit : Credits, status : OpenStatuses \cup {"RESOLVED", "CANCELLED"},
             outcome : Outcomes \cup {"none"}, key : Keys]

NoteType == [what : {"note", "visit"}, level : Nat, by : {"any", "stop", "mark"}]

CollectTypeOK ==
  /\ day \in Nat
  /\ overdue \in [Credits -> Nat]
  /\ stops \in Seq(StopType) /\ Len(stops) <= MaxStops
  /\ stopPaid \in Seq(Nat)
  /\ Len(stopPaid) = Len(stops)
  /\ DOMAIN want = Keys /\ DOMAIN job = Threads
  /\ calls \in [Keys -> 0..MaxCalls]
  /\ stored \in [Keys -> {"none", "done", "refused"}]
  /\ history \in [Credits -> Seq(NoteType)] /\ \A c \in Credits : Len(history[c]) <= MaxHistory
  /\ claims \subseteq Credits \X Nat
  /\ sent \in [Credits -> Seq(Nat)]
  /\ crashes \in 0..MaxCrashes

\* Two coordinators never have the same client visited by two collectors.
OneOpenStop == \A c \in Credits : \A r, s \in OpenStops(c) : r = s

\* A stop has the one payment of the outcome it shows, whatever is retried, cancelled
\* or restarted in the middle ("todo o nada con el abono y la visita").
PaidAsResolved ==
  \A s \in DOMAIN stops :
    stopPaid[s] = IF stops[s].status = "RESOLVED" /\ stops[s].outcome = "PAID" THEN 1 ELSE 0

\* A stop that was resolved or cancelled does not change again, by any key.
ClosedIsFinal ==
  [][\A s \in DOMAIN stops : stops[s].status \notin OpenStatuses => stops'[s] = stops[s]]_collectVars

\* What the request of a key asks for has happened.
Effected(k) ==
  IF want[k].op = "dispatch"
  THEN \E s \in DOMAIN stops : stops[s].key = k
  ELSE /\ stops[want[k].stop].status = "RESOLVED"
       /\ stops[want[k].stop].outcome = want[k].outcome

\* The answer a client gets for a key was true: the request had its effect.
AnswerIsTrue == \A k \in Keys : stored[k] # "none" => Effected(k)

\* A client is reminded at most once a day, by the cron or by hand.
OneReminderADay ==
  \A c \in Credits : \A i, j \in DOMAIN sent[c] : sent[c][i] = sent[c][j] => i = j

-----------------------------------------------------------------------------
(* What the steps rely on, which makes the properties inductive             *)
(* (FieldProofs).                                                           *)

KeyJobs == [at : {"look", "dispatch", "insert", "resolve", "save"}, key : Keys]
ReminderJobs == [at : {"claim", "send"}, credit : Credits, day : Nat]
VisitJob(j) == j.at \in {"marking", "visited", "record"} /\ j.credit \in Credits /\ j.level \in Nat

JobsTyped ==
  \A t \in Threads :
    job[t] = Free \/ job[t] \in KeyJobs \/ job[t] \in ReminderJobs \/ VisitJob(job[t])

\* A key asks for one thing, for ever; a thread that handles it is at a step of that,
\* and what it is about to store as done is done.
RequestsFit ==
  /\ \A k \in Keys : want[k] = NoWant \/ want[k] \in Dispatches \/ want[k] \in Resolutions
  /\ \A k \in Keys : stored[k] # "none" => want[k] # NoWant
  /\ \A t \in Threads : job[t] \in KeyJobs =>
       /\ want[job[t].key] # NoWant
       /\ job[t].at \in {"dispatch", "insert"} => want[job[t].key].op = "dispatch"
       /\ job[t].at = "resolve" => want[job[t].key].op = "resolve"
       /\ job[t].at = "save" => Effected(job[t].key)

\* What was sent had been claimed, and a claim is of one thread, which has not sent yet.
RemindersFit ==
  /\ \A c \in Credits : \A i \in DOMAIN sent[c] : <<c, sent[c][i]>> \in claims
  /\ \A t \in Threads : job[t].at = "send" =>
       /\ <<job[t].credit, job[t].day>> \in claims
       /\ \A i \in DOMAIN sent[job[t].credit] : sent[job[t].credit][i] # job[t].day
       /\ \A u \in Threads : job[u].at = "send" /\ job[u].credit = job[t].credit
                               /\ job[u].day = job[t].day => u = t

\* What holds of the stops, the reminders and the answers of the interceptor in
\* every state, whatever is sent again and wherever the process dies.
StopsSafe ==
  /\ CollectTypeOK /\ JobsTyped /\ RequestsFit /\ RemindersFit
  /\ OneOpenStop
  /\ PaidAsResolved
  /\ OneReminderADay

\* A request that is repeated with its key runs once (idempotency.interceptor.ts lines
\* 18-19: "lo devuelve sin re-ejecutar (evita doble cobro/abono/desembolso)").
KeyRunsOnce ==
  \A k \in Keys : Cardinality({s \in DOMAIN stops : stops[s].key = k}) <= 1

\* A visit is marked once in each cycle of arrears (visit-policy.ts line 56).
OneVisitPerCycle ==
  \A c \in Credits : \A i, j \in Visits(c) :
    i < j /\ history[c][j].by = "mark" => history[c][j].level >= history[c][i].level + Threshold
=============================================================================
