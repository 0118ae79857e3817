---------------------------- MODULE OfflineSync ----------------------------
(***************************************************************************)
(* Cash collected without a signal: the mutation of the phone              *)
(* (apps/mobile/src/features/payments/api/queries.ts), the queue in the    *)
(* storage of the phone (apps/mobile/src/core/offline/queue.ts), the       *)
(* network between, and the endpoint that knows a payment by its           *)
(* Idempotency-Key (apps/api/src/payments/cash-payment.repository.ts).     *)
(*                                                                         *)
(* The phone is one thread that gives way at every await, so each access   *)
(* to its storage is a step.  An operation is named by its key.            *)
(***************************************************************************)
EXTENDS Naturals, Sequences, SequencesExt

CONSTANTS
  Ops,          \* collections, each with its key
  MaxLost,      \* bound on the requests that fail without an answer
  MaxRestarts   \* bound on the restarts of the app

ASSUME OfflineAssumption == MaxLost \in Nat /\ MaxRestarts \in Nat

VARIABLES
  tap,       \* tap[o]: where the mutation of o is
  saw,       \* saw[o]: the queue that the enqueue of o read
  queue,     \* preztia.offlineQueue.v1
  sweep,     \* the flush in progress, with the operations it read
  request,   \* request[o]: the request for o that the phone waits for
  late,      \* operations with a request on its way that nobody waits for
  lost,      \* requests so far whose answer did not arrive
  credited,  \* credited[o]: rows of payment with the key of o
  invalid,   \* what the server refuses (a sealed date, a credit of another zone)
  session,   \* is the access token valid
  refused,   \* operations the server answered with a 4xx
  queued,    \* operations enqueued, in the order their enqueue ended
  overlap,   \* has an enqueue overlapped a sweep or another enqueue
  restarts

phone == <<tap, saw, queue, sweep>>
network == <<request, late, lost>>
server == <<credited, invalid>>
syncVars == <<phone, network, server, session, refused, queued, overlap, restarts>>

NotSweeping == [at |-> "idle", ops |-> <<>>]
NoRequest == [by |-> "nobody", answer |-> "none"]

SyncInit ==
  /\ tap = [o \in Ops |-> "new"]
  /\ saw = [o \in Ops |-> <<>>]
  /\ queue = <<>>
  /\ sweep = NotSweeping
  /\ request = [o \in Ops |-> NoRequest]
  /\ late = {}
  /\ lost = 0
  /\ credited = [o \in Ops |-> 0]
  /\ invalid \in SUBSET Ops
  /\ session = TRUE
  /\ refused = {}
  /\ queued = <<>>
  /\ overlap = FALSE
  /\ restarts = 0
-----------------------------------------------------------------------------
(* The server.                                                              *)

\* The read of the key is what stops a repetition.
KeyKnownNever(o) == FALSE

\* The payment of this key is already there (the read, and the unique index).
KeyKnown(o) == credited[o] > 0

\* What the server does with a request of o, and what it answers: 401, the payment it
\* has already, a refusal, or the payment that it registers now.
Process(o, answer) ==
  \/ ~ session /\ answer = "4xx" /\ UNCHANGED credited
  \/ session /\ KeyKnown(o) /\ answer = "ok" /\ UNCHANGED credited
  \/ session /\ ~ KeyKnown(o) /\ o \in invalid /\ answer = "4xx" /\ UNCHANGED credited
  \/ session /\ ~ KeyKnown(o) /\ o \notin invalid /\ answer = "ok"
     /\ credited' = [credited EXCEPT ![o] = @ + 1]

Arrive(o) ==
  /\ request[o].by # "nobody" /\ request[o].answer = "none"
  /\ \E answer \in {"ok", "4xx"} :
       Process(o, answer) /\ request' = [request EXCEPT ![o].answer = answer]
  /\ UNCHANGED <<phone, late, lost, invalid, session, refused, queued, overlap, restarts>>

\* A request arrives after the phone gave up on it.
ArriveLate(o) ==
  /\ o \in late
  /\ \E answer \in {"ok", "4xx"} : Process(o, answer)
  /\ late' = late \ {o}
  /\ UNCHANGED <<phone, request, lost, invalid, session, refused, queued, overlap, restarts>>

Sent(o, by) == request' = [request EXCEPT ![o] = [by |-> by, answer |-> "none"]]

\* No answer (timeout, no signal, 5xx): the request may be still on its way.
NoAnswer(o, by) ==
  /\ request[o].by = by
  /\ lost < MaxLost
  /\ lost' = lost + 1
  /\ late' = IF request[o].answer = "none" THEN late \cup {o} ELSE late
  /\ request' = [request EXCEPT ![o] = NoRequest]

Answered(o, by, answer) == request[o].by = by /\ request[o].answer = answer
-----------------------------------------------------------------------------
(* The mutation.                                                            *)

Enqueuing == {o \in Ops : tap[o] \in {"reading", "writing"}}

Collect(o) ==
  /\ tap[o] = "new"
  /\ tap' = [tap EXCEPT ![o] = "sending"]
  /\ Sent(o, "tap")
  /\ UNCHANGED <<saw, queue, sweep, late, lost, server, session, refused, queued, overlap, restarts>>

Registered(o) ==
  /\ tap[o] = "sending" /\ Answered(o, "tap", "ok")
  /\ tap' = [tap EXCEPT ![o] = "registered"]
  /\ UNCHANGED <<saw, queue, sweep, network, server, session, refused, queued, overlap, restarts>>

\* A refusal is shown.
ShowError(o) ==
  /\ tap[o] = "sending" /\ Answered(o, "tap", "4xx")
  /\ tap' = [tap EXCEPT ![o] = "shown"]
  /\ refused' = refused \cup {o}
  /\ UNCHANGED <<saw, queue, sweep, network, server, session, queued, overlap, restarts>>

\* 5xx, too, although the server may have done it.
ShowFailure(o) ==
  /\ tap[o] = "sending" /\ NoAnswer(o, "tap")
  /\ tap' = [tap EXCEPT ![o] = "shown"]
  /\ UNCHANGED <<saw, queue, sweep, server, session, refused, queued, overlap, restarts>>

\* Status 0: enqueue, which reads the queue
Enqueue(o) ==
  /\ tap[o] = "sending" /\ NoAnswer(o, "tap")
  /\ tap' = [tap EXCEPT ![o] = "reading"]
  /\ UNCHANGED <<saw, queue, sweep, server, session, refused, queued, overlap, restarts>>

ReadQueue(o) ==
  /\ tap[o] = "reading"
  /\ tap' = [tap EXCEPT ![o] = "writing"]
  /\ saw' = [saw EXCEPT ![o] = queue]
  /\ overlap' = (overlap \/ sweep.at # "idle" \/ \E p \in Ops \ {o} : tap[p] = "writing")
  /\ UNCHANGED <<queue, sweep, network, server, session, refused, queued, restarts>>

\* and writes it with the operation at its end.
WriteQueue(o) ==
  /\ tap[o] = "writing"
  /\ tap' = [tap EXCEPT ![o] = "queued"]
  /\ queue' = Append(saw[o], o)
  /\ queued' = Append(queued, o)
  /\ UNCHANGED <<saw, sweep, network, server, session, refused, overlap, restarts>>
-----------------------------------------------------------------------------
(* The sweep.                                                               *)

\* flush, on start and when the network is back: one at a time, one read.
StartSweep ==
  /\ sweep.at = "idle"
  /\ queue # <<>>
  /\ sweep' = [at |-> "next", ops |-> queue]
  /\ overlap' = (overlap \/ \E o \in Ops : tap[o] = "writing")
  /\ UNCHANGED <<tap, saw, queue, network, server, session, refused, queued, restarts>>

\* The executor sends the first operation, with the key it was enqueued with.
Execute ==
  /\ sweep.at = "next" /\ sweep.ops # <<>>
  /\ sweep' = [sweep EXCEPT !.at = "waiting"]
  /\ Sent(Head(sweep.ops), "sweep")
  /\ UNCHANGED <<tap, saw, queue, late, lost, server, session, refused, queued, overlap, restarts>>

Removed ==
  /\ sweep' = [at |-> "next", ops |-> Tail(sweep.ops)]
  /\ queue' = Tail(sweep.ops)

Executed ==
  /\ sweep.at = "waiting" /\ Answered(Head(sweep.ops), "sweep", "ok")
  /\ Removed
  /\ UNCHANGED <<tap, saw, network, server, session, refused, queued, overlap, restarts>>

\* A refusal stays at the head of the queue, like a failure that may pass.
DropKeeping ==
  /\ sweep.at = "waiting" /\ Answered(Head(sweep.ops), "sweep", "4xx")
  /\ sweep' = NotSweeping
  /\ queue' = sweep.ops
  /\ UNCHANGED <<tap, saw, network, server, session, refused, queued, overlap, restarts>>

\* 4xx, 401 included: dropped.
Drop ==
  /\ sweep.at = "waiting" /\ Answered(Head(sweep.ops), "sweep", "4xx")
  /\ refused' = refused \cup {Head(sweep.ops)}
  /\ Removed
  /\ UNCHANGED <<tap, saw, network, server, session, queued, overlap, restarts>>

\* A failure that may pass drops the operation, too.
KeepForLaterDropping == Removed

\* A failure that may pass puts a copy at the end of the queue.
KeepForLaterCopied ==
  /\ sweep' = NotSweeping
  /\ queue' = Append(sweep.ops, Head(sweep.ops))

\* A failure that may pass goes on with the next one and leaves this for the end.
KeepForLaterLast ==
  /\ sweep' = [at |-> "next", ops |-> Append(Tail(sweep.ops), Head(sweep.ops))]
  /\ queue' = Append(Tail(sweep.ops), Head(sweep.ops))

\* A failure that may pass stops the sweep and keeps what was not done.
KeepForLater ==
  /\ sweep' = NotSweeping
  /\ queue' = sweep.ops

RetryLater ==
  /\ sweep.at = "waiting" /\ NoAnswer(Head(sweep.ops), "sweep")
  /\ KeepForLater
  /\ UNCHANGED <<tap, saw, server, session, refused, queued, overlap, restarts>>

EndSweep ==
  /\ sweep.at = "next" /\ sweep.ops = <<>>
  /\ sweep' = NotSweeping
  /\ UNCHANGED <<tap, saw, queue, network, server, session, refused, queued, overlap, restarts>>
-----------------------------------------------------------------------------
\* The token expires, and the collector signs in again.
Expire ==
  /\ session /\ restarts < MaxRestarts
  /\ session' = FALSE
  /\ UNCHANGED <<phone, network, server, refused, queued, overlap, restarts>>

SignIn ==
  /\ ~ session
  /\ session' = TRUE
  /\ UNCHANGED <<phone, network, server, refused, queued, overlap, restarts>>

\* The app is killed and opened again; the storage and the server stay.
Restart ==
  /\ restarts < MaxRestarts
  /\ restarts' = restarts + 1
  /\ tap' = [o \in Ops |-> IF tap[o] \in {"sending", "reading", "writing"} THEN "killed" ELSE tap[o]]
  /\ sweep' = NotSweeping
  /\ UNCHANGED <<saw, queue, network, server, session, refused, queued, overlap>>

SyncNext ==
  \/ \E o \in Ops : \/ Collect(o) \/ Registered(o) \/ ShowError(o) \/ ShowFailure(o)
                    \/ Enqueue(o) \/ ReadQueue(o) \/ WriteQueue(o) \/ Arrive(o) \/ ArriveLate(o)
  \/ StartSweep \/ Execute \/ Executed \/ Drop \/ RetryLater \/ EndSweep
  \/ Expire \/ SignIn \/ Restart

SyncSpec == SyncInit /\ [][SyncNext]_syncVars

\* A request arrives, a storage answers, and the queue is swept again while it is not
\* empty: on start, and when the browser is online again.
SweepStep == Execute \/ Executed \/ Drop \/ EndSweep

SyncFairSpec ==
  /\ SyncSpec
  /\ \A o \in Ops : WF_syncVars(Arrive(o)) /\ WF_syncVars(WriteQueue(o))
  /\ WF_syncVars(StartSweep) /\ WF_syncVars(SweepStep)
-----------------------------------------------------------------------------
Position(o) == IF o \in ToSet(queued) THEN CHOOSE i \in DOMAIN queued : queued[i] = o ELSE 0

SyncTypeOK ==
  /\ tap \in [Ops -> {"new", "sending", "reading", "writing", "queued", "registered", "shown", "killed"}]
  /\ sweep \in [at : {"idle", "next", "waiting"}, ops : Seq(Ops)]
  /\ request \in [Ops -> [by : {"nobody", "tap", "sweep"}, answer : {"none", "ok", "4xx"}]]
  /\ credited \in [Ops -> Nat] /\ DOMAIN saw = Ops
  /\ late \subseteq Ops /\ invalid \subseteq Ops
  /\ refused \subseteq Ops /\ session \in BOOLEAN /\ overlap \in BOOLEAN
  /\ lost \in 0..MaxLost /\ restarts \in 0..MaxRestarts

\* A queue of operations that were enqueued, none of them twice.
Line(s) == s \in Seq(Ops) /\ IsInjective(s) /\ \A i \in DOMAIN s : tap[s[i]] = "queued"

\* The queue is one, and so is what the sweep and an enqueue remember of it, which is
\* what makes the properties inductive (ProgressProofs).
QueuesFit ==
  /\ Line(queue) /\ Line(sweep.ops)
  /\ \A o \in Ops : tap[o] = "writing" => Line(saw[o])
  /\ sweep.at = "waiting" => sweep.ops # <<>>

\* A collection is credited once, however often its request is sent: by the mutation
\* that timed out and by every sweep ("sin doble abono", queue.ts line 11).
CreditedOnce == \A o \in Ops : credited[o] <= 1

\* The queue holds no operation twice, and no collection is credited twice.
SyncSafe == SyncTypeOK /\ QueuesFit /\ CreditedOnce

\* When no enqueue overlaps a sweep or another enqueue, an operation in the queue is
\* there until the server has it or has refused it, and a sweep credits it only when
\* it is done with those that were queued before, whatever fails.
QueueServed ==
  [][~ overlap' =>
       /\ \A o \in ToSet(queue) \ ToSet(queue') : credited'[o] > 0 \/ o \in refused'
       /\ late' = late => \A o \in ToSet(queue) :
            credited'[o] > credited[o] /\ request[o].by = "sweep" =>
              \A p \in ToSet(queued) :
                Position(p) < Position(o) => credited[p] > 0 \/ p \in refused]_syncVars

\* The queue empties: no failure keeps an operation in it for ever.
QueueDrains == []<>(queue = <<>>)

\* A write of the sweep takes an operation out of the queue only when it was done or
\* refused, in every behaviour ("Una operación se elimina si su ejecutor tiene éxito o
\* si falla con un error de negocio", queue.ts lines 81-82).
QueuedIsNeverLost ==
  [][sweep' # sweep =>
       \A o \in ToSet(queue) \ ToSet(queue') : credited'[o] > 0 \/ o \in refused']_syncVars
=============================================================================
