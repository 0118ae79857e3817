----------------------------- MODULE MCProgress -----------------------------
(***************************************************************************)
(* Three processes that must come to an end although what they wait for    *)
(* fails: the messages of an applicant (Intake), the collections queued in *)
(* a phone (OfflineSync), the periods of a tenant (SettlementPeriods).     *)
(* They share nothing; a behaviour is one of the three, its `world'.       *)
(*                                                                         *)
(* Messages: one applicant, two deliveries at once, a checklist of two     *)
(* documents (the first one, like the document of identity, wants two      *)
(* files).  The messages have no order of their own; of all that three of  *)
(* them can mean, the scenarios with a race are kept: two starts, a start  *)
(* and a restart, a restart in the middle of an album, and an album that   *)
(* completes the application, this one of an applicant with a credit.      *)
(* Queue: two collections, of which the server refuses one at most.        *)
(* Periods: a tenant that settles every day or every two days, by itself   *)
(* from day 1 on, or by hand, and that changes its mind until instant 3.   *)
(***************************************************************************)
EXTENDS Intake, OfflineSync, SettlementPeriods

CONSTANTS cron, admin, w1, w2

VARIABLE world

all == <<vars, syncVars, periodsVars, world>>

MCExpected == <<2, 1>>

MCSettings ==
  {[days |-> 1, anchor |-> 0, autoClose |-> TRUE, startDate |-> 1, rate |-> 1],
   [days |-> 2, anchor |-> 1, autoClose |-> TRUE, startDate |-> NoDay, rate |-> 2]}

Racing ==
  \/ kind \in {<<"start", "start", "file">>, <<"start", "restart", "file">>}
     /\ apps = <<>> /\ ~ credit
  \/ kind = <<"restart", "file", "file">> /\ apps # <<>> /\ ~ credit
  \/ kind = <<"file", "file", "file">> /\ apps # <<>> /\ credit

\* What is left alone begins in one way only.
Still ==
  /\ world # "messages" =>
       kind = <<"start", "start", "file">> /\ apps = <<>> /\ ~ credit
  /\ world # "queue" => invalid = {}
  /\ world # "periods" => settings.days = 1

MCInit ==
  /\ Init /\ SyncInit /\ PeriodsInit
  /\ world \in {"messages", "queue", "periods"}
  /\ Racing /\ invalid \subseteq {1} /\ Still

MCNext ==
  \/ world = "messages" /\ Next /\ UNCHANGED <<syncVars, periodsVars, world>>
  \/ world = "queue" /\ SyncNext /\ UNCHANGED <<vars, periodsVars, world>>
  \/ /\ world = "periods" /\ PeriodsNext
     /\ settings' # settings => clock <= 3
     /\ UNCHANGED <<vars, syncVars, world>>

\* The weak fairness of each world, numbered: one condition serves the three,
\* of which a behaviour has one.
Turn(n) ==
  \/ /\ world = "messages" /\ UNCHANGED <<syncVars, periodsVars, world>>
     /\ \/ n \in Messages /\ Redeliver(n)
        \/ n = 4 /\ GoOn(w1)
        \/ n = 5 /\ GoOn(w2)
  \/ /\ world = "queue" /\ UNCHANGED <<vars, periodsVars, world>>
     /\ \/ n \in Ops /\ Arrive(n)
        \/ n - 2 \in Ops /\ WriteQueue(n - 2)
        \/ n = 5 /\ StartSweep
        \/ n = 6 /\ SweepStep
  \/ /\ world = "periods" /\ UNCHANGED <<vars, syncVars, world>>
     /\ \/ n = 1 /\ Call(Cron)
        \/ n = 2 /\ Statement(cron)
        \/ n = 3 /\ Statement(admin)

LockTurn ==
  world = "periods" /\ Lock(Cron) /\ UNCHANGED <<vars, syncVars, world>>

MCSpec ==
  /\ MCInit /\ [][MCNext]_all
  /\ \A n \in 1..6 : WF_all(Turn(n))
  /\ SF_all(LockTurn)

\* Where the messages of the channel are what moves, every message that was
\* delivered ends attended, or dropped by the channel after its attempts.
MessagesSettle == []<>(world = "messages" => AllSettled)

\* Where the phone is what moves, its queue of collections drains.
PhoneDrains == []<>(world = "queue" => queue = <<>>)

\* Where the calendar is what moves, the closing job seals the periods that
\* have ended, whatever fails on the way.
JobCatchesUp == []<>(world = "periods" => CaughtUp)

=============================================================================
