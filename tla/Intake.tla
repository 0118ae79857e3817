------------------------------- MODULE Intake -------------------------------
(***************************************************************************)
(* What the messages of one applicant do to their applications: the        *)
(* delivery by the channel (apps/api/src/conversations, apps/api/src/      *)
(* telegram), the claim of a message, its routing                          *)
(* (packages/application/src/conversations) and the checklist of documents *)
(* (packages/domain/src/credit/application), with the row locks of         *)
(* credit-application.repository.ts and the decision of the coordinator.   *)
(*                                                                         *)
(* A worker is one delivery in flight in the API, which is one process: a  *)
(* crash loses all of them.  Texts and receipts are abstracted to what     *)
(* they do: "start" and "restart" are what the assistant understood, and a *)
(* receipt of a payment leaves this module for module Payments.            *)
(***************************************************************************)
EXTENDS Naturals, Sequences, FiniteSets

CONSTANTS
  Messages,      \* messages of the applicant
  Workers,       \* deliveries that are handled at once
  Expected,      \* Expected[d]: files of the d-th document of the checklist
  MaxAttempts,   \* MAX_ATTEMPTS of the document reviewer
  MaxApps,       \* bound on the applications
  MaxFaults,     \* bound on the redeliveries of what was accepted and the crashes
  Nobody

ASSUME IntakeAssumption ==
  /\ Expected \in Seq(Nat \ {0}) /\ Expected # <<>>
  /\ MaxAttempts \in Nat /\ MaxApps \in Nat \ {0} /\ MaxFaults \in Nat
  /\ Nobody \notin Workers

VARIABLES
  kind,       \* kind[m]: what the applicant means by m
  credit,     \* does the applicant also have an active credit
  accepted,   \* the messages the channel has a 200 for
  duplicates, \* redeliveries of accepted messages so far
  claimed,    \* rows of processed_inbound_message
  outcome,    \* outcome[m]: what became of m
  job,        \* job[w]: the delivery in w
  apps,       \* the applications, in the order of their creation
  files,      \* rows of credit_application_document_file
  appLock,    \* appLock[i]: who holds the row of application i
  docLock,    \* docLock[i]: who holds the rows of its documents
  decision,   \* the decision that was read and is about to be written
  crashes

channel == <<kind, credit, accepted, duplicates>>
stored == <<apps, files>>
locks == <<appLock, docLock>>
vars == <<channel, claimed, outcome, job, stored, locks, decision, crashes>>

Documents == 1..Len(Expected)
Kinds == {"start", "restart", "file"}
ActiveStatuses == {"AWAITING_DOCUMENTS", "IN_REVIEW"}

Idle == [at |-> "idle"]
NoDecision == [app |-> 0, to |-> "none"]

PendingDocument == [status |-> "PENDING", received |-> 0, attempts |-> 0]

\* createCreditApplication.
NewApplication ==
  [status |-> "AWAITING_DOCUMENTS", docs |-> [d \in Documents |-> PendingDocument]]

\* An applicant who is new, or whose application was just created.
Init ==
  /\ kind \in [Messages -> Kinds]
  /\ credit \in BOOLEAN
  /\ accepted = {}
  /\ duplicates = 0
  /\ claimed = {}
  /\ outcome = [m \in Messages |-> "none"]
  /\ job = [w \in Workers |-> Idle]
  /\ apps \in {<<>>, <<NewApplication>>}
  /\ files = {}
  /\ appLock = [i \in 1..MaxApps |-> Nobody]
  /\ docLock = [i \in 1..MaxApps |-> Nobody]
  /\ decision = NoDecision
  /\ crashes = 0
-----------------------------------------------------------------------------
(* The checklist.                                                           *)

NotValidated(docs) == {d \in Documents : docs[d].status # "VALIDATED"}

\* The last document that is missing.
NextPendingLast(docs) == CHOOSE d \in NotValidated(docs) : \A e \in NotValidated(docs) : e <= d

\* nextPendingDocument, of a checklist that is not complete.
NextPending(docs) == CHOOSE d \in NotValidated(docs) : \A e \in NotValidated(docs) : d <= e

\* A document wants one file more than it should.
ApplyResultLate(d, doc, ok) ==
  IF ~ ok THEN [doc EXCEPT !.status = "REJECTED", !.attempts = @ + 1]
  ELSE [status |-> IF doc.received >= Expected[d] THEN "VALIDATED" ELSE "RECEIVED",
        received |-> doc.received + 1,
        attempts |-> 0]

\* applyResult.
ApplyResult(d, doc, ok) ==
  IF ~ ok THEN [doc EXCEPT !.status = "REJECTED", !.attempts = @ + 1]
  ELSE [status |-> IF doc.received + 1 >= Expected[d] THEN "VALIDATED" ELSE "RECEIVED",
        received |-> doc.received + 1,
        attempts |-> 0]

\* The status is decided with the documents as they were before.
RecordResultBefore(docs, d, ok) ==
  [docs |-> [docs EXCEPT ![d] = ApplyResult(d, docs[d], ok)],
   status |-> IF NotValidated(docs) = {} THEN "IN_REVIEW" ELSE "AWAITING_DOCUMENTS"]

\* recordDocumentResult.
RecordResult(docs, d, ok) ==
  LET after == [docs EXCEPT ![d] = ApplyResult(d, docs[d], ok)] IN
  [docs |-> after,
   status |-> IF NotValidated(after) = {} THEN "IN_REVIEW" ELSE "AWAITING_DOCUMENTS"]

\* decideDocumentReview: is the file accepted, given whether it is sound, what the
\* AI said of it ("none" when it did not answer) and the attempts before.
FileAccepted(sound, said, attempts) ==
  /\ sound
  /\ said \in {"none", "matches"} \/ attempts + 1 > MaxAttempts

Active == {i \in 1..Len(apps) : apps[i].status \in ActiveStatuses}

\* credit_application_active_applicant_idx is not there.
MayBeActiveUnchecked(i) == TRUE

\* credit_application_active_applicant_idx: application i may be active.
MayBeActive(i) == Active \subseteq {i}

TheActive == CHOOSE i \in Active : TRUE

\* The active application, when a document of it is missing.
Incomplete == {i \in Active : NotValidated(apps[i].docs) # {}}
-----------------------------------------------------------------------------
(* Delivery and claim.                                                      *)

\* The provider delivers until it is answered 200, and sometimes again.
Deliver(w, m) ==
  /\ job[w] = Idle
  /\ \/ m \notin accepted /\ (\A v \in Workers : job[v] # Idle => job[v].m # m)
        /\ UNCHANGED duplicates
     \/ duplicates + crashes < MaxFaults /\ duplicates' = duplicates + 1
  /\ job' = [job EXCEPT ![w] = [at |-> "received", m |-> m]]
  /\ UNCHANGED <<kind, credit, accepted, claimed, outcome, stored, locks, decision, crashes>>

FreeLocks(w) ==
  /\ appLock' = [i \in DOMAIN appLock |-> IF appLock[i] = w THEN Nobody ELSE appLock[i]]
  /\ docLock' = [i \in DOMAIN docLock |-> IF docLock[i] = w THEN Nobody ELSE docLock[i]]

\* The answer is 200, whatever happened; the transaction ends with it.
Answer(w, result) ==
  /\ accepted' = accepted \cup {job[w].m}
  /\ outcome' = [outcome EXCEPT ![job[w].m] = result]
  /\ job' = [job EXCEPT ![w] = Idle]
  /\ FreeLocks(w)
  /\ UNCHANGED <<kind, credit, duplicates>>

\* firstSeen looks for the row and does not insert it until the message is handled.
ClaimLater(w) ==
  /\ job[w].at = "received"
  /\ job[w].m \notin claimed
  /\ job' = [job EXCEPT ![w] = [at |-> kind[job[w].m], m |-> job[w].m]]
  /\ UNCHANGED <<channel, claimed, outcome, stored, locks, decision, crashes>>

\* firstSeen: the insert and its unique index.
Claim(w) ==
  /\ job[w].at = "received"
  /\ job[w].m \notin claimed
  /\ claimed' = claimed \cup {job[w].m}
  /\ job' = [job EXCEPT ![w] = [at |-> kind[job[w].m], m |-> job[w].m]]
  /\ UNCHANGED <<channel, outcome, stored, locks, decision, crashes>>

\* Already processed, or being processed: accepted without doing anything.
AlreadyClaimed(w) ==
  /\ job[w].at = "received"
  /\ job[w].m \in claimed
  /\ Answer(w, outcome[job[w].m])
  /\ UNCHANGED <<claimed, stored, decision, crashes>>

\* A failed transaction keeps its locks.
FailKeepingLocks(w) ==
  /\ job[w].at \notin {"idle", "received"}
  /\ accepted' = accepted \cup {job[w].m}
  /\ outcome' = [outcome EXCEPT ![job[w].m] = "failed"]
  /\ job' = [job EXCEPT ![w] = Idle]
  /\ UNCHANGED <<kind, credit, duplicates, claimed, stored, locks, decision, crashes>>

\* A handler throws (the AI, the storage, a deadlock, a unique index): the
\* transaction is rolled back, the failure is logged and the answer is 200.
Fail(w) ==
  /\ job[w].at \notin {"idle", "received"}
  /\ Answer(w, "failed")
  /\ UNCHANGED <<claimed, stored, decision, crashes>>

\* The saving of a document and a reset take the same rows in opposite orders; the
\* database ends the wait by failing one of them.
Deadlocked(w) ==
  /\ job[w].at = "write" /\ appLock[job[w].app] = w
  /\ \E v \in Workers \ {w} :
       docLock[job[w].app] = v /\ job[v].at = "reopen" /\ job[v].app = job[w].app

\* The index refuses a second active application.
Refused(w) ==
  \/ job[w].at = "create" /\ (Len(apps) = MaxApps \/ ~ MayBeActive(Len(apps) + 1))
  \/ job[w].at = "reopen" /\ ~ MayBeActive(job[w].app)
-----------------------------------------------------------------------------
(* A file.                                                                  *)

\* RouteInboundMediaHandler: no context, a document, or a receipt of a payment.
IgnoreFile(w) ==
  /\ job[w].at = "file"
  /\ Active = {} /\ ~ credit
  /\ Answer(w, "done")
  /\ UNCHANGED <<claimed, stored, decision, crashes>>

\* With a credit the classifier decides; without an application it is a receipt.
RouteToPayments(w) ==
  /\ job[w].at = "file"
  /\ credit
  /\ Answer(w, "payment")
  /\ UNCHANGED <<claimed, stored, decision, crashes>>

RouteToDocuments(w) ==
  /\ job[w].at = "file"
  /\ Active # {}
  /\ job' = [job EXCEPT ![w].at = "document"]
  /\ UNCHANGED <<channel, claimed, outcome, stored, locks, decision, crashes>>

Reading(w, i) ==
  [at |-> "review", m |-> job[w].m, app |-> i, docs |-> apps[i].docs]

\* The application is read and not locked.
ReadApplication(w) ==
  /\ job[w].at = "document"
  /\ Incomplete # {}
  /\ job' = [job EXCEPT ![w] = Reading(w, TheActive)]
  /\ UNCHANGED <<channel, claimed, outcome, stored, locks, decision, crashes>>

\* withActiveApplicationLocked: FOR UPDATE waits, and looks at the status again.
LockApplication(w) ==
  /\ job[w].at = "document"
  /\ Incomplete # {}
  /\ appLock[TheActive] = Nobody
  /\ appLock' = [appLock EXCEPT ![TheActive] = w]
  /\ job' = [job EXCEPT ![w] = Reading(w, TheActive)]
  /\ UNCHANGED <<channel, claimed, outcome, stored, docLock, decision, crashes>>

\* There is no application any more, or nothing is missing in it.
NothingPending(w) ==
  /\ job[w].at = "document"
  /\ Incomplete = {}
  /\ \A i \in Active : appLock[i] = Nobody
  /\ Answer(w, "done")
  /\ UNCHANGED <<claimed, stored, decision, crashes>>

\* processLocked: antifraud, review and storage, which take long.
Review(w) ==
  /\ job[w].at = "review"
  /\ \E sound \in BOOLEAN, said \in {"none", "matches", "differs"} :
       job' = [job EXCEPT ![w] =
         [at |-> "write", m |-> @.m, app |-> @.app, docs |-> @.docs,
          ok |-> FileAccepted(sound, said, @.docs[NextPending(@.docs)].attempts)]]
  /\ UNCHANGED <<channel, claimed, outcome, stored, locks, decision, crashes>>

\* saveDocumentOutcome: the file in its slot, the document and the application,
\* whose rows wait for who holds them.
SaveOutcome(w) ==
  LET j == job[w]
      d == NextPending(j.docs)
      result == RecordResult(j.docs, d, j.ok)
  IN
  /\ j.at = "write"
  /\ docLock[j.app] = Nobody
  /\ appLock[j.app] \in {w, Nobody}
  /\ apps' = [apps EXCEPT ![j.app] =
       [status |-> result.status, docs |-> [@.docs EXCEPT ![d] = result.docs[d]]]]
  /\ files' = IF j.ok THEN files \cup {[app |-> j.app, doc |-> d,
                                        slot |-> result.docs[d].received, m |-> j.m]}
              ELSE files
  /\ Answer(w, "done")
  /\ UNCHANGED <<claimed, decision, crashes>>
-----------------------------------------------------------------------------
(* Start and restart.                                                       *)

\* The applicant is committed already: an approved application.
Committed == \E i \in 1..Len(apps) : apps[i].status = "APPROVED"

AnswerCommitted(w) ==
  /\ job[w].at \in {"start", "restart"}
  /\ Committed
  /\ Answer(w, "done")
  /\ UNCHANGED <<claimed, stored, decision, crashes>>

\* start, and restart when there is nothing to restart.
FindActive(w) ==
  /\ job[w].at \in {"start", "restart"}
  /\ ~ Committed
  /\ \/ Active = {}
        /\ job' = [job EXCEPT ![w].at = "create"]
        /\ UNCHANGED <<accepted, outcome, duplicates, kind, credit, locks>>
     \/ Active # {} /\ job[w].at = "restart"
        /\ job' = [job EXCEPT ![w] = [at |-> "reset", m |-> @.m, app |-> TheActive]]
        /\ UNCHANGED <<accepted, outcome, duplicates, kind, credit, locks>>
     \/ Active # {} /\ job[w].at = "start"
        /\ Answer(w, "done")
  /\ UNCHANGED <<claimed, stored, decision, crashes>>

Create(w) ==
  /\ job[w].at = "create"
  /\ Len(apps) < MaxApps
  /\ MayBeActive(Len(apps) + 1)
  /\ apps' = Append(apps, NewApplication)
  /\ Answer(w, "done")
  /\ UNCHANGED <<claimed, files, decision, crashes>>

\* reset: its first statement takes the rows of the documents.
ResetDocuments(w) ==
  /\ job[w].at = "reset"
  /\ docLock[job[w].app] = Nobody
  /\ docLock' = [docLock EXCEPT ![job[w].app] = w]
  /\ job' = [job EXCEPT ![w].at = "reopen"]
  /\ UNCHANGED <<channel, claimed, outcome, stored, appLock, decision, crashes>>

\* The files of the round before stay.
WithoutFilesKept(i) == files

\* The files of application i are removed.
WithoutFiles(i) == {f \in files : f.app # i}

\* Its last one takes the row of the application, in whatever status it is now.
ResetApplication(w) ==
  LET i == job[w].app IN
  /\ job[w].at = "reopen"
  /\ appLock[i] = Nobody
  /\ MayBeActive(i)
  /\ apps' = [apps EXCEPT ![i] = NewApplication]
  /\ files' = WithoutFiles(i)
  /\ Answer(w, "done")
  /\ UNCHANGED <<claimed, decision, crashes>>
-----------------------------------------------------------------------------
(* The coordinator, and crashes.                                            *)

\* loadDecisionSnapshot and nextDecisionStatus.
ReadDecision(i, to) ==
  /\ decision = NoDecision
  /\ apps[i].status \in ActiveStatuses \cup {to}
  /\ decision' = [app |-> i, to |-> to]
  /\ UNCHANGED <<channel, claimed, outcome, job, stored, locks, crashes>>

\* transition: an UPDATE by id.
WriteDecision ==
  /\ decision # NoDecision
  /\ appLock[decision.app] = Nobody
  /\ apps' = [apps EXCEPT ![decision.app].status = decision.to]
  /\ decision' = NoDecision
  /\ UNCHANGED <<channel, claimed, outcome, job, files, locks, crashes>>

Crash ==
  /\ duplicates + crashes < MaxFaults
  /\ \E w \in Workers : job[w] # Idle
  /\ crashes' = crashes + 1
  /\ outcome' = [m \in Messages |->
       IF \E w \in Workers : job[w].at \notin {"idle", "received"} /\ job[w].m = m
       THEN "lost" ELSE outcome[m]]
  /\ job' = [w \in Workers |-> Idle]
  /\ appLock' = [i \in 1..MaxApps |-> Nobody]
  /\ docLock' = [i \in 1..MaxApps |-> Nobody]
  /\ decision' = NoDecision
  /\ UNCHANGED <<channel, claimed, stored>>
-----------------------------------------------------------------------------
Handle(w) ==
  \/ Claim(w) \/ AlreadyClaimed(w)
  \/ IgnoreFile(w) \/ RouteToPayments(w) \/ RouteToDocuments(w)
  \/ LockApplication(w) \/ NothingPending(w) \/ Review(w) \/ SaveOutcome(w)
  \/ AnswerCommitted(w) \/ FindActive(w) \/ Create(w)
  \/ ResetDocuments(w) \/ ResetApplication(w)

Next ==
  \/ \E w \in Workers : Handle(w) \/ Fail(w) \/ \E m \in Messages : Deliver(w, m)
  \/ \E i \in 1..Len(apps), to \in {"APPROVED", "REJECTED"} : ReadDecision(i, to)
  \/ WriteDecision
  \/ Crash

Spec == Init /\ [][Next]_vars

\* The channel delivers what was not accepted; a handler goes on when it does not
\* wait for a row; the database fails what cannot go on.
Redeliver(m) == m \notin accepted /\ \E w \in Workers : Deliver(w, m)
GoOn(w) == Handle(w) \/ ((Deadlocked(w) \/ Refused(w)) /\ Fail(w))

FairSpec ==
  /\ Spec
  /\ \A m \in Messages : WF_vars(Redeliver(m))
  /\ \A w \in Workers : WF_vars(GoOn(w))
-----------------------------------------------------------------------------
DocumentType ==
  [status : {"PENDING", "RECEIVED", "VALIDATED", "REJECTED"}, received : Nat, attempts : Nat]

ApplicationType ==
  [status : ActiveStatuses \cup {"APPROVED", "REJECTED"}, docs : [Documents -> DocumentType]]

FileType == [app : 1..Len(apps), doc : Documents, slot : Nat, m : Messages]

JobType ==
  {Idle}
  \cup [at : Kinds \cup {"received", "document", "create"}, m : Messages]
  \cup [at : {"reset", "reopen"}, m : Messages, app : 1..Len(apps)]
  \cup [at : {"review"}, m : Messages, app : 1..Len(apps), docs : [Documents -> DocumentType]]
  \cup [at : {"write"}, m : Messages, app : 1..Len(apps), docs : [Documents -> DocumentType],
         ok : BOOLEAN]

TypeOK ==
  /\ kind \in [Messages -> Kinds] /\ credit \in BOOLEAN
  /\ accepted \subseteq Messages /\ claimed \subseteq Messages
  /\ duplicates \in Nat /\ crashes \in Nat /\ duplicates + crashes <= MaxFaults
  /\ outcome \in [Messages -> {"none", "done", "payment", "failed", "lost"}]
  /\ job \in [Workers -> JobType]
  /\ apps \in Seq(ApplicationType) /\ Len(apps) <= MaxApps
  /\ files \subseteq FileType /\ IsFiniteSet(files)
  /\ appLock \in [1..MaxApps -> Workers \cup {Nobody}]
  /\ docLock \in [1..MaxApps -> Workers \cup {Nobody}]
  /\ decision \in {NoDecision} \cup [app : 1..Len(apps), to : {"APPROVED", "REJECTED"}]

\* A document has at most the files it expects, and misses one until it is validated.
NoFileTooMany ==
  \A i \in 1..Len(apps), d \in Documents :
    /\ apps[i].docs[d].received <= Expected[d]
    /\ apps[i].docs[d].status # "VALIDATED" => apps[i].docs[d].received < Expected[d]

\* The slots of a document are the files it says it has, each filled once, also
\* when photos of an album and a restart race (credit-application.repository.ts
\* lines 60-67; required-document-file slot index).
FilesFillTheSlots ==
  \A i \in 1..Len(apps), d \in Documents :
    LET of == {f \in files : f.app = i /\ f.doc = d} IN
    /\ {f.slot : f \in of} = 1..apps[i].docs[d].received
    /\ Cardinality(of) = apps[i].docs[d].received

\* A file becomes part of an application once, however often it is delivered.
EachFileOnce == \A f, g \in files : f.m = g.m => f = g

\* The checklist is filled in its order: nothing is counted for a document, not
\* even a failed attempt, while an earlier one misses a file.
DocumentsInTurn ==
  \A i \in 1..Len(apps), d \in Documents :
    apps[i].docs[d] # PendingDocument =>
      \A e \in 1..(d - 1) : apps[i].docs[e].status = "VALIDATED"

\* An open application is in review when, and only when, it is complete.
ReviewMeansComplete ==
  \A i \in Active : apps[i].status = "IN_REVIEW" <=> NotValidated(apps[i].docs) = {}

\* Two messages that start an application never leave the applicant with two.
OneActiveApplication == Cardinality(Active) <= 1

\* The message that w claimed and did not answer yet.
Handling(w) == job[w].at \notin {"idle", "received"}

\* A claimed message is handled by one worker, is settled by nobody else, and left no
\* file yet; without the claim it leaves no trace (inbound-message-deduplicator.ts).
ClaimedFirst ==
  /\ \A w \in Workers : Handling(w) =>
       /\ job[w].m \in claimed /\ outcome[job[w].m] = "none"
       /\ \A v \in Workers : Handling(v) /\ job[v].m = job[w].m => v = w
       /\ \A f \in files : f.m # job[w].m
  /\ \A m \in Messages : outcome[m] # "none" => m \in claimed
  /\ \A f \in files : f.m \in claimed

\* What a worker read of the application it reviews a file for is still so when it
\* writes, whatever the other deliveries, the restarts and the coordinator did.
ReadIsFresh ==
  \A w \in Workers : job[w].at \in {"review", "write"} =>
    /\ appLock[job[w].app] = w
    /\ job[w].app \in Incomplete
    /\ job[w].docs = apps[job[w].app].docs

\* What holds of the applications of an applicant in every state, whatever is
\* delivered twice, restarted or cut by a crash.
IntakeSafe ==
  /\ TypeOK
  /\ NoFileTooMany
  /\ FilesFillTheSlots
  /\ EachFileOnce
  /\ DocumentsInTurn
  /\ ReviewMeansComplete
  /\ OneActiveApplication
  /\ ClaimedFirst
  /\ ReadIsFresh

\* What became of a message is settled once: a redelivery changes nothing of it.
AttendedOnce ==
  [][\A m \in Messages : outcome[m] # "none" => outcome'[m] = outcome[m]]_vars

\* Every message is attended, fails with a trace, or was in flight in a crash.
AllSettled == \A m \in Messages : outcome[m] # "none"

\* In the end it is so, and it stays so: no wait on a row lasts for ever.
EveryMessageSettles == []<>AllSettled

\* A resolved application is never open again ("Si ya fue resuelta hacia el OTRO
\* estado terminal, es un conflicto", credit-application.ts lines 183).
ResolvedForGood ==
  [][\A i \in 1..Len(apps) : apps[i].status \notin ActiveStatuses =>
       apps'[i].status \notin ActiveStatuses]_vars
=============================================================================
