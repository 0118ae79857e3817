------------------------- MODULE DocumentValidation -------------------------
(***************************************************************************)
(* The validation of the documents of an application, once they are        *)
(* complete and again whenever a reviewer has one read another time        *)
(* (validate-application-documents.ts, re-extract-document.service.ts and  *)
(* the rules under domain/src/antifraud).                                  *)
(*                                                                         *)
(* A run takes the last reading of every document, applies the local       *)
(* rules, asks five public sources, any of which may be down, and files    *)
(* one more report.  What the sources say does not change, so the five     *)
(* questions are one step; what may change under a run is the readings.    *)
(*                                                                         *)
(* Of an alert only its severity is kept.  A name is the set of its words, *)
(* a date a day, and an identifier tells whether its check digits hold.    *)
(***************************************************************************)
EXTENDS Sums, SequencesExt

CONSTANTS
  Runs,          \* requests of reviewers, and the one that ends the intake
  Folders,       \* the first reading of each document, or Absent
  Files,         \* Files[t]: what the AI may read in document t another time
  Worlds,        \* what the sources may know: registry, ceps, ddd, cpf
  Today,
  Absent,        \* not read, not there, not told
  MaxReadings,   \* bound of the readings of a document
  MaxReports     \* bound of the reports

VARIABLES
  readings,      \* readings[t]: every reading of document t, oldest first
  world,
  run,           \* run[r]: what r goes on with
  reports,       \* the reports of the application, oldest first
  failed         \* history: a run ended without its report

validationVars == <<readings, world, run, reports, failed>>

Documents == {"identity", "business", "photo", "utility"}
Lookups == {"business", "issuer", "cep", "ddd", "cpf"}
Waiting == [at |-> "waiting"]

\* Severities and their weights (scoring.ts).
Weight == [CRITICA |-> 100, ALTA |-> 40, MEDIA |-> 15, BAJA |-> 5]
LowerThreshold == 25
SuspiciousFrom == 30

Alert(severity, found) == IF found THEN <<severity>> ELSE <<>>

\* scoreValidation.
Score(alerts) ==
  LET total == Total([k \in DOMAIN alerts |-> Weight[alerts[k]]])
  IN  IF total < 100 THEN total ELSE 100
Verdict(alerts) ==
  CASE "CRITICA" \in ToSet(alerts) -> "rejected"
    [] "CRITICA" \notin ToSet(alerts)
       /\ ("ALTA" \in ToSet(alerts) \/ Score(alerts) >= SuspiciousFrom) -> "suspicious"
    [] OTHER -> "approved"

\* namesLooselyMatch: the words of one are among those of the other, two at least
\* unless they are the same.
LooselyMatch(a, b) ==
  \/ a = b /\ a # {}
  \/ a \subseteq b /\ Cardinality(a) >= 2
  \/ b \subseteq a /\ Cardinality(b) >= 2
MatchesAny(name, names) == \E n \in names : LooselyMatch(name, n)
Told(x) == x # Absent
Differ(x, y) == Told(x) /\ Told(y) /\ x # y
-----------------------------------------------------------------------------
(* Local rules.                                                            *)

LegalAge == 18 * 365
MaxReceiptAge == 90
MinBusinessAge == 6 * 30

\* reviewIdentityDocument.
ReviewIdentity(i) ==
  Alert("MEDIA", i.cpf = "unread") \o Alert("ALTA", i.cpf = "wrong")
  \o Alert("ALTA", Told(i.born) /\ i.born > Today)
  \o Alert("ALTA", Told(i.issued) /\ i.issued > Today)
  \o Alert("ALTA", Told(i.born) /\ Told(i.issued) /\ i.born >= i.issued)
  \o Alert("ALTA", Told(i.born) /\ i.born <= Today /\ i.born + LegalAge > Today)
  \o Alert("MEDIA", Told(i.expires) /\ i.expires < Today)

\* reviewBusinessDocument.
ReviewBusiness(b) ==
  Alert("MEDIA", b.cnpj = "unread") \o Alert("ALTA", b.cnpj = "wrong")

\* reviewLinhaDigitavel: utilities are the segments 2, 3 and 4.
ReviewLine(line, amount) ==
  IF ~ line.valid THEN <<"ALTA">>
  ELSE Alert("CRITICA", Differ(line.amount, amount))
       \o Alert("MEDIA", line.segment \notin {2, 3, 4})

\* reviewUtilityReceipt.
ReviewUtility(u) ==
  Alert("MEDIA", ~ Told(u.issued))
  \o Alert("ALTA", Told(u.issued) /\ u.issued > Today)
  \o Alert("ALTA", Told(u.issued) /\ u.issued + MaxReceiptAge < Today)
  \o Alert("MEDIA", Told(u.month) /\ Told(u.due) /\ u.due < u.month)
  \o Alert("ALTA", u.issuer = "wrong")
  \o IF Told(u.line) THEN ReviewLine(u.line, u.amount) ELSE <<>>

\* reviewFileMetadata: editors counts the fields that name an image editor.
ReviewMetadata(file) ==
  IF ~ Told(file) THEN <<>>
  ELSE [k \in 1..file.editors |-> "ALTA"] \o Alert("MEDIA", file.touched)

Local(docs) ==
  FlattenSeq([k \in 1..4 |->
    LET t == <<"identity", "business", "photo", "utility">>[k] IN
    IF ~ Told(docs[t]) THEN <<"MEDIA">>     \* no reading: for a person
    ELSE CASE t = "identity" -> ReviewIdentity(docs[t]) \o ReviewMetadata(docs[t].file)
           [] t = "business" -> ReviewBusiness(docs[t]) \o ReviewMetadata(docs[t].file)
           [] t = "photo" -> <<>>           \* its study has no rule here
           [] t = "utility" -> ReviewUtility(docs[t]) \o ReviewMetadata(docs[t].file)])
-----------------------------------------------------------------------------
(* What the sources answer.                                                *)

Numbered(n) == n \notin {"unread", "wrong"}

\* crossCheckBusinessAgainstRegistry.
CrossBusiness(b, rec) ==
  Alert("CRITICA", ~ rec.active)
  \o Alert("ALTA", Told(b.name) /\ ~ LooselyMatch(b.name, rec.name))
  \o Alert("CRITICA", /\ rec.partners # {}
                      /\ \E p \in b.partners : ~ MatchesAny(p, rec.partners))
  \o Alert("MEDIA", Differ(b.capital, rec.capital))
  \o Alert("MEDIA", Differ(b.cep, rec.cep))
  \o Alert("MEDIA", Differ(b.uf, rec.uf))
  \o Alert("MEDIA", Told(rec.since) /\ rec.since + MinBusinessAge > Today)

\* crossCheckUtilityIssuerAgainstRegistry.
CrossIssuer(rec) ==
  Alert("ALTA", ~ rec.active) \o Alert("CRITICA", rec.sector = "other")

\* crossCheckAddressAgainstCep.
CrossAddress(u, rec) ==
  IF ~ Told(rec) THEN <<"ALTA">>
  ELSE Alert("ALTA", Differ(u.uf, rec.uf))
       \o Alert("MEDIA", Told(u.city) /\ ~ LooselyMatch(u.city, rec.city))

\* crossCheckIdentityAgainstCpfRegistry: whatever has "regular" in it is regular, and
\* a CPF that the registry does not know is of nobody, {}, in another situation.
CrossIdentity(i, rec) ==
  Alert("CRITICA", rec.situation = "terminal")
  \o Alert("ALTA", rec.situation = "other")
  \o Alert("CRITICA", Told(i.name) /\ ~ LooselyMatch(i.name, rec.name))
  \o Alert("ALTA", Differ(i.born, rec.born))

\* The state a phone is compared with is that of the bill, or of the business.
DocumentUf(docs) ==
  IF Told(docs["utility"]) /\ Told(docs["utility"].uf) THEN docs["utility"].uf
  ELSE IF Told(docs["business"]) THEN docs["business"].uf ELSE Absent
Phone(docs) ==
  IF Told(docs["identity"]) THEN docs["identity"].phone
  ELSE IF Told(docs["utility"]) THEN docs["utility"].phone ELSE Absent

\* The sources a run asks about these documents.
Asked(docs) ==
  LET i == docs["identity"]
      b == docs["business"]
      u == docs["utility"]
  IN  {l \in Lookups :
         CASE l = "business" -> Told(b) /\ Numbered(b.cnpj)
           [] l = "issuer" -> Told(u) /\ Numbered(u.issuer)
           [] l = "cep" -> Told(u) /\ Told(u.cep)
           [] l = "ddd" -> Told(Phone(docs)) /\ Told(DocumentUf(docs))
           [] l = "cpf" -> Told(i) /\ Numbered(i.cpf)}

Answer(docs, l) ==
  CASE l = "business" ->
         LET rec == world.registry[docs["business"].cnpj]
         IN  IF Told(rec) THEN CrossBusiness(docs["business"], rec) ELSE <<"CRITICA">>
    [] l = "issuer" ->
         LET rec == world.registry[docs["utility"].issuer]
         IN  IF Told(rec) THEN CrossIssuer(rec) ELSE <<"CRITICA">>
    [] l = "cep" -> CrossAddress(docs["utility"], world.ceps[docs["utility"].cep])
    [] l = "ddd" ->
         Alert("MEDIA", Differ(world.ddd[Phone(docs)], DocumentUf(docs)))
    [] l = "cpf" ->
         IF Told(world.cpf) THEN CrossIdentity(docs["identity"], world.cpf) ELSE <<>>

\* unavailableSource: a source that is down is one alert, the lowest.
NotKnown(docs, l) == <<"CRITICA">>
Unavailable(docs, l) == <<"BAJA">>

\* crossCheckDocumentCoherence, with the partners of the registry when it answered.
Partners(docs, down) ==
  LET b == docs["business"] IN
  IF ~ Told(b) THEN {}
  ELSE IF /\ "business" \in Asked(docs) \ down
          /\ Told(world.registry[b.cnpj])
       THEN world.registry[b.cnpj].partners
       ELSE b.partners
Coherence(docs, partners) ==
  LET name == IF Told(docs["identity"]) THEN docs["identity"].name ELSE Absent
      holder == IF Told(docs["utility"]) THEN docs["utility"].holder ELSE Absent
  IN  Alert("ALTA", Told(name) /\ partners # {} /\ ~ MatchesAny(name, partners))
      \o Alert("MEDIA", /\ Told(holder)
                        /\ ~ (Told(name) /\ LooselyMatch(holder, name))
                        /\ ~ MatchesAny(holder, partners))

\* The alerts of a run during which the sources of down did not answer.
AlertsUntilOutage(docs, down) ==
  Local(docs)
  \o (IF down \cap Asked(docs) # {} THEN <<"BAJA">>
      ELSE FlattenSeq(SetToSeq({Answer(docs, l) : l \in Asked(docs)})))
  \o Coherence(docs, Partners(docs, down))

Alerts(docs, down) ==
  Local(docs)
  \o FlattenSeq([k \in 1..5 |->
       LET l == <<"business", "issuer", "cep", "ddd", "cpf">>[k] IN
       IF l \notin Asked(docs) THEN <<>>
       ELSE IF l \in down THEN Unavailable(docs, l) ELSE Answer(docs, l)])
  \o Coherence(docs, Partners(docs, down))
-----------------------------------------------------------------------------
(* Runs.                                                                   *)

\* findLatestByApplication.
Latest == [t \in Documents |-> IF readings[t] = <<>> THEN Absent ELSE Last(readings[t])]
Seen == [t \in Documents |-> Len(readings[t])]

\* The intake read each document once, or could not, and calls the notifier.
ValidationInit ==
  /\ world \in Worlds
  /\ \E folder \in Folders :
       readings = [t \in Documents |-> IF Told(folder[t]) THEN <<folder[t]>> ELSE <<>>]
  /\ \E r \in Runs : run = [q \in Runs |-> IF q = r THEN [at |-> "read"] ELSE Waiting]
  /\ reports = <<>>
  /\ failed = FALSE

\* reExtract: the reading is stored before its document is validated again; the AI may
\* fail, and the documents are validated all the same.
SnapshotFirst(r, t, reading) ==
  /\ run[r] = Waiting
  /\ Len(readings[t]) < MaxReadings
  /\ readings' = IF Told(reading) THEN [readings EXCEPT ![t] = Append(@, reading)]
                 ELSE readings
  /\ run' = [run EXCEPT ![r] = [at |-> "asking", docs |-> Latest, seen |-> Seen]]
  /\ UNCHANGED <<world, reports, failed>>

ReExtract(r, t, reading) ==
  /\ run[r] = Waiting
  /\ Len(readings[t]) < MaxReadings
  /\ readings' = IF Told(reading) THEN [readings EXCEPT ![t] = Append(@, reading)]
                 ELSE readings
  /\ run' = [run EXCEPT ![r] = [at |-> "read"]]
  /\ UNCHANGED <<world, reports, failed>>

\* reExtract of the photo of the business: studied again, and nothing is validated.
StudyPhoto(reading) ==
  /\ Len(readings["photo"]) < MaxReadings
  /\ readings' = [readings EXCEPT !["photo"] = Append(@, reading)]
  /\ UNCHANGED <<world, run, reports, failed>>

\* execute begins: the last readings, in a transaction of their own.
TakeReadings(r) ==
  /\ run[r].at = "read"
  /\ run' = [run EXCEPT ![r] = [at |-> "asking", docs |-> Latest, seen |-> Seen]]
  /\ UNCHANGED <<readings, world, reports, failed>>

\* execute goes on: rules, sources, verdict and the report, appended.
Report(r, down) ==
  /\ run[r].at = "asking" /\ Len(reports) < MaxReports
  /\ down \subseteq Asked(run[r].docs)
  /\ LET alerts == Alerts(run[r].docs, down)
     IN  reports' = Append(reports, [docs |-> run[r].docs, seen |-> run[r].seen,
                                     down |-> down, status |-> Verdict(alerts),
                                     score |-> Score(alerts)])
  /\ run' = [run EXCEPT ![r] = Waiting]
  /\ UNCHANGED <<readings, world, failed>>

\* A run ends without a report: its callers log it and go on.
GiveUp(r) ==
  /\ run[r].at # "waiting"
  /\ run' = [run EXCEPT ![r] = Waiting]
  /\ failed' = TRUE
  /\ UNCHANGED <<readings, world, reports>>

ValidationNext ==
  \/ \E reading \in Files["photo"] : StudyPhoto(reading)
  \/ \E r \in Runs :
       \/ \E t \in Documents \ {"photo"} : \E reading \in Files[t] \cup {Absent} :
            ReExtract(r, t, reading)
       \/ TakeReadings(r)
       \/ \E down \in SUBSET Lookups : Report(r, down)
       \/ GiveUp(r)

ValidationSpec == ValidationInit /\ [][ValidationNext]_validationVars
-----------------------------------------------------------------------------
\* Every report is the last one once: what holds of it then holds of all.
LastReport == {reports[i] : i \in DOMAIN reports \cap {Len(reports)}}

ReportsTyped ==
  \A report \in LastReport :
    /\ report.status \in {"approved", "suspicious", "rejected"}
    /\ report.score \in 0..100

\* A source that is down rejects nobody: what is rejected without it is rejected with
\* every source answering ("no bloquea", validate-application-documents.ts:54).
OutageNeverRejects ==
  \A report \in LastReport :
    report.status = "rejected" => Verdict(Alerts(report.docs, {})) = "rejected"

\* Nor does it save anybody from another: a run rejects exactly when the local rules or
\* one of the sources that answered would reject with every other source down.
RejectionsStand ==
  \A report \in LastReport :
    LET docs == report.docs
        OnItsOwn(l) == Verdict(Alerts(docs, Lookups \ {l})) = "rejected"
    IN  report.status = "rejected"
          <=> \/ Verdict(Local(docs)) = "rejected"
              \/ \E l \in Asked(docs) \ report.down : OnItsOwn(l)

\* Documents without an alert, of an applicant whom the document of the business names,
\* are approved whatever is down: five outages stay under the threshold.
CleanStaysApproved ==
  \A report \in LastReport :
    LET docs == report.docs IN
    /\ Alerts(docs, {}) = <<>>
    /\ Coherence(docs, docs["business"].partners) = <<>>
    => report.status = "approved"

\* When nobody is validating and no run failed, some report is of the last reading of
\* every document but the photo (re-extract-document.service.ts:101-110); not always the
\* last report.
LastReadingJudged ==
  (\A r \in Runs : run[r] = Waiting) /\ ~ failed =>
    \E i \in DOMAIN reports :
      \A t \in Documents \ {"photo"} : reports[i].seen[t] = Seen[t]

-----------------------------------------------------------------------------
(* Why they hold: a report says what its readings and the sources did, and  *)
(* whoever read a document again validates it, or says that it failed.      *)

Read(t) == {folder[t] : folder \in Folders} \cup Files[t]

\* The fields that name an editor are so many.
ValidationTerms ==
  \A t \in Documents \ {"photo"} : \A d \in Read(t) :
    Told(d) /\ Told(d.file) => d.file.editors \in Nat

Papers == [Documents -> (UNION {Read(t) : t \in Documents}) \cup {Absent}]
Reports ==
  [docs : Papers, seen : [Documents -> Nat], down : SUBSET Lookups,
   status : {"approved", "suspicious", "rejected"}, score : 0..100]

AreDocuments(docs) == \A t \in Documents : docs[t] \in Read(t) \cup {Absent}

\* Every document but the photo was read so many times.
AllSeen(seen) == \A t \in Documents \ {"photo"} : seen[t] = Seen[t]

RunsKnow ==
  \A r \in Runs :
    \/ run[r] \in {Waiting, [at |-> "read"]}
    \/ /\ run[r].at = "asking" /\ AreDocuments(run[r].docs)
       /\ run[r].docs \in Papers
       /\ run[r].seen \in [Documents -> Nat]

ReportsTrue ==
  \A i \in DOMAIN reports :
    LET alerts == Alerts(reports[i].docs, reports[i].down)
    IN /\ AreDocuments(reports[i].docs)
       /\ reports[i].status = Verdict(alerts) /\ reports[i].score = Score(alerts)

\* The last readings were judged, or will be.
JudgedOrGoing ==
  \/ failed
  \/ \E i \in DOMAIN reports : AllSeen(reports[i].seen)
  \/ \E r \in Runs :
       \/ run[r].at = "read"
       \/ run[r].at = "asking" /\ AllSeen(run[r].seen)

ValidationInv ==
  /\ DOMAIN readings = Documents /\ \A t \in Documents : readings[t] \in Seq(Read(t))
  /\ DOMAIN run = Runs /\ reports \in Seq(Reports)
  /\ failed \in BOOLEAN
  /\ RunsKnow /\ ReportsTrue /\ JudgedOrGoing
-----------------------------------------------------------------------------
ValidationSafe ==
  /\ ReportsTyped
  /\ OutageNeverRejects /\ RejectionsStand /\ CleanStaysApproved
  /\ LastReadingJudged
  /\ ValidationTerms /\ ValidationInv
=============================================================================
