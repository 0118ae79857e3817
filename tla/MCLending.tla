------------------------------ MODULE MCLending ------------------------------
(***************************************************************************)
(* The small instances of what is lent and of how its money comes back.    *)
(* A behaviour is one of nine scenarios, which share nothing.              *)
(*                                                                         *)
(* Origination: two administrators editing plans; a negotiation with one   *)
(* coordinator, the client and one edit of the plans; two coordinators     *)
(* deciding and granting at the same time.  The last two begin with two    *)
(* plans, as two requests of an administrator leave them.                  *)
(* CreditAccount: one credit of three uneven instalments whose principal   *)
(* does not divide its total (so every split rounds), paid in every way by *)
(* four payments.                                                          *)
(* SettlementPool: three receipts, two rows of the settlement report.      *)
(* MigratedCredit: from the end of April (day 120) of a common year, the   *)
(* first request types any of the schedules and histories, while another   *)
(* loads the same reference.                                               *)
(* Borrowers: two borrowers of one identifier, one proposal, two reviewers *)
(* and one direct update.                                                  *)
(* DocumentValidation: a folder that departs from a clean one in one field *)
(* or two, against sources that do; from the clean one, two reviewers have *)
(* the identity document read again.                                       *)
(* CheckDigits: some tens of numbers, each with one slip.                  *)
(***************************************************************************)
EXTENDS Origination, CreditAccount, SettlementPool

CONSTANTS c1, c2, w1, w2, e1, e2, Null

VARIABLES
  scenario,
  now, load, loads, migrated,                                         \* migration
  registry, proposal, reviewing, edits, applied, raced, written,      \* borrowers
  readings, world, run, reports, failed,                              \* documents
  printed, read, slip                                                 \* digits

MCDue == [c \in Credits |-> <<3, 1, 4>>]
MCPrincipal == [c \in Credits |-> 5]

\* What an administrator types: a schedule of each frequency from a day that ends or
\* begins a month, or two payments of the past, in or out of order, on one day or two.
Form(frequency, start, interest, n, ref, payments) ==
  [principal |-> 5, interest |-> interest, n |-> n, frequency |-> frequency,
   start |-> start, ref |-> ref, payments |-> payments]

Histories ==
  {<<[on |-> d, amount |-> a], [on |-> e, amount |-> b]>> :
     d \in {58, 59}, e \in {58, 60}, a \in {1, 3}, b \in {2, 4}}

MCForms ==
  {Form(f, s, 4, 4, 1, <<>>) : f \in {"DAILY", "WEEKLY", "BIWEEKLY", "MONTHLY"},
                               s \in {1, 29, 30, 31, 32, 59}}
  \cup {Form("DAILY", 58, i, n, ref, h) : i \in {0, 4}, n \in {2, 3},
                                          ref \in {0, 1}, h \in Histories}

migration == <<now, load, loads, migrated>>

Migration == INSTANCE MigratedCredit WITH
               Loaders <- {1, 2}, Forms <- MCForms, NoRef <- 0, Scale <- 10,
               Length <- <<31, 28, 31, 30, 31, 30, 31>>,
               FirstNow <- 120, MaxNow <- 121, MaxLoads <- 2

records == <<registry, proposal, reviewing, edits, applied, raced, written>>

Records == INSTANCE Borrowers WITH
             Borrowers <- {1, 2}, Requests <- {1}, Reviewers <- Coordinators, Ids <- {1},
             Phones <- {8, 9}, Null <- Null, MaxUpdates <- 1, borrower <- registry,
             request <- proposal, review <- reviewing, updates <- edits, last <- written

CleanIdentity ==
  [name |-> {"ana", "silva"}, cpf |-> "right", born |-> 100, issued |-> 9000,
   expires |-> 11000, phone |-> "SP", file |-> Null]
CleanBusiness ==
  [name |-> {"ana", "modas"}, cnpj |-> "shop", capital |-> 5, cep |-> 1, uf |-> "SP",
   partners |-> {{"ana", "silva", "souza"}}, file |-> Null]
CleanBill ==
  [holder |-> {"ana", "silva"}, issuer |-> "light", cep |-> 1, city |-> {"sao", "paulo"},
   uf |-> "SP", issued |-> 9910, month |-> 9900, due |-> 9930, amount |-> 7,
   line |-> [valid |-> TRUE, amount |-> 7, segment |-> 3], phone |-> "SP", file |-> Null]
Edited(n, late) == [editors |-> n, touched |-> late]

\* Each reading departs in one field from a document that raises no alert.
Identities ==
  {[CleanIdentity EXCEPT !.cpf = x] : x \in {"unread", "wrong"}}
  \cup {[CleanIdentity EXCEPT !.born = x] : x \in {Null, 9500, 10001}}
  \cup {[CleanIdentity EXCEPT !.issued = x] : x \in {Null, 100, 10001}}
  \cup {[CleanIdentity EXCEPT !.expires = 9999], [CleanIdentity EXCEPT !.phone = Null],
        [CleanIdentity EXCEPT !.file = Edited(1, FALSE)], Null}
  \cup {[CleanIdentity EXCEPT !.name = x] : x \in {Null, {"eva", "lima"}}}
Businesses ==
  {[CleanBusiness EXCEPT !.cnpj = x] : x \in {"unread", "wrong", "none"}}
  \cup {[CleanBusiness EXCEPT !.partners = x] :
          x \in {{}, {{"eva", "lima"}}, {{"eva", "lima"}, {"ana", "silva"}}}}
  \cup {[CleanBusiness EXCEPT !.capital = 6], [CleanBusiness EXCEPT !.cep = 2],
        [CleanBusiness EXCEPT !.name = {"modas"}], Null}
Bills ==
  {[CleanBill EXCEPT !.issuer = x] : x \in {"unread", "wrong", "none", "shop"}}
  \cup {[CleanBill EXCEPT !.holder = x] : x \in {{"eva", "lima"}, {"ana"}}}
  \cup {[CleanBill EXCEPT !.line = x] :
          x \in {Null, [valid |-> FALSE, amount |-> 7, segment |-> 3],
                 [valid |-> TRUE, amount |-> 8, segment |-> 3],
                 [valid |-> TRUE, amount |-> 7, segment |-> 1]}}
  \cup {[CleanBill EXCEPT !.issued = x] : x \in {Null, 9909, 10001}}
  \cup {[CleanBill EXCEPT !.cep = 2], [CleanBill EXCEPT !.uf = "RJ"],
        [CleanBill EXCEPT !.uf = Null], [CleanBill EXCEPT !.due = 9899],
        [CleanBill EXCEPT !.file = Edited(0, TRUE)], Null}

CleanPhoto == [looks |-> "shop"]
CleanFolder ==
  [identity |-> CleanIdentity, business |-> CleanBusiness, photo |-> CleanPhoto,
   utility |-> CleanBill]
MCFolders ==
  {CleanFolder} \cup {[CleanFolder EXCEPT !.identity = x] : x \in Identities}
  \cup {[CleanFolder EXCEPT !.business = x] : x \in Businesses}
  \cup {[CleanFolder EXCEPT !.utility = x] : x \in Bills}
  \cup {[CleanFolder EXCEPT !.photo = Null]}
  \cup {[CleanFolder EXCEPT !.identity = x, !.utility.file = Edited(0, TRUE)] : x \in Identities}

Shop == [active |-> TRUE, name |-> {"ana", "modas", "ltda"}, capital |-> 5, cep |-> 1,
         uf |-> "SP", since |-> 9000, sector |-> "other",
         partners |-> {{"ana", "silva", "souza"}, {"rui", "lima"}}]
Light == [Shop EXCEPT !.sector = "utility", !.partners = {}]
Citizen == [name |-> {"ana", "silva"}, born |-> 100, situation |-> "regular"]
CleanWorld ==
  [registry |-> [shop |-> Shop, light |-> Light, none |-> Null],
   ceps |-> <<[uf |-> "SP", city |-> {"sao", "paulo"}], Null>>,
   ddd |-> [SP |-> "SP"], cpf |-> Citizen]
MCWorlds ==
  {CleanWorld}
  \cup {[CleanWorld EXCEPT !.registry.shop = x] :
          x \in {[Shop EXCEPT !.active = FALSE], [Shop EXCEPT !.since = 9900],
                 [Shop EXCEPT !.partners = {}], [Shop EXCEPT !.partners = {{"rui", "lima"}}],
                 [Shop EXCEPT !.uf = "RJ"]}}
  \cup {[CleanWorld EXCEPT !.registry.light = [Light EXCEPT !.active = FALSE]],
        [CleanWorld EXCEPT !.ddd.SP = "RJ"], [CleanWorld EXCEPT !.ddd.SP = Null]}
  \cup {[CleanWorld EXCEPT !.cpf = x] :
          x \in {Null, [name |-> {}, born |-> Null, situation |-> "other"],
                 [Citizen EXCEPT !.situation = "terminal"], [Citizen EXCEPT !.born = 101]}}

documents == <<readings, world, run, reports, failed>>

Docs == INSTANCE DocumentValidation WITH
          Runs <- {1, 2}, Folders <- MCFolders, Worlds <- MCWorlds, Today <- 10000,
          Files <- [identity |-> {[CleanIdentity EXCEPT !.cpf = "wrong"]},
                    business |-> {}, photo |-> {CleanPhoto}, utility |-> {}],
          MaxReadings <- 2, MaxReports <- 2, Absent <- Null

\* The sources depart from what is known only where the applicant and the partners of
\* the business are at stake.
DocumentsInit ==
  /\ Docs!ValidationInit
  /\ run[1].at # "waiting"
  /\ world = CleanWorld
     \/ /\ readings["utility"] = <<CleanBill>>
        /\ \E name \in {CleanIdentity.name, {"eva", "lima"}} :
             readings["identity"] = <<[CleanIdentity EXCEPT !.name = name]>>

\* Documents are read again where everything was clean at first, and sources are down
\* only for the first of the two reports.  A photo is studied again when its first study
\* failed.
Validating ==
  LET once == [t \in Docs!Documents |-> <<CleanFolder[t]>>]
      cleanFirst ==
        /\ world = CleanWorld
        /\ \A t \in Docs!Documents :
             readings[t] # <<>> /\ readings[t][1] = CleanFolder[t]
  IN  /\ cleanFirst => ~ failed
      /\ Docs!ValidationNext
      /\ ~ cleanFirst => (\A r \in {1, 2} : run[r].at = "waiting" => run'[r] = run[r])
      /\ readings["photo"] # readings'["photo"] => readings["photo"] = <<>>
      /\ cleanFirst /\ reports' # reports /\ reports'[Len(reports')].down # {} =>
           reports = <<>> /\ readings' = once

digits == <<printed, read, slip>>

Bar(how, amount, free) ==
  <<8, 3, how>> \o [i \in 1..11 |-> (amount + i) % 10] \o [i \in 1..29 |-> (free * i) % 10]

\* Two of the CPFs are ones in which a misread digit passes.
MCNumbers ==
  {[kind |-> "cpf", digits |-> [i \in 1..9 |-> (a + b * i * i) % 10]] :
     a \in 0..9, b \in 1..3}
  \cup {[kind |-> "cpf", digits |-> <<7, 0, 4, 9, 9, 9, 6, 2, 2>>],
        [kind |-> "cpf", digits |-> <<9, 2, 9, 4, 7, 8, 2, 2, 2>>]}
  \cup {[kind |-> "cnpj", digits |-> [i \in 1..12 |-> (a + b * i * i) % 10]] :
           a \in 0..9, b \in 1..3}
  \cup {[kind |-> "line", digits |-> Bar(how, amount, free)] :
           how \in 6..9, amount \in {0, 4}, free \in {0, 7}}

Check == INSTANCE CheckDigits WITH Numbers <- MCNumbers

MCPrincipals == {2, 3}

Granting == {"plans", "offers", "grants"}

TwoPlans ==
  [p \in Plans |-> [active |-> TRUE, default |-> p = 2, terms |-> p]]

MCInit ==
  /\ AccountInit /\ PoolInit /\ Migration!MigrationInit
  /\ Records!BorrowersInit
  /\ scenario \in Granting \cup {"account", "pool", "migrated", "records", "documents", "digits"}
  /\ IF scenario = "documents" THEN DocumentsInit
     ELSE readings = <<>> /\ world = Null /\ run = Null /\ reports = <<>> /\ failed = FALSE
  /\ IF scenario = "digits" THEN Check!DigitsInit
     ELSE printed = Null /\ read = <<>> /\ slip = <<>>
  /\ admin = [w \in Admins |-> Idle]
  /\ overlapped = FALSE
  /\ plan = IF scenario \notin {"offers", "grants"} THEN [p \in Plans |-> NoPlan] ELSE TwoPlans
  /\ OwnInit
  /\ scenario \notin {"offers", "grants"} =>
       /\ settings = [clientChooses |-> FALSE, override |-> FALSE,
                      interestLocked |-> FALSE]
       /\ borrower.limit = 0
  /\ scenario = "offers" =>
       /\ ~settings.override /\ settings.interestLocked
       /\ borrower.limit = 0
  /\ scenario = "grants" =>
       settings = [clientChooses |-> FALSE, override |-> TRUE,
                   interestLocked |-> TRUE]

\* One administrator edits once, while an offer stands, the first plan, of which it
\* changes the terms if anything.
Edit ==
  \/ /\ admin[w1] = Idle /\ plan = TwoPlans /\ offers > 0 /\ ~app.expired
     /\ EditPlans /\ admin'[w2] = Idle
     /\ admin'[w1].plan = 1
     /\ admin'[w1].kind = "update" => admin'[w1].patch = [terms |-> 2]
  \/ admin[w1] # Idle /\ EditPlans /\ admin' = [w \in Admins |-> Idle]

\* One coordinator negotiates, with another amount the second time, and approves
\* once; the client writes its messages in turn, the last a clear one; an offer expires
\* where one offer was made and no plan edited.
Alone ==
  /\ coord'[c2] = Free
  /\ coord'[c1].at = "offer" => coord'[c1].principal = 1 + offers'
  /\ msg[1].at = "unsaid" => msg'[2].at = "unsaid"
  /\ msg'[2].at = "sent" => msg'[2].answer.says # "unclear"
  /\ app'.expired /\ ~app.expired => offers = 1 /\ plan = TwoPlans /\ admin[w1] = Idle
  /\ \A m \in Messages : msg'[m].at = "sent" /\ msg'[m].answer.says = "number" =>
       msg'[m].about.kind = "menu"

\* What a reviewer types: the terms of a plan, or others and no plan.
Typed ==
  \A c \in Coordinators :
    /\ coord'[c].at = "approve" =>
         /\ coord'[c].plan \in {NoPlan, coord'[c].terms}
         /\ scenario = "offers" => coord'[c].plan = 1
         /\ coord'[c].principal = 2
    /\ coord'[c].at = "grant" /\ coord'[c].credit.origin = "direct" =>
         /\ scenario = "grants"
         /\ coord'[c].credit.plan = coord'[c].credit.terms
         /\ coord'[c].credit.principal = 3

GrantingNext ==
  /\ CASE scenario = "plans" -> EditPlans
       [] scenario = "offers" ->
            credits = <<>> /\ (Negotiate \/ Decide \/ Edit) /\ Alone
       [] scenario = "grants" ->
            \/ Decide
            \/ \E i \in DOMAIN credits : PayOff(i)
            \/ \E b \in BOOLEAN : SetBlocked(b)
  /\ Typed

\* The first load is of any form, by the first request; the second, by any, is of
\* one that has the reference of most.
Migrating ==
  /\ Migration!MigrationNext
  /\ loads = 0 => ~ load'[2].busy
  /\ loads = 1 =>
       \A h \in {1, 2} : load'[h] # load[h] /\ load'[h].busy =>
         load'[h].plan = Migration!PlanOf(Form("DAILY", 59, 4, 4, 1, <<>>), now)

\* The payments come in the order of their numbers; the first end-to-end id is e1.
Paying == \A p \in 2..4 : credited'[p] > 0 => credited[p - 1] > 0

Carried(e, claims, rows) ==
  (\E p \in DOMAIN claims : claims[p] = e) \/ (\E k \in DOMAIN rows : rows[k] = e)

Matching == Carried(e2, claimE2E', rowE2E') => Carried(e1, claimE2E, rowE2E)

others == <<documents, digits>>

MCNext ==
  /\ UNCHANGED scenario
  /\ \/ scenario \in Granting /\ GrantingNext
          /\ UNCHANGED <<accountVars, poolVars, migration, records, others>>
     \/ /\ scenario = "account" /\ AccountNext /\ Paying
        /\ UNCHANGED <<vars, poolVars, migration, records, others>>
     \/ /\ scenario = "pool" /\ PoolNext /\ Matching
        /\ UNCHANGED <<vars, accountVars, migration, records, others>>
     \/ /\ scenario = "migrated" /\ Migrating
        /\ UNCHANGED <<vars, accountVars, poolVars, records, others>>
     \/ /\ scenario = "records" /\ Records!BorrowersNext
        /\ UNCHANGED <<vars, accountVars, poolVars, migration, others>>
     \/ /\ scenario = "documents" /\ Validating
        /\ UNCHANGED <<vars, accountVars, poolVars, migration, records, digits>>
     \/ /\ scenario = "digits" /\ Check!DigitsNext
        /\ UNCHANGED <<vars, accountVars, poolVars, migration, records, documents>>

MCSpec ==
  MCInit /\ [][MCNext]_<<vars, accountVars, poolVars, migration, records, others, scenario>>
-----------------------------------------------------------------------------
\* Applications, plans, credits and payments have their shape; a tenant has one default
\* plan at most, whatever edits overlap, and one that can be offered while none did
\* (manage-payment-plans.ts); an answer of the client is handled only once an offer was
\* made; while no request overtakes another, what each of them read is still so.
LendingSafe ==
  /\ TypeOK /\ PlansSafe /\ QuietInv /\ ServedIsOffered /\ CalmInv /\ LockInv
  /\ scenario = "account" => TypesAndTerms

\* A credit that began elsewhere owes what was agreed, its past payments enter as if they
\* had been made here, and a reference is loaded once (migrated-credit.ts).
MigrationSafe == scenario = "migrated" => Migration!MigrationSafe

\* An approved change of a borrower was made and a rejected one was not, no field is lost
\* to an update of another, and two borrowers have one identifier only by a proposal
\* (change-requests.ts, three transactions of a review).
BorrowersSafe == scenario = "records" => Records!BorrowersSafe

\* A source that is down neither rejects nor saves anybody, and the last report judges
\* the last readings (validate-application-documents.ts).
ValidationSafe == scenario = "documents" => Docs!ValidationSafe

\* A misread digit of a CPF, a CNPJ or a bill passes only where the check digits cannot
\* tell it (taxpayer-id.ts, febraban.ts).
DigitsSafe == scenario = "digits" => Check!DigitsSafe
=============================================================================
