----------------------------- MODULE Origination -----------------------------
(***************************************************************************)
(* From a reviewed application to a credit.  A coordinator offers the      *)
(* client a plan (OfferPlansHandler), the client answers by WhatsApp       *)
(* (RecordPlanReplyHandler), a coordinator approves and the credit is      *)
(* disbursed (ApproveApplicationReviewHandler), or rejects; credits are    *)
(* also granted directly (GrantCreditHandler).  Each handler reads the     *)
(* application or the plans in one transaction, decides, and writes in     *)
(* another; the write conditions on nothing but the identifier.  Only the  *)
(* limit of the borrower is checked again under a lock.                    *)
(***************************************************************************)
EXTENDS PaymentPlans, Sequences, Sums

CONSTANTS
  Coordinators, \* coordinators with a request open at the same time
  Messages,     \* the text messages of the client
  Principals,   \* the amounts that may be lent
  Limit,        \* the limit of a borrower who has one
  MaxCredits,   \* bound: credits granted
  MaxOffers,    \* bound: offers started
  NoOne         \* no coordinator holds the borrower's row

ASSUME OriginationAssumption ==
  /\ Principals \subseteq Nat \ {0}
  /\ Limit \in Nat
  /\ MaxCredits \in Nat /\ MaxOffers \in Nat
  /\ NoOne \notin Coordinators

VARIABLES
  app,      \* the application: its status, and the offer being negotiated
  settings, \* the tenant's settings that the handlers consult
  borrower, \* the borrower's policy: [blocked, limit], limit 0 for none
  credits,  \* the credits granted, in order
  coord,    \* coord[c]: the request of c between its transactions
  locked,   \* the coordinator whose transaction holds the borrower's row
  shown,    \* the last menu or schedule the client was sent
  msg,      \* msg[m]: a message of the client and the handler that serves it
  offers,   \* offers started (bound)
  agreed,   \* what the client's recorded acceptance was about (history)
  calm      \* no request overtook another or a plan on offer (history)

ownVars == <<app, settings, borrower, credits, coord, locked, shown, msg,
             offers, agreed, calm>>
vars == <<planVars, ownVars>>

Nothing == [kind |-> "nothing"]
Menu(plans) == [kind |-> "menu", plans |-> plans]
Schedule(p, terms, principal) ==
  [kind |-> "schedule", plan |-> p, terms |-> terms, principal |-> principal]

\* parsePlanSelection and parseAcceptance tell these apart.
Answers ==
  [says : {"yes", "no", "unclear"}]
    \cup [says : {"number"}, number : 1 .. Cardinality(Plans)]

Shown ==
  {Nothing} \cup [kind : {"menu"}, plans : SUBSET Plans]
    \cup [kind : {"schedule"}, plan : Plans, terms : Terms,
          principal : Principals]

Offers == {"NOT_OFFERED", "AWAITING_SELECTION", "AWAITING_ACCEPTANCE", "ACCEPTED",
           "DECLINED"}

\* An offer has a principal, and a plan is part of one.
Applications ==
  {a \in [status : {"IN_REVIEW", "APPROVED", "REJECTED"}, offer : Offers,
          plan : Plans \cup {NoPlan}, principal : Principals \cup {0},
          expired : BOOLEAN] :
     /\ a.offer # "NOT_OFFERED" => a.principal \in Principals
     /\ a.plan # NoPlan => a.offer # "NOT_OFFERED"}

CreditRows ==
  [origin : {"application", "direct"}, plan : Plans \cup {NoPlan}, terms : Terms,
   principal : Principals, override : BOOLEAN, paid : BOOLEAN]

\* The requests of coordinators, at each of their transactions.
CoordRequests ==
  [at : {"idle", "reject"}]
    \cup [at : {"offer"}, seen : Offers, principal : Principals]
    \cup [at : {"offered"}, send : Shown]
    \cup [at : {"approve"}, app : Applications, plan : Plans \cup {NoPlan},
          terms : Terms, principal : Principals]
    \cup [at : {"grant", "commit"}, credit : CreditRows]

\* The messages of the client, and what the handler of each has read.
MessageStates ==
  [at : {"unsaid"}, about : {Nothing}]
    \cup [at : {"sent", "answer", "done"}, about : Shown, answer : Answers]
    \cup [at : {"select", "done"}, about : Shown, answer : Answers,
          principal : Principals]
    \cup [at : {"selected", "done"}, about : Shown, answer : Answers, send : Shown]

TypeOK ==
  /\ PlansTypeOK
  /\ app \in Applications
  /\ settings \in [clientChooses : BOOLEAN, override : BOOLEAN,
                   interestLocked : BOOLEAN]
  /\ borrower \in [blocked : BOOLEAN, limit : {0, Limit}]
  /\ credits \in Seq(CreditRows)
  /\ Len(credits) <= MaxCredits
  /\ coord \in [Coordinators -> CoordRequests]
  /\ locked \in Coordinators \cup {NoOne}
  /\ shown \in Shown
  /\ msg \in [Messages -> MessageStates]
  /\ agreed \in Shown
  /\ calm \in BOOLEAN

-----------------------------------------------------------------------------
(* The rules of the domain.                                                *)

\* assertOfferTransition for OFFER: an accepted offer is final.
MayOffer(offer) == offer # "ACCEPTED"

\* nextDecisionStatus: also legal from the state it leads to.
MayDecide(status, target) == status \in {"IN_REVIEW", target}

\* Active plans in the order of the menu: the default first, then by name.
Before(rows, p) ==
  {q \in Active(rows) : \/ rows[q].default /\ ~rows[p].default
                        \/ rows[q].default = rows[p].default /\ q < p}

MenuOf(rows) ==
  [i \in 1 .. Cardinality(Active(rows)) |->
     CHOOSE p \in Active(rows) : Cardinality(Before(rows, p)) = i - 1]

AmountDue(credit) == credit.principal + credit.terms

\* Σ (due - paid) of the borrower's ACTIVE credits: interest included.
Outstanding ==
  LET due(credit) == IF credit.paid THEN 0 ELSE AmountDue(credit) IN
    SumOver([i \in DOMAIN credits |-> due(credits[i])], DOMAIN credits)

\* canReceiveCredit.
CanReceive(principal) ==
  /\ ~borrower.blocked
  /\ borrower.limit > 0 => Outstanding + principal <= borrower.limit

\* assertInterestAllowed with "Bloquear cambio de interés" on: the interest, for which
\* the terms stand, is that of an active plan.  An ADMIN or OWNER is exempt, which is
\* what everyone does with the lock off.
InterestAllowed(p, terms) ==
  settings.interestLocked =>
    /\ p # NoPlan
    /\ plan[p].active
    /\ plan[p].terms = terms

\* The plan named must exist (404), locked or not.
TermsAllowed(p, terms) ==
  /\ p # NoPlan => plan[p] # NoPlan
  /\ InterestAllowed(p, terms)

-----------------------------------------------------------------------------
(* The history variables.                                                  *)

Free == [at |-> "idle"]
InFlight ==
  \/ \E c \in Coordinators : coord[c] # Free
  \/ \E m \in Messages : msg[m].at \in {"select", "selected", "answer"}
  \/ \E w \in Admins : admin[w] # Idle

\* A request that starts while another runs is what "calm" excludes.
StartsAlone == calm' = (calm /\ ~InFlight)

-----------------------------------------------------------------------------
(* OfferPlansHandler.                                                      *)

StartOffer(c, principal) ==
  /\ coord[c] = Free
  /\ offers < MaxOffers
  /\ app.status = "IN_REVIEW"
  /\ coord' = [coord EXCEPT ![c] = [at |-> "offer", seen |-> app.offer,
                                    principal |-> principal]]
  /\ offers' = offers + 1
  /\ StartsAlone
  /\ UNCHANGED <<planVars, app, settings, borrower, credits, locked, shown,
                 msg, agreed>>

\* markOffered after reading the plans: the transition is checked against the
\* snapshot, the update against nothing.
MarkOffered(c) ==
  /\ coord[c].at = "offer"
  /\ MayOffer(coord[c].seen)
  /\ \/ /\ settings.clientChooses
        /\ Active(plan) # {}
        /\ app' = [app EXCEPT !.offer = "AWAITING_SELECTION", !.plan = NoPlan,
                              !.principal = coord[c].principal, !.expired = FALSE]
        /\ coord' = [coord EXCEPT ![c] = [at |-> "offered",
                                          send |-> Menu(Active(plan))]]
     \/ /\ ~settings.clientChooses
        /\ \E p \in Defaults(plan) :
             /\ app' = [app EXCEPT !.offer = "AWAITING_ACCEPTANCE", !.plan = p,
                                   !.principal = coord[c].principal,
                                   !.expired = FALSE]
             /\ coord' = [coord EXCEPT ![c] =
                  [at |-> "offered",
                   send |-> Schedule(p, plan[p].terms, coord[c].principal)]]
  /\ UNCHANGED <<planVars, settings, borrower, credits, locked, shown, msg,
                 offers, agreed, calm>>

\* Sending may fail after the offer was recorded: the client keeps what it was
\* shown before.
Deliver(content) ==
  \/ shown' = content /\ UNCHANGED calm
  \/ calm' = FALSE /\ UNCHANGED shown

SendOffer(c) ==
  /\ coord[c].at = "offered"
  /\ Deliver(coord[c].send)
  /\ coord' = [coord EXCEPT ![c] = Free]
  /\ UNCHANGED <<planVars, app, settings, borrower, credits, locked, msg,
                 offers, agreed>>

\* A handler whose check or whose transaction fails leaves nothing behind.
GiveUp(c) ==
  /\ coord[c].at \in {"offer", "approve", "grant"}
  /\ coord' = [coord EXCEPT ![c] = Free]
  /\ UNCHANGED <<planVars, app, settings, borrower, credits, locked, shown,
                 msg, offers, agreed, calm>>

Expire ==
  /\ app.offer # "NOT_OFFERED"
  /\ ~app.expired
  /\ app' = [app EXCEPT !.expired = TRUE]
  /\ UNCHANGED <<planVars, settings, borrower, credits, coord, locked, shown,
                 msg, offers, agreed, calm>>

-----------------------------------------------------------------------------
(* The client, and RecordPlanReplyHandler.  A redelivered message finds its *)
(* identifier already seen, so a message is served once.                    *)

Say(m, answer) ==
  /\ msg[m].at = "unsaid"
  /\ shown # Nothing
  /\ msg' = [msg EXCEPT ![m] = [at |-> "sent", about |-> shown, answer |-> answer]]
  /\ UNCHANGED <<planVars, app, settings, borrower, credits, coord, locked,
                 shown, offers, agreed, calm>>

To(m, place) == msg' = [msg EXCEPT ![m].at = place]

\* With no offer open the message goes to the assistant; an offer that has
\* expired is answered with a notice.  calm excludes an answer to an earlier
\* message than the last one sent.
Serve(m) ==
  /\ msg[m].at = "sent"
  /\ \/ /\ \/ app.status # "IN_REVIEW"
           \/ app.offer \notin {"AWAITING_SELECTION", "AWAITING_ACCEPTANCE"}
           \/ app.expired
        /\ To(m, "done")
        /\ UNCHANGED calm
     \/ /\ app.status = "IN_REVIEW"
        /\ ~app.expired
        /\ \/ /\ app.offer = "AWAITING_SELECTION"
              /\ msg' = [msg EXCEPT ![m] =
                   [at |-> "select", about |-> @.about, answer |-> @.answer,
                    principal |-> app.principal]]
           \/ /\ app.offer = "AWAITING_ACCEPTANCE"
              /\ To(m, "answer")
        /\ calm' = (calm /\ ~InFlight /\ msg[m].about = shown)
  /\ UNCHANGED <<planVars, app, settings, borrower, credits, coord, locked,
                 shown, offers, agreed>>

\* handleSelection: the number indexes the plans that are active now, not the
\* menu that was sent.
Choose(m) ==
  /\ msg[m].at = "select"
  /\ IF /\ msg[m].answer.says = "number"
        /\ msg[m].answer.number <= Cardinality(Active(plan))
     THEN LET p == MenuOf(plan)[msg[m].answer.number] IN
            /\ app' = [app EXCEPT !.offer = "AWAITING_ACCEPTANCE", !.plan = p]
            /\ msg' = [msg EXCEPT ![m] =
                 [at |-> "selected", about |-> @.about, answer |-> @.answer,
                  send |-> Schedule(p, plan[p].terms, @.principal)]]
            /\ UNCHANGED shown
     ELSE /\ shown' = Menu(Active(plan))
          /\ To(m, "done")
          /\ UNCHANGED app
  /\ UNCHANGED <<planVars, settings, borrower, credits, coord, locked, offers,
                 agreed, calm>>

SendSchedule(m) ==
  /\ msg[m].at = "selected"
  /\ Deliver(msg[m].send)
  /\ To(m, "done")
  /\ UNCHANGED <<planVars, app, settings, borrower, credits, coord, locked,
                 offers, agreed>>

\* handleAcceptance: the answer is recorded on the offer the row holds by then.
Answer(m) ==
  /\ msg[m].at = "answer"
  /\ \/ /\ msg[m].answer.says = "yes"
        /\ app' = [app EXCEPT !.offer = "ACCEPTED"]
        /\ agreed' = msg[m].about
     \/ /\ msg[m].answer.says = "no"
        /\ app' = [app EXCEPT !.offer = "DECLINED"]
        /\ UNCHANGED agreed
     \/ /\ msg[m].answer.says \notin {"yes", "no"}
        /\ UNCHANGED <<app, agreed>>
  /\ To(m, "done")
  /\ UNCHANGED <<planVars, settings, borrower, credits, coord, locked, shown,
                 offers, calm>>

-----------------------------------------------------------------------------
(* ApproveApplicationReviewHandler, RejectApplicationReviewHandler and      *)
(* GrantCreditHandler.                                                      *)

\* The client accepted, or the tenant lets an administrator go ahead.
MayApprove(offer) == offer = "ACCEPTED" \/ settings.override

StartApprove(c, p, terms, principal) ==
  /\ coord[c] = Free
  /\ MayDecide(app.status, "APPROVED")
  /\ MayApprove(app.offer)
  /\ coord' = [coord EXCEPT ![c] =
       [at |-> "approve", app |-> app, plan |-> p, terms |-> terms,
        principal |-> principal]]
  /\ StartsAlone
  /\ UNCHANGED <<planVars, app, settings, borrower, credits, locked, shown,
                 msg, offers, agreed>>

\* The plan of the snapshot still exists: its terms as they are now, and the
\* principal that was offered; otherwise what the reviewer typed.
NegotiatedNever(request) == FALSE
Negotiated(request) ==
  request.app.plan # NoPlan /\ plan[request.app.plan] # NoPlan

PrincipalOf(request) ==
  IF Negotiated(request) THEN request.app.principal ELSE request.principal

CreditOf(request) ==
  LET negotiated == Negotiated(request)
      p == IF negotiated THEN request.app.plan ELSE request.plan IN
    [origin |-> "application", plan |-> p,
     terms |-> IF negotiated THEN plan[p].terms ELSE request.terms,
     principal |-> PrincipalOf(request),
     override |-> request.app.offer # "ACCEPTED", paid |-> FALSE]

ResolveTerms(c) ==
  /\ coord[c].at = "approve"
  /\ LET credit == CreditOf(coord[c]) IN
       /\ Negotiated(coord[c]) \/ TermsAllowed(credit.plan, credit.terms)
       /\ CanReceive(credit.principal)
       /\ coord' = [coord EXCEPT ![c] = [at |-> "grant", credit |-> credit]]
  /\ UNCHANGED <<planVars, app, settings, borrower, credits, locked, shown,
                 msg, offers, agreed, calm>>

StartDirect(c, p, terms, principal) ==
  /\ coord[c] = Free
  /\ TermsAllowed(p, terms)
  /\ CanReceive(principal)
  /\ coord' = [coord EXCEPT ![c] =
       [at |-> "grant",
        credit |-> [origin |-> "direct", plan |-> p, terms |-> terms,
                    principal |-> principal, override |-> FALSE,
                    paid |-> FALSE]]]
  /\ StartsAlone
  /\ UNCHANGED <<planVars, app, settings, borrower, credits, locked, shown,
                 msg, offers, agreed>>

\* SELECT ... FOR UPDATE waits for the transaction that holds the row.
RowFreeAlways(c) == TRUE
RowFree(c) == locked = NoOne

LockBorrower(c) ==
  /\ coord[c].at = "grant"
  /\ RowFree(c)
  /\ CanReceive(coord[c].credit.principal)
  /\ locked' = c
  /\ coord' = [coord EXCEPT ![c].at = "commit"]
  /\ UNCHANGED <<planVars, app, settings, borrower, credits, shown, msg,
                 offers, agreed, calm>>

\* The rest of the transaction; the update of the status has no condition.
Commit(c) ==
  /\ coord[c].at = "commit"
  /\ Len(credits) < MaxCredits
  /\ credits' = Append(credits, coord[c].credit)
  /\ app' = IF coord[c].credit.origin = "application"
            THEN [app EXCEPT !.status = "APPROVED"] ELSE app
  /\ locked' = NoOne
  /\ coord' = [coord EXCEPT ![c] = Free]
  /\ UNCHANGED <<planVars, settings, borrower, shown, msg, offers, agreed, calm>>

\* The cash box cannot fund it: the transaction is rolled back.
Rollback(c) ==
  /\ coord[c].at = "commit"
  /\ locked' = NoOne
  /\ coord' = [coord EXCEPT ![c] = Free]
  /\ UNCHANGED <<planVars, app, settings, borrower, credits, shown, msg,
                 offers, agreed, calm>>

StartReject(c) ==
  /\ coord[c] = Free
  /\ MayDecide(app.status, "REJECTED")
  /\ coord' = [coord EXCEPT ![c] = [at |-> "reject"]]
  /\ StartsAlone
  /\ UNCHANGED <<planVars, app, settings, borrower, credits, locked, shown,
                 msg, offers, agreed>>

Reject(c) ==
  /\ coord[c].at = "reject"
  /\ app' = [app EXCEPT !.status = "REJECTED"]
  /\ coord' = [coord EXCEPT ![c] = Free]
  /\ UNCHANGED <<planVars, settings, borrower, credits, locked, shown, msg,
                 offers, agreed, calm>>

-----------------------------------------------------------------------------
(* The world around: payments end a credit, the borrower's row is edited    *)
(* (its update waits for the lock), and so are the plans.                   *)

PayOff(i) ==
  /\ ~credits[i].paid
  /\ credits' = [credits EXCEPT ![i].paid = TRUE]
  /\ UNCHANGED <<planVars, app, settings, borrower, coord, locked, shown, msg,
                 offers, agreed, calm>>

SetBlocked(b) ==
  /\ locked = NoOne
  /\ borrower.blocked # b
  /\ borrower' = [borrower EXCEPT !.blocked = b]
  /\ UNCHANGED <<planVars, app, settings, credits, coord, locked, shown, msg,
                 offers, agreed, calm>>

EditPlans ==
  /\ PlansNext
  /\ calm' = (calm /\ \/ plan' = plan
                      \/ /\ app.offer = "NOT_OFFERED"
                         /\ \A c \in Coordinators : coord[c] = Free)
  /\ UNCHANGED <<app, settings, borrower, credits, coord, locked, shown, msg,
                 offers, agreed>>

OwnInit ==
  /\ app = [status |-> "IN_REVIEW", offer |-> "NOT_OFFERED", plan |-> NoPlan,
            principal |-> 0, expired |-> FALSE]
  /\ settings \in [clientChooses : BOOLEAN, override : BOOLEAN,
                   interestLocked : BOOLEAN]
  /\ borrower \in [blocked : {FALSE}, limit : {0, Limit}]
  /\ credits = <<>>
  /\ coord = [c \in Coordinators |-> Free]
  /\ locked = NoOne
  /\ shown = Nothing
  /\ msg = [m \in Messages |-> [at |-> "unsaid", about |-> Nothing]]
  /\ offers = 0
  /\ agreed = Nothing
  /\ calm = TRUE

Init == PlansInit /\ OwnInit

Negotiate ==
  \/ \E c \in Coordinators :
       \/ \E principal \in Principals : StartOffer(c, principal)
       \/ MarkOffered(c)
       \/ SendOffer(c)
  \/ Expire
  \/ \E m \in Messages :
       \/ \E answer \in Answers : Say(m, answer)
       \/ Serve(m)
       \/ Choose(m)
       \/ SendSchedule(m)
       \/ Answer(m)

Decide ==
  \E c \in Coordinators :
    \/ \E p \in Plans \cup {NoPlan}, terms \in Terms, principal \in Principals :
         \/ StartApprove(c, p, terms, principal)
         \/ StartDirect(c, p, terms, principal)
    \/ ResolveTerms(c)
    \/ LockBorrower(c)
    \/ Commit(c)
    \/ Rollback(c)
    \/ StartReject(c)
    \/ Reject(c)
    \/ GiveUp(c)

Next ==
  \/ Negotiate
  \/ Decide
  \/ EditPlans
  \/ \E i \in DOMAIN credits : PayOff(i)
  \/ \E b \in BOOLEAN : SetBlocked(b)

Spec == Init /\ [][Next]_vars

-----------------------------------------------------------------------------
FromApplication ==
  SelectSeq(credits, LAMBDA credit : credit.origin = "application")

\* A credit approved with the client's acceptance has the plan, the terms and
\* the principal of the schedule the client said yes to ("garantizando que el
\* crédito == lo que el cliente aceptó").
CreditAsAgreed ==
  \A i \in DOMAIN credits :
    credits[i].origin = "application" /\ ~credits[i].override =>
      agreed = Schedule(credits[i].plan, credits[i].terms, credits[i].principal)

\* That holds as long as no request overtook another, the plans were left alone
\* while on offer and the client answered the last message it was sent.
AgreedWhenCalm == calm => CreditAsAgreed

\* What makes it so: one request runs at a time and what it read is still so, the
\* client was last sent the offer that stands, and once it is accepted nothing of it
\* changes any more.
Busy(m) == msg[m].at \in {"select", "selected", "answer"}

\* Only an offer is answered, and it is never taken back.
ServedIsOffered == \A m \in Messages : Busy(m) => app.offer # "NOT_OFFERED"

OneAtATime ==
  /\ \A c, d \in Coordinators : coord[c] # Free /\ coord[d] # Free => c = d
  /\ \A m, n \in Messages : Busy(m) /\ Busy(n) => m = n
  /\ \A c \in Coordinators, m \in Messages : ~(coord[c] # Free /\ Busy(m))

Standing == Schedule(app.plan, plan[app.plan].terms, app.principal)

StandingIs(content) ==
  /\ app.plan \in Plans /\ plan[app.plan] # NoPlan
  /\ content = Standing

\* What an offer in flight is about to send.
AboutToSend(content) ==
  \/ app.offer = "AWAITING_SELECTION"
  \/ app.offer = "AWAITING_ACCEPTANCE" /\ StandingIs(content)

Accepted(credit) ==
  credit.origin = "application" /\ ~credit.override =>
    /\ app.offer = "ACCEPTED"
    /\ agreed = Schedule(credit.plan, credit.terms, credit.principal)

RequestCurrent(r) ==
  /\ r.at = "offer" => r.seen = app.offer
  /\ r.at = "offered" => AboutToSend(r.send)
  /\ r.at = "approve" =>
       /\ r.app.offer = app.offer
       /\ r.app.plan = app.plan
       /\ r.app.principal = app.principal
  /\ r.at \in {"grant", "commit"} => Accepted(r.credit)

MessageCurrent(r) ==
  /\ r.at = "select" => app.offer = "AWAITING_SELECTION" /\ r.principal = app.principal
  /\ r.at = "selected" => AboutToSend(r.send)
  /\ r.at = "answer" => app.offer = "AWAITING_ACCEPTANCE" /\ r.about = shown

Sending ==
  \/ \E c \in Coordinators : coord[c].at = "offered"
  \/ \E m \in Messages : msg[m].at = "selected"

OfferStands ==
  /\ app.offer = "AWAITING_ACCEPTANCE" /\ ~Sending => StandingIs(shown)
  /\ app.offer = "ACCEPTED" => StandingIs(agreed)

CreditsAccepted == \A i \in DOMAIN credits : Accepted(credits[i])

CalmInv ==
  calm => /\ OneAtATime
          /\ \A c \in Coordinators : RequestCurrent(coord[c])
          /\ \A m \in Messages : MessageCurrent(msg[m])
          /\ OfferStands
          /\ CreditsAccepted

\* The transaction that grants holds the row of the borrower, and what it checked
\* under that lock is still so.
LockInv ==
  \A c \in Coordinators :
    coord[c].at = "commit" => locked = c /\ CanReceive(coord[c].credit.principal)

\* A credit is only granted to a borrower who is not blocked, within the limit
\* counted with every credit granted before it, whoever grants at the same time.
GrantedWithinPolicy ==
  [][Len(credits') > Len(credits) =>
       CanReceive(credits'[Len(credits')].principal)]_vars

\* An application yields one credit at most: approving it again changes nothing
\* ("Idempotente ... doble pulsación o reintento no rompe nada").
OneCreditPerApplication == Len(FromApplication) <= 1

\* An application is approved exactly when it has a credit ("no queda APPROVED
\* sin crédito ni al revés").
ApprovedIffCredit == app.status = "APPROVED" <=> FromApplication # <<>>

=============================================================================
