----------------------------- MODULE PixCharges -----------------------------
(***************************************************************************)
(* The conversational charge of one client: the menu of amounts, the PIX   *)
(* charge he chooses (packages/application/src/credit/payment-charge, apps/ *)
(* api/src/payments/charge) and the webhook of PicPay that tells what      *)
(* became of it.  Every transaction and every call to the provider is a    *)
(* step; a handler is a text in flight, and one may be delivered twice.    *)
(* What a claim and an incoming credit do next is module Payments.         *)
(*                                                                         *)
(* A text is abstracted to what the two parsers make of it, an amount to a *)
(* small number, a merchantChargeId to the position of its charge.         *)
(***************************************************************************)
EXTENDS Naturals, Sequences, FiniteSets

CONSTANTS
  Texts,       \* texts of the client
  Handlers,    \* texts handled at once
  MaxDue,      \* bound on what the oldest unpaid installment owes
  MaxSessions, \* bound on the sessions that are opened
  MaxFailures  \* bound on the handlers and webhooks that die

VARIABLES
  says,      \* says[m]: "pay" (detectPaymentIntent), "one", "two", "amount"
  due,       \* balance of the oldest unpaid installment
  seen,      \* rows of processed_inbound_message
  sessions,  \* rows of payment_charge, in the order of their creation
  claims,    \* the expected payments (rows of payment with this origin)
  charges,   \* external: the charges of PicPay
  told,      \* charges whose code reached the client
  turn,      \* turn[h]: the text in h
  notice,    \* notice[c]: the webhook of charge c in flight
  logged,    \* charges with a row in provider_webhook_event
  ingested,  \* charges with a row in incoming_credit
  failures

pixVars == <<says, due, seen, sessions, claims, charges, told, turn, notice,
             logged, ingested, failures>>

Terminal == {"PAID", "EXPIRED", "CANCELED"}
AtRest == [at |-> "idle"]

\* buildPaymentOptionsMessage, of an installment with as much again in arrears.
MenuOf(d) == [one |-> d, two |-> 2 * d]

\* parsePaymentChoice: zero stands for "reask".
Choice(what, menu) ==
  CASE what = "one" -> menu.one
    [] what = "two" -> menu.two
    [] what = "amount" -> 1
    [] what = "pay" -> 0

Open == {s \in DOMAIN sessions : sessions[s].status = "AWAITING_SELECTION"}

PixInit ==
  /\ says \in [Texts -> {"pay", "one", "two", "amount"}]
  /\ due \in 1..MaxDue
  /\ seen = {} /\ told = {} /\ logged = {} /\ ingested = {}
  /\ sessions = <<>> /\ claims = <<>> /\ charges = <<>>
  /\ turn = [h \in Handlers |-> AtRest]
  /\ notice = [m \in Texts |-> "none"]
  /\ failures = 0
-----------------------------------------------------------------------------
(* The handler of a text (offer-or-create-charge.ts).                       *)

Become(h, t) == turn' = [turn EXCEPT ![h] = t]

\* findOpenByChannel; a text that opens nothing and asks for nothing is left to
\* the next interceptor.
ReadSession(h, m) ==
  /\ turn[h] = AtRest
  /\ \/ \E s \in Open :
          Become(h, [at |-> "claim", text |-> m, session |-> s,
                     menu |-> sessions[s].menu, charge |-> 0])
     \/ /\ Open = {} /\ says[m] = "pay"
        /\ Become(h, [at |-> "lookup", text |-> m, session |-> 0,
                      menu |-> MenuOf(0), charge |-> 0])
  /\ UNCHANGED <<says, due, seen, sessions, claims, charges, told, notice,
                 logged, ingested, failures>>

\* findChargeableByPhone.
ReadCredit(h) ==
  /\ turn[h].at = "lookup"
  /\ Become(h, IF due = 0 THEN AtRest
               ELSE [turn[h] EXCEPT !.at = "claim", !.menu = MenuOf(due)])
  /\ UNCHANGED <<says, due, seen, sessions, claims, charges, told, notice,
                 logged, ingested, failures>>

\* A redelivered text is taken for a new one.
NewTextAlways(m) == TRUE

\* firstSeen of the deduplicator.
NewText(m) == m \notin seen

\* firstSeen, and what follows of it: the menu, the charge, or asking again.
ClaimText(h) ==
  LET m == turn[h].text IN
  /\ turn[h].at = "claim"
  /\ seen' = seen \cup {m}
  /\ Become(h, IF ~ NewText(m) THEN AtRest
               ELSE IF turn[h].session = 0 THEN [turn[h] EXCEPT !.at = "open"]
               ELSE IF Choice(says[m], turn[h].menu) = 0 THEN AtRest
               ELSE [turn[h] EXCEPT !.at = "create"])
  /\ UNCHANGED <<says, due, sessions, claims, charges, told, notice, logged,
                 ingested, failures>>

\* A second dialogue is opened beside the first.
OpenSessionBeside(h) ==
  /\ turn[h].at = "open" /\ Len(sessions) < MaxSessions
  /\ sessions' = Append(sessions, [status |-> "AWAITING_SELECTION", menu |-> turn[h].menu,
                                   charge |-> 0, claim |-> 0])
  /\ Become(h, AtRest)
  /\ UNCHANGED <<says, due, seen, claims, charges, told, notice, logged,
                 ingested, failures>>

\* openSession: the dialogue that was open is deleted.
OpenSession(h) ==
  /\ turn[h].at = "open" /\ Len(sessions) < MaxSessions
  /\ sessions' =
       Append([s \in DOMAIN sessions |->
                 IF s \in Open THEN [sessions[s] EXCEPT !.status = "DELETED"]
                 ELSE sessions[s]],
              [status |-> "AWAITING_SELECTION", menu |-> turn[h].menu,
               charge |-> 0, claim |-> 0])
  /\ Become(h, AtRest)
  /\ UNCHANGED <<says, due, seen, claims, charges, told, notice, logged,
                 ingested, failures>>

\* createCharge: the provider may fail before it creates the charge, or after.
MakeCharge(h) ==
  LET t == turn[h]
      new == [amount |-> Choice(says[t.text], t.menu), session |-> t.session,
              text |-> t.text, state |-> "OPEN"]
  IN
  /\ t.at = "create"
  /\ \/ /\ charges' = Append(charges, new)
        /\ \/ Become(h, [t EXCEPT !.at = "attach", !.charge = Len(charges) + 1])
           \/ Become(h, [t EXCEPT !.at = "degrade"])
     \/ /\ charges' = charges
        /\ Become(h, [t EXCEPT !.at = "degrade"])
  /\ UNCHANGED <<says, due, seen, sessions, claims, told, notice, logged,
                 ingested, failures>>

\* attachCharge: the claim and the session, in one transaction that looks for the
\* session and not for its status.
AttachCharge(h) ==
  LET t == turn[h] IN
  /\ t.at = "attach"
  /\ IF sessions[t.session].status = "DELETED"
     THEN UNCHANGED <<claims, sessions>>
     ELSE /\ claims' = Append(claims, [charge |-> t.charge,
                                       amount |-> charges[t.charge].amount])
          /\ sessions' = [sessions EXCEPT ![t.session] =
               [@ EXCEPT !.status = "PENDING", !.charge = t.charge,
                         !.claim = Len(claims) + 1]]
  /\ Become(h, [t EXCEPT !.at = "tell"])
  /\ UNCHANGED <<says, due, seen, charges, told, notice, logged, ingested, failures>>

\* buildChargeInstructionsMessage reaches the client.
TellCode(h) ==
  /\ turn[h].at = "tell"
  /\ told' = told \cup {turn[h].charge}
  /\ Become(h, AtRest)
  /\ UNCHANGED <<says, due, seen, sessions, claims, charges, notice, logged,
                 ingested, failures>>

\* markFailed, which does not look at the status either.
MarkFailed(h) ==
  LET s == turn[h].session IN
  /\ turn[h].at = "degrade"
  /\ sessions' = IF sessions[s].status = "DELETED" THEN sessions
                 ELSE [sessions EXCEPT ![s].status = "FAILED"]
  /\ Become(h, AtRest)
  /\ UNCHANGED <<says, due, seen, claims, charges, told, notice, logged, ingested,
                 failures>>

\* An exception or a crash: the text stays claimed.
DropText(h) ==
  /\ turn[h] # AtRest /\ failures < MaxFailures
  /\ failures' = failures + 1
  /\ Become(h, AtRest)
  /\ UNCHANGED <<says, due, seen, sessions, claims, charges, told, notice, logged,
                 ingested>>
-----------------------------------------------------------------------------
(* The provider and its webhook (ingest-picpay-webhook.service.ts).         *)

\* The client pays a code he has, or the charge ends without him.
SettleCharge(c, state) ==
  /\ charges[c].state = "OPEN"
  /\ state = "PAID" => c \in told
  /\ charges' = [charges EXCEPT ![c].state = state]
  /\ UNCHANGED <<says, due, seen, sessions, claims, told, turn, notice, logged,
                 ingested, failures>>

Noticed(c, n) == notice' = [notice EXCEPT ![charges[c].text] = n]

\* recordOnce, of an event that may have been delivered before.
RecordEvent(c) ==
  /\ charges[c].state \in Terminal /\ notice[charges[c].text] = "none"
  /\ logged' = logged \cup {c}
  /\ Noticed(c, "reflect")
  /\ UNCHANGED <<says, due, seen, sessions, claims, charges, told, turn, ingested,
                 failures>>

\* markStatusByMerchantChargeId.
ReflectStatus(c) ==
  /\ notice[charges[c].text] = "reflect"
  /\ sessions' = [s \in DOMAIN sessions |->
                    IF sessions[s].charge = c /\ sessions[s].status = "PENDING"
                    THEN [sessions[s] EXCEPT !.status = charges[c].state]
                    ELSE sessions[s]]
  /\ Noticed(c, IF charges[c].state = "PAID" THEN "ingest" ELSE "none")
  /\ UNCHANGED <<says, due, seen, claims, charges, told, turn, logged, ingested,
                 failures>>

\* ingestMany: the money of the charge becomes a row the settlement may match.
IngestCredit(c) ==
  /\ notice[charges[c].text] = "ingest"
  /\ ingested' = ingested \cup {c}
  /\ Noticed(c, "none")
  /\ UNCHANGED <<says, due, seen, sessions, claims, charges, told, turn, logged,
                 failures>>

\* The controller answers 200 to an event it could not process.
DropEvent(c) ==
  /\ notice[charges[c].text] # "none" /\ failures < MaxFailures
  /\ failures' = failures + 1
  /\ Noticed(c, "none")
  /\ UNCHANGED <<says, due, seen, sessions, claims, charges, told, turn, logged,
                 ingested>>

\* Other payments of the client, or the calendar, move his oldest installment.
MoveDue(d) ==
  /\ due # d
  /\ due' = d
  /\ UNCHANGED <<says, seen, sessions, claims, charges, told, turn, notice, logged,
                 ingested, failures>>

HandlerStep(h) ==
  \/ \E m \in Texts : ReadSession(h, m)
  \/ ReadCredit(h) \/ ClaimText(h) \/ OpenSession(h)
  \/ MakeCharge(h) \/ AttachCharge(h) \/ TellCode(h)
  \/ MarkFailed(h) \/ DropText(h)

ProviderStep(c) ==
  \/ \E state \in Terminal : SettleCharge(c, state)
  \/ RecordEvent(c) \/ ReflectStatus(c) \/ IngestCredit(c) \/ DropEvent(c)

PixNext ==
  \/ \E h \in Handlers : HandlerStep(h)
  \/ \E c \in DOMAIN charges : ProviderStep(c)
  \/ \E d \in 0..MaxDue : MoveDue(d)

PixSpec == PixInit /\ [][PixNext]_pixVars
-----------------------------------------------------------------------------
SessionStatuses == {"AWAITING_SELECTION", "PENDING", "FAILED", "DELETED"} \cup Terminal

Menus == [one : Nat, two : Nat]
Sessions == [status : SessionStatuses, menu : Menus, charge : Nat, claim : Nat]
ChargeRows == [amount : Nat, session : Nat, text : Texts, state : {"OPEN"} \cup Terminal]

\* The steps of a text, and those it takes once it is known to be new.
Claimed == {"open", "create", "attach", "tell", "degrade"}
Turns == {AtRest} \cup [at : {"lookup", "claim"} \cup Claimed, text : Texts, session : Nat,
                        menu : Menus, charge : Nat]

PixTypeOK ==
  /\ says \in [Texts -> {"pay", "one", "two", "amount"}]
  /\ due \in 0..MaxDue
  /\ seen \subseteq Texts
  /\ told \subseteq DOMAIN charges /\ logged \subseteq DOMAIN charges
  /\ ingested \subseteq logged
  /\ sessions \in Seq(Sessions) /\ charges \in Seq(ChargeRows)
  /\ claims \in Seq([charge : Nat, amount : Nat])
  /\ turn \in [Handlers -> Turns]
  /\ notice \in [Texts -> {"none", "reflect", "ingest"}]

\* The dialogue is one: a client is never asked to choose from two menus.
OneOpenSession == Cardinality(Open) <= 1

\* A text that is delivered again never makes a second charge.
OneChargePerText ==
  \A c, d \in DOMAIN charges : charges[c].text = charges[d].text => c = d

\* The client pays the amount of the menu he chose from, although what he owes
\* moves on while he chooses.
ChargedAsOffered ==
  \A c \in DOMAIN charges :
    charges[c].amount = Choice(says[charges[c].text], sessions[charges[c].session].menu)

\* A session that was charged has the claim of its last charge, by which the
\* settlement will credit it, and says of that charge what the provider said.
SessionMatchesClaim ==
  \A s \in DOMAIN sessions :
    sessions[s].charge > 0 =>
      LET c == sessions[s].charge IN
      /\ claims[sessions[s].claim] = [charge |-> c, amount |-> charges[c].amount]
      /\ charges[c].session = s
      /\ sessions[s].status \in Terminal => charges[c].state = sessions[s].status

\* There is a payment that expects the charge c, or its dialogue was replaced.
Expected(c) ==
  \/ \E p \in DOMAIN claims : claims[p].charge = c
  \/ sessions[charges[c].session].status = "DELETED"

\* A code goes out with a payment that expects it, unless another text replaced
\* the dialogue under the handler.
CodeIsExpected == \A c \in told : Expected(c)
-----------------------------------------------------------------------------
(* Why they hold: what the handler of a text, and a webhook in flight, know. *)

\* A charge is of a session that exists, made from a text that was claimed.
ChargesKnow ==
  \A c \in DOMAIN charges :
    charges[c].session \in DOMAIN sessions /\ charges[c].text \in seen

\* What a session points at exists.
SessionsKnow ==
  \A s \in DOMAIN sessions : sessions[s].charge > 0 =>
    sessions[s].charge \in DOMAIN charges /\ sessions[s].claim \in DOMAIN claims

TurnKnows(h) ==
  LET t == turn[h] IN
  /\ t.at \in Claimed => t.text \in seen
  /\ t.at \in {"create", "attach", "tell", "degrade"} => t.session # 0
  /\ t.at # "idle" /\ t.session # 0 =>
       t.session \in DOMAIN sessions /\ t.menu = sessions[t.session].menu
  /\ t.at \in {"lookup", "open"} => t.session = 0
  /\ t.at \in {"attach", "tell"} =>
       t.charge \in DOMAIN charges /\ charges[t.charge].session = t.session
  /\ t.at = "tell" => Expected(t.charge)
  /\ t.at \in {"open", "create"} => \A c \in DOMAIN charges : charges[c].text # t.text

\* Two handlers never both claimed a text.
TextsApart ==
  \A h, g \in Handlers :
    turn[h].at \in Claimed /\ turn[g].at \in Claimed /\ turn[h].text = turn[g].text => h = g

\* A webhook is of a charge that ended and was written down.
NoticesKnow ==
  \A m \in Texts : notice[m] # "none" =>
    \E c \in logged : charges[c].text = m /\ charges[c].state \in Terminal

PixTerms == MaxDue \in Nat

PixInv ==
  /\ PixTypeOK /\ OneChargePerText /\ ChargedAsOffered /\ SessionMatchesClaim /\ CodeIsExpected
  /\ \A s, t \in Open : s = t
  /\ ChargesKnow /\ SessionsKnow /\ TextsApart /\ NoticesKnow
  /\ \A h \in Handlers : TurnKnows(h)

\* What holds of the conversational charges of a client, whatever is redelivered,
\* raced by another text of his, or answered late by the provider.
PixChargesSafe ==
  /\ PixTypeOK
  /\ OneOpenSession
  /\ OneChargePerText
  /\ ChargedAsOffered
  /\ SessionMatchesClaim
  /\ CodeIsExpected
  /\ PixTerms /\ PixInv
=============================================================================
