--------------------------- MODULE ChannelsProofs ---------------------------
(***************************************************************************)
(* What lets a request in, and what talks to the world outside, proved for *)
(* every value of the constants: the charges of a conversation             *)
(* (PixCharges), the bots of the channels (TelegramBots), the tree of the  *)
(* zones (Organization) and the sessions (Access).                         *)
(*                                                                         *)
(* Each is one inductive invariant, of what a handler in flight may rely   *)
(* on.  A lemma says what any step leaves as it was (Persists, GoesOn,     *)
(* IntentsKept...), so that only what a handler itself goes on with has to *)
(* be looked at action by action.                                          *)
(***************************************************************************)
EXTENDS Channels, SequenceTheorems, FiniteSetTheorems, WellFoundedInduction, TLAPS

-----------------------------------------------------------------------------
(* PixCharges: the inductive invariant is PixInv.                           *)

LEMMA SequenceFacts ==
  ASSUME NEW S, NEW s \in Seq(S)
  PROVE  /\ Len(s) \in Nat /\ DOMAIN s = 1..Len(s) /\ s \in [DOMAIN s -> S]
         /\ \A i \in DOMAIN s : s[i] \in S
         /\ \A x \in S : /\ Append(s, x) \in Seq(S)
                         /\ DOMAIN Append(s, x) = DOMAIN s \cup {Len(s) + 1}
                         /\ \A i \in DOMAIN s : Append(s, x)[i] = s[i]
                         /\ Append(s, x)[Len(s) + 1] = x
                         /\ Len(s) + 1 \notin DOMAIN s /\ Len(s) + 1 \in Nat \ {0}
<1>1. Len(s) \in Nat /\ DOMAIN s = 1..Len(s) /\ s \in [1..Len(s) -> S]
  BY LenProperties
<1>2. ASSUME NEW x \in S
      PROVE  /\ Append(s, x) \in Seq(S)
             /\ DOMAIN Append(s, x) = DOMAIN s \cup {Len(s) + 1}
             /\ \A i \in DOMAIN s : Append(s, x)[i] = s[i]
             /\ Append(s, x)[Len(s) + 1] = x
  <2>1. /\ Append(s, x) \in Seq(S) /\ Len(Append(s, x)) = Len(s) + 1
        /\ \A i \in 1..Len(s) : Append(s, x)[i] = s[i]
        /\ Append(s, x)[Len(s) + 1] = x
    BY AppendProperties
  <2>2. DOMAIN Append(s, x) = 1..(Len(s) + 1)
    BY <2>1, LenProperties
  <2>3. 1..(Len(s) + 1) = (1..Len(s)) \cup {Len(s) + 1}
    BY <1>1
  <2> QED
    BY <1>1, <2>1, <2>2, <2>3
<1>3. Len(s) + 1 \notin DOMAIN s /\ Len(s) + 1 \in Nat \ {0}
  BY <1>1
<1>4. \A i \in DOMAIN s : s[i] \in S
  BY <1>1
<1> QED
  BY <1>1, <1>2, <1>3, <1>4

\* A sequence whose elements are changed in place.
LEMMA ChangedInPlace ==
  ASSUME NEW S, NEW s \in Seq(S), NEW f \in [DOMAIN s -> S]
  PROVE  f \in Seq(S) /\ DOMAIN f = DOMAIN s /\ Len(f) = Len(s)
<1>1. Len(s) \in Nat /\ DOMAIN s = 1..Len(s)
  BY LenProperties
<1>2. f \in Seq(S)
  BY <1>1, IsASeq
<1>3. Len(f) = Len(s)
  <2>1. DOMAIN f = 1..Len(f) /\ Len(f) \in Nat
    BY <1>2, LenProperties
  <2> QED
    BY <1>1, <2>1
<1> QED
  BY <1>2, <1>3

LEMMA MenusOffer ==
  /\ \A d \in Nat : MenuOf(d) \in Menus
  /\ \A menu \in Menus, what \in {"pay", "one", "two", "amount"} : Choice(what, menu) \in Nat
<1>1. ASSUME NEW menu \in Menus, NEW what \in {"pay", "one", "two", "amount"}
      PROVE  Choice(what, menu) \in Nat
  <2>1. menu.one \in Nat /\ menu.two \in Nat
    BY DEF Menus
  <2>2. CASE what = "pay"
    BY <2>1, <2>2 DEF Choice
  <2>3. CASE what = "one"
    BY <2>1, <2>3 DEF Choice
  <2>4. CASE what = "two"
    BY <2>1, <2>4 DEF Choice
  <2>5. CASE what = "amount"
    BY <2>1, <2>5 DEF Choice
  <2> QED
    BY <2>2, <2>3, <2>4, <2>5
<1>2. \A d \in Nat : MenuOf(d) \in Menus
  BY DEF MenuOf, Menus
<1> QED
  BY <1>1, <1>2

Going == [at : {"lookup", "claim"} \cup Claimed, text : Texts, session : Nat,
          menu : Menus, charge : Nat]

\* A handler is at rest or has a text.
LEMMA TurnForms ==
  ASSUME NEW t \in Turns
  PROVE  /\ t.at = "idle" <=> t = AtRest
         /\ t.at # "idle" => t \in Going
         /\ t.at \in {"idle", "lookup", "claim", "open", "create", "attach", "tell", "degrade"}
<1>1. t \in {AtRest} \/ t \in Going
  BY DEF Turns, Going
<1>2. AtRest.at = "idle"
  BY DEF AtRest
<1> QED
  BY <1>1, <1>2 DEF Going, Claimed

\* The actions, one by one.
LEMMA PixActions ==
  ASSUME PixNext
  PROVE  \/ \E h \in Handlers, m \in Texts : ReadSession(h, m)
         \/ \E h \in Handlers : ReadCredit(h)
         \/ \E h \in Handlers : ClaimText(h)
         \/ \E h \in Handlers : OpenSession(h)
         \/ \E h \in Handlers : MakeCharge(h)
         \/ \E h \in Handlers : AttachCharge(h)
         \/ \E h \in Handlers : TellCode(h)
         \/ \E h \in Handlers : MarkFailed(h)
         \/ \E h \in Handlers : DropText(h)
         \/ \E c \in DOMAIN charges, state \in Terminal : SettleCharge(c, state)
         \/ \E c \in DOMAIN charges : RecordEvent(c)
         \/ \E c \in DOMAIN charges : ReflectStatus(c)
         \/ \E c \in DOMAIN charges : IngestCredit(c)
         \/ \E c \in DOMAIN charges : DropEvent(c)
         \/ \E d \in 0..MaxDue : MoveDue(d)
BY DEF PixNext, HandlerStep, ProviderStep

\* What never goes back: a text once seen, a session and its menu, a charge and what it
\* is of, a payment that is expected.
Persists ==
  /\ says' = says /\ seen \subseteq seen' /\ told \subseteq told' /\ logged \subseteq logged'
  /\ \A s \in DOMAIN sessions :
       /\ s \in DOMAIN sessions' /\ sessions'[s].menu = sessions[s].menu
       /\ sessions[s].status = "DELETED" => sessions'[s].status = "DELETED"
  /\ \A c \in DOMAIN charges :
       /\ c \in DOMAIN charges' /\ charges'[c].text = charges[c].text
       /\ charges'[c].amount = charges[c].amount /\ charges'[c].session = charges[c].session
       /\ charges'[c].state = charges[c].state \/ charges[c].state = "OPEN"
  /\ \A p \in DOMAIN claims : p \in DOMAIN claims' /\ claims'[p] = claims[p]

\* What stays true of a handler that did not move: all but that its text has no charge.
LEMMA TurnStays ==
  ASSUME PixTypeOK, ChargesKnow, Persists, NEW h \in Handlers, TurnKnows(h), turn'[h] = turn[h],
         turn[h].at \in {"open", "create"} => \A c \in DOMAIN charges' : charges'[c].text # turn[h].text
  PROVE  TurnKnows(h)'
<1>1. ASSUME NEW c \in DOMAIN charges, Expected(c)
      PROVE  Expected(c)'
  <2>1. charges[c].session \in DOMAIN sessions /\ charges'[c].session = charges[c].session
    BY DEF ChargesKnow, Persists
  <2>2. CASE \E p \in DOMAIN claims : claims[p].charge = c
    BY <2>2 DEF Persists, Expected
  <2>3. CASE sessions[charges[c].session].status = "DELETED"
    BY <2>1, <2>3 DEF Persists, Expected
  <2> QED
    BY <1>1, <2>2, <2>3 DEF Expected
<1> QED
  BY <1>1 DEF TurnKnows, Persists

\* A handler that moves leaves the others what they know.
LEMMA HandlersKnow ==
  ASSUME PixInv, Persists, NEW h \in Handlers, NEW t \in Turns, turn' = [turn EXCEPT ![h] = t],
         t.at \in Claimed =>
           (turn[h].at \in Claimed /\ t.text = turn[h].text) \/ t.text \notin seen,
         \A c \in DOMAIN charges' :
           c \in DOMAIN charges \/ (turn[h].at = "create" /\ charges'[c].text = turn[h].text),
         TurnKnows(h)'
  PROVE  /\ turn' \in [Handlers -> Turns] /\ TextsApart'
         /\ \A g \in Handlers : TurnKnows(g)'
<1>1. /\ turn \in [Handlers -> Turns] /\ PixTypeOK /\ ChargesKnow /\ TextsApart
      /\ \A g \in Handlers : TurnKnows(g)
  BY DEF PixInv, PixTypeOK
<1>2. turn' \in [Handlers -> Turns] /\ turn'[h] = t /\ \A g \in Handlers : g # h => turn'[g] = turn[g]
  BY <1>1
<1>3. TextsApart'
  <2> SUFFICES ASSUME NEW g \in Handlers, NEW k \in Handlers, turn'[g].at \in Claimed,
                      turn'[k].at \in Claimed, turn'[g].text = turn'[k].text
               PROVE  g = k
    BY DEF TextsApart
  <2>1. CASE g # h /\ k # h
    BY <2>1, <1>1, <1>2 DEF TextsApart
  <2>2. ASSUME NEW x \in Handlers, x # h, turn[x].at \in Claimed, t.at \in Claimed,
               t.text = turn[x].text
        PROVE  FALSE
    <3>1. turn[x].text \in seen
      BY <1>1, <2>2 DEF TurnKnows
    <3> QED
      BY <1>1, <2>2, <3>1 DEF TextsApart
  <2> QED
    BY <1>2, <2>1, <2>2
<1>4. ASSUME NEW g \in Handlers, g # h
      PROVE  TurnKnows(g)'
  <2>1. turn[g].at \in {"open", "create"} => \A c \in DOMAIN charges' : charges'[c].text # turn[g].text
    <3> SUFFICES ASSUME turn[g].at \in {"open", "create"}, NEW c \in DOMAIN charges',
                        charges'[c].text = turn[g].text
                 PROVE  FALSE
      OBVIOUS
    <3>1. CASE c \in DOMAIN charges
      BY <3>1, <1>1 DEF TurnKnows, Persists
    <3>2. CASE turn[h].at = "create" /\ charges'[c].text = turn[h].text
      BY <3>2, <1>1, <1>4 DEF TextsApart, Claimed
    <3> QED
      BY <3>1, <3>2
  <2> QED
    BY <1>1, <1>2, <1>4, <2>1, TurnStays
<1> QED
  BY <1>2, <1>3, <1>4

\* The rows of the sessions, the charges and the payments that a step leaves alone.
RowsStay == sessions' = sessions /\ claims' = claims /\ charges' = charges /\ says' = says

LEMMA RowsKeep ==
  ASSUME PixInv, RowsStay, seen \subseteq seen', \A c \in told' : c \in told \/ Expected(c)
  PROVE  /\ OneChargePerText' /\ ChargedAsOffered' /\ SessionMatchesClaim' /\ CodeIsExpected'
         /\ (\A s, t \in Open : s = t)' /\ ChargesKnow' /\ SessionsKnow'
<1>1. OneChargePerText' /\ (\A s, t \in Open : s = t)' /\ SessionsKnow'
  BY DEF PixInv, RowsStay, OneChargePerText, Open, SessionsKnow
<1>2. ChargedAsOffered'
  BY DEF PixInv, RowsStay, ChargedAsOffered, Choice
<1>3. SessionMatchesClaim' /\ ChargesKnow'
  BY DEF PixInv, RowsStay, SessionMatchesClaim, ChargesKnow
<1>4. CodeIsExpected'
  <2>1. \A c : Expected(c)' <=> Expected(c)
    BY DEF RowsStay, Expected
  <2> QED
    BY <2>1 DEF CodeIsExpected, PixInv
<1> QED
  BY <1>1, <1>2, <1>3, <1>4

LEMMA RowsPersist ==
  ASSUME RowsStay, seen \subseteq seen', told \subseteq told', logged \subseteq logged'
  PROVE  Persists
BY DEF RowsStay, Persists

\* A text that is read, claimed, answered or dropped.
LEMMA TextsKeep ==
  ASSUME PixTerms, PixInv, NEW h \in Handlers,
         \/ \E m \in Texts : ReadSession(h, m)
         \/ ReadCredit(h)
         \/ ClaimText(h)
         \/ TellCode(h)
         \/ DropText(h)
  PROVE  PixInv'
<1>1. /\ PixTypeOK /\ ChargesKnow /\ SessionsKnow /\ NoticesKnow /\ turn \in [Handlers -> Turns]
      /\ sessions \in Seq(Sessions) /\ TurnKnows(h) /\ turn[h] \in Turns /\ due \in Nat
  BY DEF PixInv, PixTypeOK, PixTerms
<1> DEFINE t == turn[h]
<1>2. /\ t.at = "idle" <=> t = AtRest
      /\ t.at # "idle" => t \in Going
      /\ AtRest.at = "idle" /\ AtRest \in Turns
  BY <1>1, TurnForms DEF AtRest, Turns
<1>3. RowsStay /\ seen \subseteq seen' /\ told \subseteq told'
      /\ UNCHANGED <<due, notice, logged, ingested>>
  BY DEF ReadSession, ReadCredit, ClaimText, TellCode, DropText, RowsStay, Become
<1>4. Persists
  BY <1>3, RowsPersist
<1>5. \E u \in Turns :
        /\ turn' = [turn EXCEPT ![h] = u]
        /\ u.at \in Claimed => (t.at \in Claimed /\ u.text = t.text) \/ u.text \notin seen
        /\ TurnKnows(h)' /\ seen' \subseteq Texts /\ told' \subseteq DOMAIN charges
        /\ \A c \in told' : c \in told \/ Expected(c)
  <2>1. ASSUME NEW u \in Turns, turn' = [turn EXCEPT ![h] = u]
        PROVE  turn'[h] = u
    BY <1>1, <2>1
  <2>2. seen \subseteq Texts /\ told \subseteq DOMAIN charges
    BY DEF PixInv, PixTypeOK
  <2>3. CASE Become(h, AtRest) /\ seen' \subseteq Texts /\ told' \subseteq DOMAIN charges
             /\ \A c \in told' : c \in told \/ Expected(c)
    <3>1. turn' = [turn EXCEPT ![h] = AtRest] /\ turn'[h] = AtRest
      BY <2>1, <2>3, <1>2 DEF Become
    <3> HIDE DEF AtRest
    <3>2. TurnKnows(h)'
      BY <3>1, <1>2 DEF TurnKnows, Claimed
    <3> QED
      BY <3>1, <3>2, <2>3, <1>2 DEF Claimed
  <2>4. CASE \E m \in Texts : ReadSession(h, m)
    <3>1. PICK m \in Texts : ReadSession(h, m)
      BY <2>4
    <3>2. seen' = seen /\ told' = told
      BY <3>1 DEF ReadSession
    <3>3. ASSUME NEW s \in Open,
                 Become(h, [at |-> "claim", text |-> m, session |-> s,
                            menu |-> sessions[s].menu, charge |-> 0])
          PROVE  <1>5!:
      <4> DEFINE u == [at |-> "claim", text |-> m, session |-> s,
                       menu |-> sessions[s].menu, charge |-> 0]
      <4>1. s \in DOMAIN sessions /\ s \in Nat /\ sessions[s].menu \in Menus
        <5>1. s \in DOMAIN sessions
          BY DEF Open
        <5>2. Len(sessions) \in Nat /\ DOMAIN sessions = 1..Len(sessions) /\ sessions[s] \in Sessions
          BY <1>1, <5>1, SequenceFacts
        <5>3. s \in Nat
          BY <5>1, <5>2
        <5> QED
          BY <5>1, <5>2, <5>3 DEF Sessions
      <4>2. u \in Turns /\ u.at = "claim" /\ u.session = s /\ u.menu = sessions[s].menu
        BY <4>1 DEF Turns, Claimed
      <4>3. turn' = [turn EXCEPT ![h] = u]
        BY <3>3 DEF Become
      <4> HIDE DEF u
      <4>4. turn'[h] = u
        BY <4>2, <4>3, <2>1
      <4>5. TurnKnows(h)'
        BY <4>1, <4>2, <4>4, <1>3 DEF TurnKnows, RowsStay, Claimed
      <4> QED
        BY <4>2, <4>3, <4>5, <2>2, <3>2 DEF Claimed
    <3>4. CASE Become(h, [at |-> "lookup", text |-> m, session |-> 0,
                          menu |-> MenuOf(0), charge |-> 0])
      <4> DEFINE u == [at |-> "lookup", text |-> m, session |-> 0,
                       menu |-> MenuOf(0), charge |-> 0]
      <4>1. MenuOf(0) \in Menus
        BY MenusOffer
      <4>2. u \in Turns /\ u.at = "lookup" /\ u.session = 0
        BY <4>1 DEF Turns
      <4>3. turn' = [turn EXCEPT ![h] = u]
        BY <3>4 DEF Become
      <4> HIDE DEF u
      <4>4. turn'[h] = u
        BY <4>2, <4>3, <2>1
      <4>5. TurnKnows(h)'
        BY <4>2, <4>4 DEF TurnKnows, Claimed
      <4> QED
        BY <4>2, <4>3, <4>5, <2>2, <3>2 DEF Claimed
    <3> QED
      BY <3>1, <3>3, <3>4 DEF ReadSession
  <2>5. CASE ReadCredit(h)
    <3>1. t.at = "lookup" /\ t.session = 0 /\ t \in Going /\ seen' = seen /\ told' = told
      BY <2>5, <1>1, <1>2 DEF ReadCredit, TurnKnows
    <3>2. CASE due = 0
      BY <2>3, <2>5, <2>2, <3>1, <3>2 DEF ReadCredit
    <3>3. CASE due # 0
      <4> DEFINE u == [t EXCEPT !.at = "claim", !.menu = MenuOf(due)]
      <4>1. MenuOf(due) \in Menus
        BY <1>1, MenusOffer
      <4>2. u \in Turns /\ u.at = "claim" /\ u.session = 0
        BY <4>1, <3>1 DEF Turns, Going
      <4>3. turn' = [turn EXCEPT ![h] = u]
        BY <2>5, <3>3 DEF Become, ReadCredit
      <4> HIDE DEF u
      <4>4. turn'[h] = u
        BY <4>2, <4>3, <2>1
      <4>5. TurnKnows(h)'
        BY <4>2, <4>4 DEF TurnKnows, Claimed
      <4> QED
        BY <4>2, <4>3, <4>5, <2>2, <3>1 DEF Claimed
    <3> QED
      BY <3>2, <3>3
  <2>6. CASE ClaimText(h)
    <3>1. t.at = "claim" /\ t \in Going /\ t.text \in Texts /\ seen' = seen \cup {t.text} /\ told' = told
      BY <2>6, <1>2 DEF ClaimText, Going
    <3>2. CASE Become(h, AtRest)
      BY <2>3, <2>2, <3>1, <3>2
    <3>3. CASE ~ Become(h, AtRest)
      <4>1. /\ t.text \notin seen
            /\ \/ t.session = 0 /\ Become(h, [t EXCEPT !.at = "open"])
               \/ t.session # 0 /\ Become(h, [t EXCEPT !.at = "create"])
        BY <2>6, <3>3 DEF ClaimText, NewText
      <4>2. PICK at \in {"open", "create"} :
              turn' = [turn EXCEPT ![h] = [t EXCEPT !.at = at]] /\ (at = "open" <=> t.session = 0)
        BY <4>1 DEF Become
      <4> DEFINE u == [t EXCEPT !.at = at]
      <4>3. /\ u \in Turns /\ u.at = at /\ u.session = t.session /\ u.menu = t.menu
            /\ u.text = t.text
        BY <3>1 DEF Turns, Going, Claimed
      <4>4. turn'[h] = u
        BY <4>2, <4>3, <2>1
      <4>5. \A c \in DOMAIN charges : charges[c].text # t.text
        BY <4>1, <1>1 DEF ChargesKnow
      <4> HIDE DEF u
      <4>6. TurnKnows(h)'
        BY <4>2, <4>3, <4>4, <4>5, <3>1, <1>1, <1>3 DEF TurnKnows, RowsStay, Claimed
      <4> QED
        BY <4>1, <4>2, <4>3, <4>6, <2>2, <3>1 DEF Claimed, u
    <3> QED
      BY <3>2, <3>3
  <2>7. CASE TellCode(h)
    <3>1. t.at = "tell" /\ told' = told \cup {t.charge} /\ seen' = seen /\ Become(h, AtRest)
      BY <2>7 DEF TellCode
    <3>2. t.charge \in DOMAIN charges /\ Expected(t.charge)
      BY <3>1, <1>1 DEF TurnKnows
    <3> QED
      BY <2>3, <2>2, <3>1, <3>2
  <2>8. CASE DropText(h)
    BY <2>3, <2>2, <2>8 DEF DropText
  <2> QED
    BY <2>4, <2>5, <2>6, <2>7, <2>8
<1>6. PICK u \in Turns :
        /\ turn' = [turn EXCEPT ![h] = u]
        /\ u.at \in Claimed => (t.at \in Claimed /\ u.text = t.text) \/ u.text \notin seen
        /\ TurnKnows(h)' /\ seen' \subseteq Texts /\ told' \subseteq DOMAIN charges
        /\ \A c \in told' : c \in told \/ Expected(c)
  BY <1>5
<1>7. /\ turn' \in [Handlers -> Turns] /\ TextsApart'
      /\ \A g \in Handlers : TurnKnows(g)'
  BY <1>3, <1>4, <1>6, HandlersKnow DEF RowsStay
<1>8. PixTypeOK'
  BY <1>1, <1>3, <1>6, <1>7 DEF PixTypeOK, RowsStay
<1>9. NoticesKnow'
  BY <1>1, <1>3 DEF NoticesKnow, RowsStay
<1> QED
  BY <1>3, <1>6, <1>7, <1>8, <1>9, RowsKeep DEF PixInv

\* What holds of a charge goes on to hold of it.
LEMMA ChargesPersist ==
  ASSUME PixInv, Persists
  PROVE  /\ \A c \in DOMAIN charges :
              /\ charges'[c].amount
                   = Choice(says'[charges'[c].text], sessions'[charges'[c].session].menu)
              /\ charges'[c].session \in DOMAIN sessions' /\ charges'[c].text \in seen'
              /\ Expected(c) => Expected(c)'
         /\ \A c, d \in DOMAIN charges : charges'[c].text = charges'[d].text => c = d
<1>1. ASSUME NEW c \in DOMAIN charges
      PROVE  /\ charges'[c].amount
                   = Choice(says'[charges'[c].text], sessions'[charges'[c].session].menu)
             /\ charges'[c].session \in DOMAIN sessions' /\ charges'[c].text \in seen'
             /\ Expected(c) => Expected(c)'
  <2>1. /\ charges[c].session \in DOMAIN sessions /\ charges[c].text \in seen
        /\ charges[c].amount = Choice(says[charges[c].text], sessions[charges[c].session].menu)
    BY DEF PixInv, ChargesKnow, ChargedAsOffered
  <2>2. /\ charges'[c].text = charges[c].text /\ charges'[c].amount = charges[c].amount
        /\ charges'[c].session = charges[c].session /\ says' = says /\ seen \subseteq seen'
        /\ sessions'[charges[c].session].menu = sessions[charges[c].session].menu
        /\ charges[c].session \in DOMAIN sessions'
        /\ sessions[charges[c].session].status = "DELETED"
             => sessions'[charges[c].session].status = "DELETED"
    BY <2>1 DEF Persists
  <2>3. Expected(c) => Expected(c)'
    <3>1. CASE \E p \in DOMAIN claims : claims[p].charge = c
      BY <3>1 DEF Persists, Expected
    <3>2. CASE sessions[charges[c].session].status = "DELETED"
      BY <2>2, <3>2 DEF Expected
    <3> QED
      BY <3>1, <3>2 DEF Expected
  <2> QED
    BY <2>1, <2>2, <2>3
<1>2. \A c, d \in DOMAIN charges : charges'[c].text = charges'[d].text => c = d
  BY DEF PixInv, OneChargePerText, Persists
<1> QED
  BY <1>1, <1>2

LEMMA RowsOfPix ==
  ASSUME PixInv
  PROVE  /\ sessions \in Seq(Sessions) /\ charges \in Seq(ChargeRows)
         /\ claims \in Seq([charge : Nat, amount : Nat])
         /\ turn \in [Handlers -> Turns] /\ says \in [Texts -> {"pay", "one", "two", "amount"}]
         /\ DOMAIN sessions = 1..Len(sessions) /\ Len(sessions) \in Nat
         /\ DOMAIN charges = 1..Len(charges) /\ Len(charges) \in Nat
         /\ DOMAIN claims = 1..Len(claims) /\ Len(claims) \in Nat
         /\ \A s \in DOMAIN sessions : sessions[s] \in Sessions
         /\ \A c \in DOMAIN charges : charges[c] \in ChargeRows
<1>1. /\ sessions \in Seq(Sessions) /\ charges \in Seq(ChargeRows)
      /\ claims \in Seq([charge : Nat, amount : Nat])
      /\ turn \in [Handlers -> Turns] /\ says \in [Texts -> {"pay", "one", "two", "amount"}]
  BY DEF PixInv, PixTypeOK
<1> QED
  BY <1>1, SequenceFacts

\* The handler comes to rest.
LEMMA RestsKnow ==
  ASSUME PixInv, Persists, NEW h \in Handlers, Become(h, AtRest),
         \A c \in DOMAIN charges' : c \in DOMAIN charges
  PROVE  /\ turn' \in [Handlers -> Turns] /\ TextsApart'
         /\ \A g \in Handlers : TurnKnows(g)'
<1>1. turn' = [turn EXCEPT ![h] = AtRest] /\ turn'[h] = AtRest /\ AtRest.at = "idle"
      /\ AtRest \in Turns
  BY RowsOfPix DEF Become, AtRest, Turns
<1> HIDE DEF AtRest
<1>2. TurnKnows(h)'
  BY <1>1 DEF TurnKnows, Claimed
<1> QED
  BY <1>1, <1>2, HandlersKnow DEF Claimed

\* openSession: what was open is deleted and the new dialogue is the one open.
LEMMA OpenKeeps ==
  ASSUME PixTerms, PixInv, NEW h \in Handlers, OpenSession(h)
  PROVE  PixInv'
<1> DEFINE t == turn[h]
           new == [status |-> "AWAITING_SELECTION", menu |-> t.menu, charge |-> 0, claim |-> 0]
           closed(s) == IF s \in Open THEN [sessions[s] EXCEPT !.status = "DELETED"]
                        ELSE sessions[s]
<1>1. PICK f : f = [s \in DOMAIN sessions |-> closed(s)]
  OBVIOUS
<1>2. /\ t.at = "open" /\ sessions' = Append(f, new) /\ Become(h, AtRest)
      /\ UNCHANGED <<says, due, seen, claims, charges, told, notice, logged, ingested>>
  BY <1>1 DEF OpenSession
<1>3. t \in Going /\ t.menu \in Menus
  BY <1>2, RowsOfPix, TurnForms DEF Going
<1>4. ASSUME NEW s \in DOMAIN sessions
      PROVE  /\ closed(s) \in Sessions /\ closed(s).menu = sessions[s].menu
             /\ closed(s).charge = sessions[s].charge /\ closed(s).claim = sessions[s].claim
             /\ closed(s).status # "AWAITING_SELECTION"
             /\ closed(s).status \in {sessions[s].status, "DELETED"}
             /\ sessions[s].status = "DELETED" => closed(s).status = "DELETED"
  <2>1. sessions[s] \in Sessions
    BY RowsOfPix
  <2> QED
    BY <2>1 DEF Sessions, SessionStatuses, Open
<1>5. f \in [DOMAIN sessions -> Sessions] /\ \A s \in DOMAIN sessions : f[s] = closed(s)
  BY <1>1, <1>4
<1>6. new \in Sessions /\ new.charge = 0
  BY <1>3 DEF Sessions, SessionStatuses
<1> HIDE DEF new, closed
<1>7. f \in Seq(Sessions) /\ DOMAIN f = DOMAIN sessions
  BY <1>5, RowsOfPix, ChangedInPlace
<1>8. PICK n : n = Len(f) + 1
  OBVIOUS
<1>9. /\ sessions' \in Seq(Sessions) /\ DOMAIN sessions' = DOMAIN sessions \cup {n}
      /\ \A s \in DOMAIN sessions : sessions'[s] = closed(s)
      /\ sessions'[n] = new /\ n \notin DOMAIN sessions
  BY <1>2, <1>5, <1>6, <1>7, <1>8, SequenceFacts
<1>10. Persists
  BY <1>2, <1>4, <1>9 DEF Persists
<1>11. /\ turn' \in [Handlers -> Turns] /\ TextsApart'
       /\ \A g \in Handlers : TurnKnows(g)'
  BY <1>2, <1>10, RestsKnow
<1>12. PixTypeOK'
  BY <1>2, <1>9, <1>11 DEF PixInv, PixTypeOK
<1>13. OneChargePerText' /\ ChargedAsOffered' /\ CodeIsExpected' /\ ChargesKnow'
  <2>1. told \subseteq DOMAIN charges /\ \A c \in told : Expected(c)
    BY DEF PixInv, PixTypeOK, CodeIsExpected
  <2> QED
    BY <1>2, <1>10, <2>1, ChargesPersist DEF OneChargePerText, ChargedAsOffered, CodeIsExpected, ChargesKnow
<1>14. SessionMatchesClaim' /\ SessionsKnow'
  <2> SUFFICES ASSUME NEW s \in DOMAIN sessions', sessions'[s].charge > 0
               PROVE  /\ claims'[sessions'[s].claim]
                           = [charge |-> sessions'[s].charge,
                              amount |-> charges'[sessions'[s].charge].amount]
                      /\ charges'[sessions'[s].charge].session = s
                      /\ sessions'[s].status \in Terminal
                           => charges'[sessions'[s].charge].state = sessions'[s].status
                      /\ sessions'[s].charge \in DOMAIN charges' /\ sessions'[s].claim \in DOMAIN claims'
    BY DEF SessionMatchesClaim, SessionsKnow
  <2>1. s \in DOMAIN sessions /\ sessions'[s] = closed(s)
    BY <1>6, <1>9
  <2>2. /\ sessions'[s].charge = sessions[s].charge /\ sessions'[s].claim = sessions[s].claim
        /\ sessions'[s].status \in Terminal => sessions'[s].status = sessions[s].status
    BY <2>1, <1>4 DEF Terminal
  <2> QED
    BY <1>2, <2>1, <2>2 DEF PixInv, SessionMatchesClaim, SessionsKnow
<1>15. (\A s, u \in Open : s = u)'
  BY <1>4, <1>9 DEF Open
<1>16. NoticesKnow'
  BY <1>2 DEF PixInv, NoticesKnow
<1> QED
  BY <1>11, <1>12, <1>13, <1>14, <1>15, <1>16 DEF PixInv

\* createCharge: the charge is the only one of its text, for what the menu said.
LEMMA CreateKeeps ==
  ASSUME PixTerms, PixInv, NEW h \in Handlers, MakeCharge(h)
  PROVE  PixInv'
<1> DEFINE t == turn[h]
           new == [amount |-> Choice(says[t.text], t.menu), session |-> t.session,
                   text |-> t.text, state |-> "OPEN"]
<1>1. /\ t.at = "create" /\ UNCHANGED <<says, due, seen, sessions, claims, told, notice, logged, ingested>>
      /\ \/ /\ charges' = Append(charges, new)
            /\ \/ Become(h, [t EXCEPT !.at = "attach", !.charge = Len(charges) + 1])
               \/ Become(h, [t EXCEPT !.at = "degrade"])
         \/ charges' = charges /\ Become(h, [t EXCEPT !.at = "degrade"])
  BY DEF MakeCharge
<1>2. t \in Going /\ t.text \in Texts /\ t.menu \in Menus /\ t.session \in Nat
  BY <1>1, RowsOfPix, TurnForms DEF Going
<1>3. TurnKnows(h)
  BY DEF PixInv
<1>4. /\ t.text \in seen /\ t.session \in DOMAIN sessions /\ t.menu = sessions[t.session].menu
      /\ \A c \in DOMAIN charges : charges[c].text # t.text
  BY <1>1, <1>3 DEF TurnKnows, Claimed
<1>5. says[t.text] \in {"pay", "one", "two", "amount"}
  BY <1>2, RowsOfPix
<1>6. new \in ChargeRows
  BY <1>2, <1>5, MenusOffer DEF ChargeRows
<1>7. /\ new.text = t.text /\ new.session = t.session /\ new.amount = Choice(says[t.text], t.menu)
      /\ new.state = "OPEN"
  OBVIOUS
<1> HIDE DEF new
<1>8. PICK n : n = Len(charges) + 1
  OBVIOUS
<1>9. /\ Append(charges, new) \in Seq(ChargeRows) /\ charges \in Seq(ChargeRows)
      /\ DOMAIN Append(charges, new) = DOMAIN charges \cup {n}
      /\ \A c \in DOMAIN charges : Append(charges, new)[c] = charges[c]
      /\ Append(charges, new)[n] = new /\ n \notin DOMAIN charges /\ n \in Nat
  BY <1>6, <1>8, RowsOfPix, SequenceFacts
<1>10. PICK d : d = charges'
  OBVIOUS
<1>11. /\ d \in Seq(ChargeRows) /\ DOMAIN charges \subseteq DOMAIN d
       /\ \A c \in DOMAIN charges : d[c] = charges[c]
       /\ \A c \in DOMAIN d : c \in DOMAIN charges \/ (c = n /\ d[c] = new)
  BY <1>1, <1>9, <1>10
<1>12. Persists
  BY <1>1, <1>10, <1>11 DEF Persists
<1>13. \E u \in Turns : /\ turn' = [turn EXCEPT ![h] = u] /\ u.text = t.text /\ TurnKnows(h)'
  <2>1. CASE charges' = Append(charges, new) /\ Become(h, [t EXCEPT !.at = "attach", !.charge = n])
    <3> DEFINE u == [t EXCEPT !.at = "attach", !.charge = n]
    <3>1. /\ u \in Turns /\ u.at = "attach" /\ u.charge = n /\ u.text = t.text
          /\ u.session = t.session /\ u.menu = t.menu
      BY <1>2, <1>9 DEF Turns, Going, Claimed
    <3>2. turn' = [turn EXCEPT ![h] = u]
      BY <2>1 DEF Become
    <3> HIDE DEF u
    <3>3. turn'[h] = u
      BY <3>2, RowsOfPix
    <3>4. n \in DOMAIN charges' /\ charges'[n].session = t.session
      BY <2>1, <1>7, <1>9
    <3>5. t.session # 0
      BY <1>1, <1>3 DEF TurnKnows
    <3>6. TurnKnows(h)'
      BY <3>1, <3>3, <3>4, <3>5, <1>1, <1>4 DEF TurnKnows, Claimed
    <3> QED
      BY <3>1, <3>2, <3>6
  <2>2. CASE Become(h, [t EXCEPT !.at = "degrade"])
    <3> DEFINE u == [t EXCEPT !.at = "degrade"]
    <3>1. /\ u \in Turns /\ u.at = "degrade" /\ u.text = t.text
          /\ u.session = t.session /\ u.menu = t.menu
      BY <1>2 DEF Turns, Going, Claimed
    <3>2. turn' = [turn EXCEPT ![h] = u]
      BY <2>2 DEF Become
    <3> HIDE DEF u
    <3>3. turn'[h] = u
      BY <3>2, RowsOfPix
    <3>4. t.session # 0
      BY <1>1, <1>3 DEF TurnKnows
    <3>5. TurnKnows(h)'
      BY <3>1, <3>3, <3>4, <1>1, <1>4 DEF TurnKnows, Claimed
    <3> QED
      BY <3>1, <3>2, <3>5
  <2> QED
    BY <1>1, <1>8, <2>1, <2>2
<1>14. /\ turn' \in [Handlers -> Turns] /\ TextsApart'
       /\ \A g \in Handlers : TurnKnows(g)'
  BY <1>1, <1>7, <1>10, <1>11, <1>12, <1>13, HandlersKnow DEF Claimed
<1>15. PixTypeOK'
  BY <1>1, <1>10, <1>11, <1>14 DEF PixInv, PixTypeOK
<1>16. OneChargePerText'
  <2> SUFFICES ASSUME NEW c \in DOMAIN d, NEW e \in DOMAIN d, d[c].text = d[e].text
               PROVE  c = e
    BY <1>10 DEF OneChargePerText
  <2>1. CASE c \in DOMAIN charges /\ e \in DOMAIN charges
    BY <2>1, <1>11 DEF PixInv, OneChargePerText
  <2> QED
    BY <2>1, <1>4, <1>7, <1>11
<1>17. ChargedAsOffered' /\ ChargesKnow'
  <2> SUFFICES ASSUME NEW c \in DOMAIN d
               PROVE  /\ d[c].amount = Choice(says'[d[c].text], sessions'[d[c].session].menu)
                      /\ d[c].session \in DOMAIN sessions' /\ d[c].text \in seen'
    BY <1>10 DEF ChargedAsOffered, ChargesKnow
  <2>1. CASE c \in DOMAIN charges
    BY <2>1, <1>10, <1>12, ChargesPersist
  <2>2. CASE d[c] = new
    BY <2>2, <1>1, <1>4, <1>7
  <2> QED
    BY <2>1, <2>2, <1>11
<1>18. SessionMatchesClaim' /\ SessionsKnow'
  BY <1>1, <1>10, <1>11 DEF PixInv, SessionMatchesClaim, SessionsKnow
<1>19. CodeIsExpected'
  <2>1. told \subseteq DOMAIN charges /\ \A c \in told : Expected(c)
    BY DEF PixInv, PixTypeOK, CodeIsExpected
  <2> QED
    BY <1>1, <2>1, <1>12, ChargesPersist DEF CodeIsExpected
<1>20. (\A s, u \in Open : s = u)'
  BY <1>1 DEF PixInv, Open
<1>21. NoticesKnow'
  <2> SUFFICES ASSUME NEW m \in Texts, notice[m] # "none"
               PROVE  \E c \in logged : d[c].text = m /\ d[c].state \in Terminal
    BY <1>1, <1>10 DEF NoticesKnow
  <2>1. PICK c \in logged : charges[c].text = m /\ charges[c].state \in Terminal
    BY DEF PixInv, NoticesKnow
  <2>2. c \in DOMAIN charges
    BY DEF PixInv, PixTypeOK
  <2> QED
    BY <2>1, <2>2, <1>11
<1> QED
  BY <1>14, <1>15, <1>16, <1>17, <1>18, <1>19, <1>20, <1>21 DEF PixInv

\* A step that changes one session, which was not deleted, and may expect one payment more.
LEMMA OneSessionKeeps ==
  ASSUME PixInv, NEW s \in DOMAIN sessions, NEW r \in Sessions,
         sessions' = [sessions EXCEPT ![s] = r], r.menu = sessions[s].menu,
         sessions[s].status # "DELETED", r.status # "AWAITING_SELECTION",
         claims' \in Seq([charge : Nat, amount : Nat]),
         \A p \in DOMAIN claims : p \in DOMAIN claims' /\ claims'[p] = claims[p],
         r.charge > 0 =>
           /\ r.charge \in DOMAIN charges /\ r.claim \in DOMAIN claims'
           /\ claims'[r.claim] = [charge |-> r.charge, amount |-> charges[r.charge].amount]
           /\ charges[r.charge].session = s
           /\ r.status \in Terminal => charges[r.charge].state = r.status,
         UNCHANGED <<says, due, seen, charges, told, notice, logged, ingested>>
  PROVE  /\ Persists /\ sessions' \in Seq(Sessions)
         /\ OneChargePerText' /\ ChargedAsOffered' /\ SessionMatchesClaim' /\ CodeIsExpected'
         /\ (\A x, y \in Open : x = y)' /\ ChargesKnow' /\ SessionsKnow' /\ NoticesKnow'
<1>1. sessions \in Seq(Sessions) /\ sessions \in [DOMAIN sessions -> Sessions]
  BY RowsOfPix, SequenceFacts
<1>2. sessions' \in [DOMAIN sessions -> Sessions] /\ sessions'[s] = r
      /\ \A x \in DOMAIN sessions : x # s => sessions'[x] = sessions[x]
  BY <1>1
<1>3. sessions' \in Seq(Sessions) /\ DOMAIN sessions' = DOMAIN sessions
  BY <1>1, <1>2, ChangedInPlace
<1>4. Persists
  BY <1>2, <1>3 DEF Persists
<1>5. OneChargePerText' /\ ChargedAsOffered' /\ ChargesKnow'
  BY <1>4, ChargesPersist DEF OneChargePerText, ChargedAsOffered, ChargesKnow
<1>6. CodeIsExpected'
  <2>1. told \subseteq DOMAIN charges /\ \A c \in told : Expected(c)
    BY DEF PixInv, PixTypeOK, CodeIsExpected
  <2> QED
    BY <2>1, <1>4, ChargesPersist DEF CodeIsExpected
<1>7. SessionMatchesClaim' /\ SessionsKnow'
  <2> SUFFICES ASSUME NEW x \in DOMAIN sessions', sessions'[x].charge > 0
               PROVE  /\ claims'[sessions'[x].claim]
                           = [charge |-> sessions'[x].charge,
                              amount |-> charges'[sessions'[x].charge].amount]
                      /\ charges'[sessions'[x].charge].session = x
                      /\ sessions'[x].status \in Terminal
                           => charges'[sessions'[x].charge].state = sessions'[x].status
                      /\ sessions'[x].charge \in DOMAIN charges' /\ sessions'[x].claim \in DOMAIN claims'
    BY DEF SessionMatchesClaim, SessionsKnow
  <2>1. CASE x = s
    BY <2>1, <1>2
  <2>2. CASE x # s
    BY <2>2, <1>2, <1>3 DEF PixInv, SessionMatchesClaim, SessionsKnow
  <2> QED
    BY <2>1, <2>2
<1>8. (\A x, y \in Open : x = y)'
  <2>1. \A x \in Open' : x \in Open
    BY <1>2, <1>3 DEF Open
  <2> QED
    BY <2>1 DEF PixInv
<1>9. NoticesKnow'
  BY DEF PixInv, NoticesKnow
<1> QED
  BY <1>3, <1>4, <1>5, <1>6, <1>7, <1>8, <1>9

\* attachCharge: the payment that is expected, and the session that points at both.
LEMMA AttachKeeps ==
  ASSUME PixTerms, PixInv, NEW h \in Handlers, AttachCharge(h)
  PROVE  PixInv'
<1> DEFINE t == turn[h]
           u == [t EXCEPT !.at = "tell"]
           claim == [charge |-> t.charge, amount |-> charges[t.charge].amount]
<1>1. /\ t.at = "attach" /\ Become(h, u)
      /\ UNCHANGED <<says, due, seen, charges, told, notice, logged, ingested>>
  BY DEF AttachCharge
<1>2. t \in Going /\ t.charge \in Nat
  BY <1>1, RowsOfPix, TurnForms DEF Going
<1>3. TurnKnows(h)
  BY DEF PixInv
<1>4. /\ t.session # 0 /\ t.session \in DOMAIN sessions /\ t.menu = sessions[t.session].menu
      /\ t.charge \in DOMAIN charges /\ charges[t.charge].session = t.session
      /\ t.text \in seen
  BY <1>1, <1>3 DEF TurnKnows, Claimed
<1>5. /\ u \in Turns /\ u.at = "tell" /\ u.text = t.text /\ u.session = t.session
      /\ u.menu = t.menu /\ u.charge = t.charge
  BY <1>2 DEF Turns, Going, Claimed
<1> HIDE DEF u
<1>11. PICK k : k = t.charge
  OBVIOUS
<1>6. turn' = [turn EXCEPT ![h] = u] /\ turn'[h] = u
  BY <1>1, RowsOfPix DEF Become
<1>7. /\ Persists /\ sessions' \in Seq(Sessions) /\ claims' \in Seq([charge : Nat, amount : Nat])
      /\ OneChargePerText' /\ ChargedAsOffered' /\ SessionMatchesClaim' /\ CodeIsExpected'
      /\ (\A x, y \in Open : x = y)' /\ ChargesKnow' /\ SessionsKnow' /\ NoticesKnow'
      /\ Expected(k)'
  <2>1. CASE sessions[t.session].status = "DELETED"
    <3>1. UNCHANGED <<claims, sessions>>
      BY <2>1 DEF AttachCharge
    <3>2. RowsStay
      BY <1>1, <3>1 DEF RowsStay
    <3>3. Expected(k)'
      BY <1>1, <1>4, <1>11, <2>1, <3>1 DEF Expected
    <3>4. NoticesKnow'
      BY <1>1 DEF PixInv, NoticesKnow
    <3> QED
      BY <1>1, <3>1, <3>2, <3>3, <3>4, RowsKeep, RowsPersist, RowsOfPix
  <2>2. CASE sessions[t.session].status # "DELETED"
    <3>1. PICK n : n = Len(claims) + 1
      OBVIOUS
    <3> DEFINE r == [sessions[t.session] EXCEPT !.status = "PENDING", !.charge = t.charge, !.claim = n]
    <3>2. /\ claims' = Append(claims, claim)
          /\ sessions' = [sessions EXCEPT ![t.session] = r]
      BY <2>2, <3>1, RowsOfPix, <1>4 DEF AttachCharge
    <3>3. claim \in [charge : Nat, amount : Nat]
      <4>1. charges[t.charge] \in ChargeRows
        BY <1>4, RowsOfPix
      <4> QED
        BY <4>1, <1>2 DEF ChargeRows
    <3> HIDE DEF claim
    <3>4. /\ claims' \in Seq([charge : Nat, amount : Nat])
          /\ DOMAIN claims' = DOMAIN claims \cup {n}
          /\ \A p \in DOMAIN claims : claims'[p] = claims[p]
          /\ claims'[n] = claim /\ n \in Nat
      BY <3>1, <3>2, <3>3, RowsOfPix, SequenceFacts
    <3>5. sessions[t.session] \in Sessions
      BY <1>4, RowsOfPix
    <3>6. /\ r \in Sessions /\ r.status = "PENDING" /\ r.charge = t.charge /\ r.claim = n
          /\ r.menu = sessions[t.session].menu
      BY <3>4, <3>5, <1>2 DEF Sessions, SessionStatuses
    <3> HIDE DEF r
    <3>7. Expected(k)'
      <4>1. claims'[n].charge = t.charge /\ n \in DOMAIN claims'
        BY <3>4 DEF claim
      <4> QED
        BY <4>1, <1>11 DEF Expected
    <3>8. claims'[n] = [charge |-> t.charge, amount |-> charges[t.charge].amount]
      BY <3>4 DEF claim
    <3>9. r.status \notin Terminal
      BY <3>6 DEF Terminal
    <3> QED
      BY <1>1, <1>4, <2>2, <3>2, <3>4, <3>6, <3>7, <3>8, <3>9, OneSessionKeeps
  <2> QED
    BY <2>1, <2>2
<1>8. TurnKnows(h)'
  <2>1. t.session \in DOMAIN sessions' /\ sessions'[t.session].menu = sessions[t.session].menu
    BY <1>4, <1>7 DEF Persists
  <2> QED
    BY <1>1, <1>4, <1>5, <1>6, <1>7, <1>11, <2>1 DEF TurnKnows, Claimed
<1>9. /\ turn' \in [Handlers -> Turns] /\ TextsApart'
      /\ \A g \in Handlers : TurnKnows(g)'
  BY <1>1, <1>5, <1>6, <1>7, <1>8, HandlersKnow DEF Claimed
<1>10. PixTypeOK'
  BY <1>1, <1>7, <1>9 DEF PixInv, PixTypeOK
<1> QED
  BY <1>7, <1>9, <1>10 DEF PixInv

LEMMA FailedKeeps ==
  ASSUME PixTerms, PixInv, NEW h \in Handlers, MarkFailed(h)
  PROVE  PixInv'
<1> DEFINE t == turn[h]
<1>1. /\ t.at = "degrade" /\ Become(h, AtRest)
      /\ UNCHANGED <<says, due, seen, claims, charges, told, notice, logged, ingested>>
      /\ sessions' = IF sessions[t.session].status = "DELETED" THEN sessions
                     ELSE [sessions EXCEPT ![t.session].status = "FAILED"]
  BY DEF MarkFailed
<1>2. TurnKnows(h)
  BY DEF PixInv
<1>3. t.session \in DOMAIN sessions
  BY <1>1, <1>2 DEF TurnKnows
<1>4. /\ Persists /\ sessions' \in Seq(Sessions)
      /\ OneChargePerText' /\ ChargedAsOffered' /\ SessionMatchesClaim' /\ CodeIsExpected'
      /\ (\A x, y \in Open : x = y)' /\ ChargesKnow' /\ SessionsKnow' /\ NoticesKnow'
  <2>1. CASE sessions[t.session].status = "DELETED"
    <3>1. RowsStay
      BY <1>1, <2>1 DEF RowsStay
    <3>2. NoticesKnow'
      BY <1>1 DEF PixInv, NoticesKnow
    <3> QED
      BY <1>1, <2>1, <3>1, <3>2, RowsKeep, RowsPersist, RowsOfPix
  <2>2. CASE sessions[t.session].status # "DELETED"
    <3> DEFINE r == [sessions[t.session] EXCEPT !.status = "FAILED"]
    <3>1. sessions' = [sessions EXCEPT ![t.session] = r]
      BY <1>1, <1>3, <2>2, RowsOfPix
    <3>2. sessions[t.session] \in Sessions
      BY <1>3, RowsOfPix
    <3>3. /\ r \in Sessions /\ r.status = "FAILED" /\ r.menu = sessions[t.session].menu
          /\ r.charge = sessions[t.session].charge /\ r.claim = sessions[t.session].claim
      BY <3>2 DEF Sessions, SessionStatuses
    <3> HIDE DEF r
    <3>4. r.status \notin Terminal
      BY <3>3 DEF Terminal
    <3>5. r.charge > 0 =>
           /\ r.charge \in DOMAIN charges /\ r.claim \in DOMAIN claims
           /\ claims[r.claim] = [charge |-> r.charge, amount |-> charges[r.charge].amount]
           /\ charges[r.charge].session = t.session
      BY <1>3, <3>3 DEF PixInv, SessionMatchesClaim, SessionsKnow
    <3>6. claims' \in Seq([charge : Nat, amount : Nat])
      BY <1>1, RowsOfPix
    <3> QED
      BY <1>1, <1>3, <2>2, <3>1, <3>3, <3>4, <3>5, <3>6, OneSessionKeeps
  <2> QED
    BY <2>1, <2>2
<1>5. /\ turn' \in [Handlers -> Turns] /\ TextsApart'
      /\ \A g \in Handlers : TurnKnows(g)'
  BY <1>1, <1>4, RestsKnow
<1>6. PixTypeOK'
  BY <1>1, <1>4, <1>5 DEF PixInv, PixTypeOK
<1> QED
  BY <1>4, <1>5, <1>6 DEF PixInv

\* What the provider does leaves the handlers what they know.
LEMMA HandlersWait ==
  ASSUME PixInv, Persists, turn' = turn, \A c \in DOMAIN charges' : c \in DOMAIN charges
  PROVE  /\ turn' \in [Handlers -> Turns] /\ TextsApart'
         /\ \A g \in Handlers : TurnKnows(g)'
<1>1. turn' \in [Handlers -> Turns] /\ TextsApart'
  BY RowsOfPix DEF PixInv, TextsApart
<1>2. ASSUME NEW g \in Handlers
      PROVE  TurnKnows(g)'
  <2>1. PixTypeOK /\ ChargesKnow /\ TurnKnows(g) /\ turn'[g] = turn[g]
    BY DEF PixInv
  <2>2. turn[g].at \in {"open", "create"} => \A c \in DOMAIN charges' : charges'[c].text # turn[g].text
    BY <2>1 DEF TurnKnows, Persists
  <2> QED
    BY <2>1, <2>2, TurnStays
<1> QED
  BY <1>1, <1>2

\* A charge ends once, and only one that is open.
LEMMA SettleKeeps ==
  ASSUME PixTerms, PixInv, NEW c \in DOMAIN charges, NEW state \in Terminal, SettleCharge(c, state)
  PROVE  PixInv'
<1>1. /\ charges[c].state = "OPEN" /\ charges' = [charges EXCEPT ![c].state = state]
      /\ UNCHANGED <<says, due, seen, sessions, claims, told, turn, notice, logged, ingested>>
  BY DEF SettleCharge
<1> DEFINE new == [charges[c] EXCEPT !.state = state]
<1>2. charges[c] \in ChargeRows /\ charges \in Seq(ChargeRows) /\ charges \in [DOMAIN charges -> ChargeRows]
  BY RowsOfPix, SequenceFacts
<1>3. /\ new \in ChargeRows /\ new.text = charges[c].text /\ new.amount = charges[c].amount
      /\ new.session = charges[c].session /\ new.state = state
  BY <1>2 DEF ChargeRows
<1>4. charges' = [charges EXCEPT ![c] = new]
  BY <1>1, <1>2
<1> HIDE DEF new
<1>5. charges' \in [DOMAIN charges -> ChargeRows] /\ charges'[c] = new
      /\ \A d \in DOMAIN charges : d # c => charges'[d] = charges[d]
  BY <1>2, <1>3, <1>4
<1>6. charges' \in Seq(ChargeRows) /\ DOMAIN charges' = DOMAIN charges
  BY <1>2, <1>5, ChangedInPlace
<1>7. ASSUME NEW d \in DOMAIN charges
      PROVE  /\ charges'[d].text = charges[d].text /\ charges'[d].amount = charges[d].amount
             /\ charges'[d].session = charges[d].session
             /\ charges[d].state # "OPEN" => charges'[d].state = charges[d].state
             /\ d # c => charges'[d].state = charges[d].state
  BY <1>1, <1>3, <1>5
<1>8. Persists
  BY <1>1, <1>6, <1>7 DEF Persists
<1>9. /\ turn' \in [Handlers -> Turns] /\ TextsApart'
      /\ \A g \in Handlers : TurnKnows(g)'
  BY <1>1, <1>6, <1>8, HandlersWait
<1>10. PixTypeOK'
  BY <1>1, <1>6, <1>9 DEF PixInv, PixTypeOK
<1>11. OneChargePerText' /\ ChargedAsOffered' /\ ChargesKnow'
  BY <1>6, <1>8, ChargesPersist DEF OneChargePerText, ChargedAsOffered, ChargesKnow
<1>12. CodeIsExpected'
  <2>1. told \subseteq DOMAIN charges /\ \A d \in told : Expected(d)
    BY DEF PixInv, PixTypeOK, CodeIsExpected
  <2> QED
    BY <1>1, <2>1, <1>8, ChargesPersist DEF CodeIsExpected
<1>13. SessionMatchesClaim' /\ SessionsKnow'
  <2> SUFFICES ASSUME NEW s \in DOMAIN sessions', sessions'[s].charge > 0
               PROVE  /\ claims'[sessions'[s].claim]
                           = [charge |-> sessions'[s].charge,
                              amount |-> charges'[sessions'[s].charge].amount]
                      /\ charges'[sessions'[s].charge].session = s
                      /\ sessions'[s].status \in Terminal
                           => charges'[sessions'[s].charge].state = sessions'[s].status
                      /\ sessions'[s].charge \in DOMAIN charges' /\ sessions'[s].claim \in DOMAIN claims'
    BY DEF SessionMatchesClaim, SessionsKnow
  <2>1. /\ sessions[s].charge \in DOMAIN charges /\ sessions[s].claim \in DOMAIN claims
        /\ claims[sessions[s].claim]
              = [charge |-> sessions[s].charge, amount |-> charges[sessions[s].charge].amount]
        /\ charges[sessions[s].charge].session = s
        /\ sessions[s].status \in Terminal => charges[sessions[s].charge].state = sessions[s].status
    BY <1>1 DEF PixInv, SessionMatchesClaim, SessionsKnow
  <2> QED
    BY <1>1, <1>6, <1>7, <2>1 DEF Terminal
<1>14. (\A s, u \in Open : s = u)'
  BY <1>1 DEF PixInv, Open
<1>15. NoticesKnow'
  <2> SUFFICES ASSUME NEW m \in Texts, notice[m] # "none"
               PROVE  \E d \in logged' : charges'[d].text = m /\ charges'[d].state \in Terminal
    BY <1>1, Zenon DEF NoticesKnow
  <2>1. PICK d \in logged : charges[d].text = m /\ charges[d].state \in Terminal
    BY DEF PixInv, NoticesKnow
  <2> QED
    <3>1. d \in DOMAIN charges
      BY <2>1 DEF PixInv, PixTypeOK
    <3>2. charges[d].state # "OPEN"
      BY <2>1 DEF Terminal
    <3> QED
      BY <1>1, <1>7, <2>1, <3>1, <3>2
<1> QED
  BY <1>9, <1>10, <1>11, <1>12, <1>13, <1>14, <1>15 DEF PixInv

\* The charge that a webhook in flight is of has ended, and is written down.
LEMMA NoticeIsOf ==
  ASSUME PixInv, NEW c \in DOMAIN charges, notice[charges[c].text] # "none"
  PROVE  c \in logged /\ charges[c].state \in Terminal
<1>1. charges[c].text \in Texts
  BY RowsOfPix DEF ChargeRows
<1>2. PICK d \in logged : charges[d].text = charges[c].text /\ charges[d].state \in Terminal
  BY <1>1 DEF PixInv, NoticesKnow
<1>3. d = c
  BY <1>2 DEF PixInv, PixTypeOK, OneChargePerText
<1> QED
  BY <1>2, <1>3

\* A webhook that is recorded, taken in or dropped, and the calendar.
LEMMA NoticesKeep ==
  ASSUME PixTerms, PixInv,
         \/ \E c \in DOMAIN charges : RecordEvent(c)
         \/ \E c \in DOMAIN charges : IngestCredit(c)
         \/ \E c \in DOMAIN charges : DropEvent(c)
         \/ \E d \in 0..MaxDue : MoveDue(d)
         \/ UNCHANGED pixVars
  PROVE  PixInv'
<1>1. RowsStay /\ turn' = turn /\ seen' = seen /\ told' = told
  BY DEF RecordEvent, IngestCredit, DropEvent, MoveDue, pixVars, RowsStay
<1>2. /\ PixTypeOK /\ NoticesKnow /\ notice \in [Texts -> {"none", "reflect", "ingest"}]
      /\ ingested \subseteq logged /\ logged \subseteq DOMAIN charges /\ due \in 0..MaxDue
  BY DEF PixInv, PixTypeOK
<1>3. /\ due' \in 0..MaxDue /\ notice' \in [Texts -> {"none", "reflect", "ingest"}]
      /\ logged \subseteq logged' /\ logged' \subseteq DOMAIN charges /\ ingested' \subseteq logged'
      /\ NoticesKnow'
  <2>1. ASSUME NEW c \in DOMAIN charges, NEW n \in {"none", "reflect", "ingest"}, Noticed(c, n),
               n # "none" => c \in logged' /\ charges[c].state \in Terminal,
               logged \subseteq logged'
        PROVE  notice' \in [Texts -> {"none", "reflect", "ingest"}] /\ NoticesKnow'
    <3>1. notice' = [notice EXCEPT ![charges[c].text] = n]
      BY <2>1 DEF Noticed
    <3>2. ASSUME NEW m \in Texts, notice'[m] # "none"
          PROVE  \E d \in logged' : charges'[d].text = m /\ charges'[d].state \in Terminal
      <4>1. CASE m = charges[c].text
        BY <4>1, <3>1, <3>2, <2>1, <1>1, <1>2 DEF RowsStay
      <4>2. CASE m # charges[c].text
        BY <4>2, <3>1, <3>2, <2>1, <1>1, <1>2 DEF RowsStay, NoticesKnow
      <4> QED
        BY <4>1, <4>2
    <3> QED
      BY <3>1, <3>2, <1>2 DEF NoticesKnow
  <2>2. CASE \E c \in DOMAIN charges : RecordEvent(c)
    <3>1. PICK c \in DOMAIN charges : RecordEvent(c)
      BY <2>2
    <3>2. /\ logged' = logged \cup {c} /\ charges[c].state \in Terminal /\ Noticed(c, "reflect")
          /\ ingested' = ingested /\ due' = due
      BY <3>1 DEF RecordEvent
    <3> QED
      BY <3>2, <2>1, <1>2
  <2>3. CASE \E c \in DOMAIN charges : IngestCredit(c)
    <3>1. PICK c \in DOMAIN charges : IngestCredit(c)
      BY <2>3
    <3>2. /\ logged' = logged /\ Noticed(c, "none") /\ notice[charges[c].text] = "ingest"
          /\ ingested' = ingested \cup {c} /\ due' = due
      BY <3>1 DEF IngestCredit
    <3>3. c \in logged
      BY <3>2, NoticeIsOf
    <3> QED
      BY <3>2, <3>3, <2>1, <1>2
  <2>4. CASE \E c \in DOMAIN charges : DropEvent(c)
    <3>1. PICK c \in DOMAIN charges : DropEvent(c)
      BY <2>4
    <3>2. logged' = logged /\ Noticed(c, "none") /\ ingested' = ingested /\ due' = due
      BY <3>1 DEF DropEvent
    <3> QED
      BY <3>2, <2>1, <1>2
  <2>5. CASE (\E d \in 0..MaxDue : MoveDue(d)) \/ UNCHANGED pixVars
    <3>1. UNCHANGED <<notice, logged, ingested, charges>> /\ due' \in 0..MaxDue
      BY <2>5, <1>2 DEF MoveDue, pixVars
    <3> QED
      BY <3>1, <1>2 DEF NoticesKnow
  <2> QED
    BY <2>2, <2>3, <2>4, <2>5
<1>4. Persists
  BY <1>1, <1>3, RowsPersist
<1>5. /\ turn' \in [Handlers -> Turns] /\ TextsApart'
      /\ \A g \in Handlers : TurnKnows(g)'
  BY <1>1, <1>4, HandlersWait DEF RowsStay
<1>6. PixTypeOK'
  BY <1>1, <1>2, <1>3, <1>5 DEF PixTypeOK, RowsStay
<1> QED
  BY <1>1, <1>3, <1>5, <1>6, RowsKeep DEF PixInv

\* markStatusByMerchantChargeId: the session says of its charge what the provider said.
LEMMA ReflectKeeps ==
  ASSUME PixTerms, PixInv, NEW c \in DOMAIN charges, ReflectStatus(c)
  PROVE  PixInv'
<1> DEFINE now(s) == IF sessions[s].charge = c /\ sessions[s].status = "PENDING"
                       THEN [sessions[s] EXCEPT !.status = charges[c].state] ELSE sessions[s]
<1>1. /\ notice[charges[c].text] = "reflect" /\ sessions' = [s \in DOMAIN sessions |-> now(s)]
      /\ UNCHANGED <<says, due, seen, claims, charges, told, turn, logged, ingested>>
      /\ Noticed(c, IF charges[c].state = "PAID" THEN "ingest" ELSE "none")
  BY DEF ReflectStatus
<1>2. c \in logged /\ charges[c].state \in Terminal
  BY <1>1, NoticeIsOf
<1>3. ASSUME NEW s \in DOMAIN sessions
      PROVE  /\ now(s) \in Sessions /\ now(s).menu = sessions[s].menu
             /\ now(s).charge = sessions[s].charge /\ now(s).claim = sessions[s].claim
             /\ \/ now(s).status = sessions[s].status
                \/ /\ sessions[s].charge = c /\ now(s).status = charges[c].state
                   /\ sessions[s].status = "PENDING"
  <2>1. sessions[s] \in Sessions
    BY RowsOfPix
  <2> QED
    BY <2>1, <1>2 DEF Sessions, SessionStatuses
<1> HIDE DEF now
<1>4. sessions' \in [DOMAIN sessions -> Sessions] /\ \A s \in DOMAIN sessions : sessions'[s] = now(s)
  BY <1>1, <1>3
<1>5. sessions' \in Seq(Sessions) /\ DOMAIN sessions' = DOMAIN sessions
  BY <1>4, RowsOfPix, ChangedInPlace
<1>6. Persists
  BY <1>1, <1>3, <1>4, <1>5 DEF Persists
<1>7. /\ turn' \in [Handlers -> Turns] /\ TextsApart'
      /\ \A g \in Handlers : TurnKnows(g)'
  BY <1>1, <1>6, HandlersWait
<1>8. notice' \in [Texts -> {"none", "reflect", "ingest"}] /\ NoticesKnow'
  <2>1. notice \in [Texts -> {"none", "reflect", "ingest"}] /\ NoticesKnow
    BY DEF PixInv, PixTypeOK
  <2>2. PICK n \in {"none", "ingest"} : notice' = [notice EXCEPT ![charges[c].text] = n]
    BY <1>1 DEF Noticed
  <2> QED
    BY <2>1, <2>2, <1>1, <1>2 DEF NoticesKnow
<1>9. PixTypeOK'
  BY <1>1, <1>5, <1>7, <1>8 DEF PixInv, PixTypeOK
<1>10. OneChargePerText' /\ ChargedAsOffered' /\ ChargesKnow'
  BY <1>1, <1>6, ChargesPersist DEF OneChargePerText, ChargedAsOffered, ChargesKnow
<1>11. CodeIsExpected'
  <2>1. told \subseteq DOMAIN charges /\ \A d \in told : Expected(d)
    BY DEF PixInv, PixTypeOK, CodeIsExpected
  <2> QED
    BY <1>1, <2>1, <1>6, ChargesPersist DEF CodeIsExpected
<1>12. SessionMatchesClaim' /\ SessionsKnow'
  <2> SUFFICES ASSUME NEW s \in DOMAIN sessions, now(s).charge > 0
               PROVE  /\ claims[now(s).claim]
                           = [charge |-> now(s).charge, amount |-> charges[now(s).charge].amount]
                      /\ charges[now(s).charge].session = s
                      /\ now(s).status \in Terminal => charges[now(s).charge].state = now(s).status
                      /\ now(s).charge \in DOMAIN charges /\ now(s).claim \in DOMAIN claims
    BY <1>1, <1>4, <1>5 DEF SessionMatchesClaim, SessionsKnow
  <2>1. /\ sessions[s].charge \in DOMAIN charges /\ sessions[s].claim \in DOMAIN claims
        /\ claims[sessions[s].claim]
              = [charge |-> sessions[s].charge, amount |-> charges[sessions[s].charge].amount]
        /\ charges[sessions[s].charge].session = s
        /\ sessions[s].status \in Terminal => charges[sessions[s].charge].state = sessions[s].status
    BY <1>3 DEF PixInv, SessionMatchesClaim, SessionsKnow
  <2> QED
    BY <1>3, <2>1
<1>13. (\A s, u \in Open : s = u)'
  <2>1. \A s \in Open' : s \in Open
    BY <1>2, <1>3, <1>4, <1>5 DEF Open, Terminal
  <2> QED
    BY <2>1 DEF PixInv
<1> QED
  BY <1>7, <1>8, <1>9, <1>10, <1>11, <1>12, <1>13 DEF PixInv

LEMMA PixStart ==
  ASSUME PixTerms, PixInit
  PROVE  PixInv
<1>1. /\ says \in [Texts -> {"pay", "one", "two", "amount"}] /\ due \in 0..MaxDue
      /\ seen = {} /\ told = {} /\ logged = {} /\ ingested = {}
      /\ sessions = <<>> /\ claims = <<>> /\ charges = <<>>
      /\ turn = [h \in Handlers |-> AtRest] /\ notice = [m \in Texts |-> "none"]
  BY DEF PixInit, PixTerms
<1>2. DOMAIN sessions = {} /\ DOMAIN charges = {} /\ DOMAIN claims = {}
  BY <1>1
<1>3. \A h \in Handlers : turn[h].at = "idle" /\ turn[h] \in Turns
  BY <1>1 DEF AtRest, Turns
<1>4. PixTypeOK
  <2>1. sessions \in Seq(Sessions) /\ charges \in Seq(ChargeRows) /\ claims \in Seq([charge : Nat, amount : Nat])
    BY <1>1, EmptySeq
  <2>2. turn \in [Handlers -> Turns]
    BY <1>1, <1>3
  <2> QED
    BY <1>1, <2>1, <2>2 DEF PixTypeOK
<1>5. OneChargePerText /\ ChargedAsOffered /\ SessionMatchesClaim /\ CodeIsExpected
      /\ (\A s, t \in Open : s = t) /\ ChargesKnow /\ SessionsKnow
  BY <1>1, <1>2 DEF OneChargePerText, ChargedAsOffered, SessionMatchesClaim, CodeIsExpected, Open,
                    ChargesKnow, SessionsKnow
<1>6. TextsApart /\ NoticesKnow /\ \A h \in Handlers : TurnKnows(h)
  BY <1>1, <1>3 DEF TextsApart, NoticesKnow, TurnKnows, Claimed
<1> QED
  BY <1>4, <1>5, <1>6 DEF PixInv

\* Two that are one are at most one.
LEMMA OneIsOne ==
  ASSUME PixInv
  PROVE  OneOpenSession
<1>1. CASE Open = {}
  BY <1>1, FS_EmptySet DEF OneOpenSession
<1>2. CASE Open # {}
  <2>1. PICK s : s \in Open
    BY <1>2
  <2>2. Open = {s}
    BY <2>1 DEF PixInv
  <2>3. Cardinality(Open) = 1
    BY <2>2, FS_Singleton
  <2> QED
    BY <2>3 DEF OneOpenSession
<1> QED
  BY <1>1, <1>2

\* However many texts are handled at once, delivered twice or dropped, and whatever the
\* provider answers and when: the dialogue is one, a text makes one charge, for the amount of
\* the menu it answered, the session and the payment that is expected agree on it, and a code
\* that reached the client is expected (PixChargesSafe).
THEOREM PixAlwaysSafe ==
  ASSUME PixTerms
  PROVE  PixSpec => []PixChargesSafe
<1>1. PixInit => PixInv
  BY PixStart
<1>2. PixInv /\ [PixNext]_pixVars => PixInv'
  BY PixActions, TextsKeep, OpenKeeps, CreateKeeps, AttachKeeps, FailedKeeps, SettleKeeps,
     NoticesKeep, ReflectKeeps
<1>3. PixInv => PixChargesSafe
  BY OneIsOne DEF PixInv, PixChargesSafe
<1> QED
  BY <1>1, <1>2, <1>3, PTL DEF PixSpec

-----------------------------------------------------------------------------
(* TelegramBots: the inductive invariant is BotsInv.                        *)

LEMMA IdleType ==
  ASSUME BotsTerms
  PROVE  NoErrand \in Errands /\ NoChannel.zone \in BotZones /\ NoChannel.hook = 0 /\ NoChannel.token = 0
<1>1. /\ (CHOOSE z \in BotZones : TRUE) \in BotZones /\ (CHOOSE b \in Bots : TRUE) \in Bots
      /\ (CHOOSE c \in Chats : TRUE) \in Chats
  BY DEF BotsTerms
<1>2. NoChannel.zone \in BotZones /\ NoChannel.hook = 0 /\ NoChannel.token = 0
  BY <1>1 DEF NoChannel
<1> HIDE DEF NoChannel
<1>3. 0 \in 0..MaxHooks /\ 0 \in 0..MaxTokens
  BY DEF BotsTerms
<1> QED
  BY <1>1, <1>2, <1>3 DEF NoErrand, Errands

Channels == [hook : 0..MaxHooks, zone : BotZones, token : 0..MaxTokens, marked : BOOLEAN]
Links == [there : BOOLEAN, phone : Phones \cup {NoPhone}, blocked : BOOLEAN]

LEMMA BlankRows ==
  ASSUME BotsTerms
  PROVE  NoChannel \in Channels /\ NoLink \in Links
<1>1. (CHOOSE z \in BotZones : TRUE) \in BotZones /\ 0 \in 0..MaxHooks /\ 0 \in 0..MaxTokens
  BY DEF BotsTerms
<1> QED
  BY <1>1 DEF NoChannel, NoLink, Channels, Links

LEMMA BotsTypes ==
  BotsTypeOK <=>
    /\ channel \in [Bots -> Channels] /\ link \in [Bots -> [Chats -> Links]]
    /\ webhook \in [Bots -> 0..Elsewhere] /\ valid \in [Bots -> 1..MaxTokens]
    /\ gone \in [Bots -> SUBSET Chats] /\ upset \in [Bots -> BOOLEAN]
    /\ errand \in [Calls -> Errands] /\ hooks \in 0..MaxHooks
    /\ last \in [Bots -> [Phones -> Chats \cup {NoPhone}]]
BY DEF BotsTypeOK, Channels, Links

Working == {"create", "hook", "undo", "mark", "unhook", "erase", "replace", "info"}
Talking == {"open", "contact", "link", "send", "block"}

\* An operation on a bot is at one of its steps, and a text at one of its own.
LEMMA WhoManages ==
  ASSUME BotsTypeOK, NEW h \in Calls, ErrandKnows(h)
  PROVE  /\ errand[h].at \in Working =>
              /\ Managing(h, errand[h].bot)
              /\ errand[h].op \in {"register", "remove", "rotate", "verify"}
         /\ errand[h].at \in Talking => \A b \in Bots : ~ Managing(h, b)
         /\ errand[h].at = "idle" => \A b \in Bots : ~ Managing(h, b)
         /\ \A b \in Bots : Managing(h, b) => b = errand[h].bot /\ errand[h].at \in Working
<1>1. errand[h] \in Errands
  BY DEF BotsTypeOK
<1>2. /\ errand[h].op \in {"none", "register", "remove", "rotate", "verify", "update", "send"}
      /\ errand[h].at \in Steps[errand[h].op]
  BY <1>1 DEF Errands, ErrandKnows
<1> QED
  BY <1>2 DEF Steps, Working, Talking, Managing

\* The actions, one by one.
LEMMA BotsActions ==
  ASSUME BotsNext
  PROVE  \/ \E h \in Calls, b \in Bots, z \in BotZones : Register(h, b, z)
         \/ \E h \in Calls, b \in Bots : Remove(h, b)
         \/ \E h \in Calls, b \in Bots : Rotate(h, b)
         \/ \E h \in Calls, b \in Bots : Verify(h, b)
         \/ \E h \in Calls, b \in Bots, c \in Chats, p \in Phones \cup {NoPhone} :
              Update(h, b, c, p)
         \/ \E h \in Calls, b \in Bots, p \in Phones : Send(h, b, p)
         \/ \E h \in Calls : Create(h)
         \/ \E h \in Calls : SetWebhook(h)
         \/ \E h \in Calls : Undo(h)
         \/ \E h \in Calls : MarkRegistered(h)
         \/ \E h \in Calls : DeleteWebhook(h)
         \/ \E h \in Calls : EraseChannel(h)
         \/ \E h \in Calls : ReplaceToken(h)
         \/ \E h \in Calls : WebhookInfo(h)
         \/ \E h \in Calls : OpenChat(h)
         \/ \E h \in Calls : SeeHolders(h)
         \/ \E h \in Calls : LinkPhone(h)
         \/ \E h \in Calls : Deliver(h)
         \/ \E h \in Calls : MarkBlocked(h)
         \/ \E b \in Bots : Revoke(b)
         \/ \E b \in Bots : Hijack(b)
         \/ \E b \in Bots, c \in Chats : BlockBot(b, c)
         \/ Restart
BY DEF BotsNext

\* An errand of any operation that begins.
LEMMA ManageStarts ==
  ASSUME BotsTerms, BotsTypeOK, BotsNext, NEW h \in Calls, NEW b \in Bots,
         \/ \E z \in BotZones : Register(h, b, z)
         \/ Remove(h, b)
         \/ Rotate(h, b)
         \/ Verify(h, b)
  PROVE  \E e \in Errands :
           /\ Manage(h, b, e)
           /\ e.op \in {"register", "remove", "rotate", "verify"} /\ e.at \in Steps[e.op]
           /\ e.at # "idle" /\ e.at \notin {"mark", "replace", "undo", "erase"}
           /\ e.op = "register" => e.at = "create"
           /\ e.at # "create" => e.hook = channel[b].hook /\ e.hook # 0
<1>1. NoErrand \in Errands /\ NoChannel.zone \in BotZones /\ NoChannel.hook = 0 /\ NoChannel.token = 0
  BY IdleType
<1>2. /\ channel[b] \in [hook : 0..MaxHooks, zone : BotZones, token : 0..MaxTokens,
                         marked : BOOLEAN]
      /\ valid[b] \in 1..MaxTokens
  BY DEF BotsTypeOK
<1>3. valid[b] \in 0..MaxTokens
  BY <1>2
<1> HIDE DEF NoErrand
<1>4. CASE \E z \in BotZones : Register(h, b, z)
  <2>1. PICK z \in BotZones : Register(h, b, z)
    BY <1>4
  <2> DEFINE e == [NoErrand EXCEPT !.at = "create", !.op = "register", !.zone = z,
                               !.token = valid[b]]
  <2>2. e \in Errands /\ e.at = "create" /\ e.op = "register"
    BY <1>1, <1>3 DEF Errands
  <2>3. Manage(h, b, e)
    BY <2>1 DEF Register
  <2>4. e.at \in Steps[e.op]
    BY <2>2 DEF Steps
  <2> HIDE DEF e
  <2> QED
    BY <2>2, <2>3, <2>4
<1>5. ASSUME NEW op \in {"remove", "rotate", "verify"}, NEW at \in {"unhook", "hook", "info"}
      PROVE  /\ Credentials(b, op, at) \in Errands
             /\ Credentials(b, op, at).at = at /\ Credentials(b, op, at).op = op
             /\ Credentials(b, op, at).hook = channel[b].hook
  BY <1>1, <1>2 DEF Errands, Credentials
<1> HIDE DEF Credentials
<1>6. CASE Remove(h, b)
  <2> DEFINE e == Credentials(b, "remove", "unhook")
  <2>1. /\ e \in Errands /\ e.at = "unhook" /\ e.op = "remove" /\ e.hook = channel[b].hook
    BY <1>5
  <2>2. Manage(h, b, e) /\ channel[b].hook # 0
    BY <1>6 DEF Remove
  <2>3. e.at \in Steps[e.op]
    BY <2>1 DEF Steps
  <2> HIDE DEF e
  <2> QED
    BY <2>1, <2>2, <2>3
<1>7. CASE Rotate(h, b)
  <2> DEFINE e == [Credentials(b, "rotate", "hook") EXCEPT !.token = valid[b]]
  <2>1. /\ e \in Errands /\ e.at = "hook" /\ e.op = "rotate" /\ e.hook = channel[b].hook
    BY <1>5, <1>3 DEF Errands
  <2>2. Manage(h, b, e) /\ channel[b].hook # 0
    BY <1>7 DEF Rotate
  <2>3. e.at \in Steps[e.op]
    BY <2>1 DEF Steps
  <2> HIDE DEF e
  <2> QED
    BY <2>1, <2>2, <2>3
<1>8. CASE Verify(h, b)
  <2> DEFINE e == Credentials(b, "verify", "info")
  <2>1. /\ e \in Errands /\ e.at = "info" /\ e.op = "verify" /\ e.hook = channel[b].hook
    BY <1>5
  <2>2. Manage(h, b, e) /\ channel[b].hook # 0
    BY <1>8 DEF Verify
  <2>3. e.at \in Steps[e.op]
    BY <2>1 DEF Steps
  <2> HIDE DEF e
  <2> QED
    BY <2>1, <2>2, <2>3
<1> QED
  BY <1>4, <1>6, <1>7, <1>8

\* What a call that goes on does, of whatever operation: nothing to the others, and
\* nothing to the bots it is not of.
GoesOn(h) ==
  /\ errand[h].at # "idle"
  /\ \E e \in Errands :
       /\ errand' = [errand EXCEPT ![h] = e]
       /\ e = NoErrand \/ /\ e.op = errand[h].op /\ e.bot = errand[h].bot /\ e.alone = errand[h].alone
                          /\ e.at \in Steps[e.op] \ {"idle", "create"}
  /\ \A b \in Bots : b # errand[h].bot =>
       channel'[b] = channel[b] /\ webhook'[b] = webhook[b] /\ upset'[b] = upset[b]
  /\ errand[h].at \in Talking => channel' = channel /\ webhook' = webhook /\ upset' = upset

LEMMA EndsErrand ==
  ASSUME BotsTerms, BotsTypeOK, NEW h \in Calls, End(h)
  PROVE  errand' = [errand EXCEPT ![h] = NoErrand] /\ NoErrand \in Errands
BY IdleType DEF End

LEMMA NextStep ==
  ASSUME BotsTypeOK, NEW h \in Calls, ErrandKnows(h), NEW at \in Working \cup Talking, To(h, at)
  PROVE  \E e \in Errands : /\ errand' = [errand EXCEPT ![h] = e]
                            /\ e = [errand[h] EXCEPT !.at = at]
                            /\ e.op = errand[h].op /\ e.bot = errand[h].bot
                            /\ e.alone = errand[h].alone /\ e.at = at /\ e.hook = errand[h].hook
<1>1. errand[h] \in Errands /\ errand \in [Calls -> Errands]
  BY DEF BotsTypeOK
<1> DEFINE e == [errand[h] EXCEPT !.at = at]
<1>2. e \in Errands
  BY <1>1 DEF Errands, Working, Talking
<1>3. errand' = [errand EXCEPT ![h] = e]
  BY <1>1 DEF To
<1>4. /\ e.op = errand[h].op /\ e.bot = errand[h].bot
      /\ e.alone = errand[h].alone /\ e.at = at /\ e.hook = errand[h].hook
  BY <1>1 DEF Errands
<1> HIDE DEF e
<1> QED
  BY <1>2, <1>3, <1>4 DEF e

\* The steps of a call in flight.
InFlight(h) ==
  \/ Create(h) \/ SetWebhook(h) \/ Undo(h) \/ MarkRegistered(h)
  \/ DeleteWebhook(h) \/ EraseChannel(h) \/ ReplaceToken(h) \/ WebhookInfo(h)
  \/ OpenChat(h) \/ SeeHolders(h) \/ LinkPhone(h) \/ Deliver(h) \/ MarkBlocked(h)

\* Each of them is what a call that goes on does.
LEMMA CallsGoOn ==
  ASSUME BotsTerms, BotsTypeOK, NEW h \in Calls, ErrandKnows(h), InFlight(h)
  PROVE  GoesOn(h)
<1> DEFINE e == errand[h]
<1>1. /\ e \in Errands /\ errand \in [Calls -> Errands] /\ e.bot \in Bots
      /\ channel \in [Bots -> Channels] /\ webhook \in [Bots -> 0..Elsewhere]
      /\ upset \in [Bots -> BOOLEAN]
      /\ e.op \in {"none", "register", "remove", "rotate", "verify", "update", "send"}
      /\ e.at \in Steps[e.op]
  BY BotsTypes DEF Errands, ErrandKnows
<1>2. NoErrand \in Errands
  BY IdleType
<1> HIDE DEF NoErrand
<1>4. CASE Create(h)
  <2>1. e.at = "create" /\ webhook' = webhook /\ upset' = upset
    BY <1>4 DEF Create
  <2>2. CASE End(h) /\ UNCHANGED <<channel, hooks>>
    BY <2>1, <2>2, <1>2 DEF GoesOn, End, Talking
  <2>3. CASE ~ (End(h) /\ UNCHANGED <<channel, hooks>>)
    <3>1. PICK k : k = hooks'
      OBVIOUS
    <3>2. /\ k = hooks + 1 /\ hooks < MaxHooks
          /\ channel' = [channel EXCEPT ![e.bot] =
                           [hook |-> k, zone |-> e.zone, token |-> e.token, marked |-> FALSE]]
          /\ errand' = [errand EXCEPT ![h].at = "hook", ![h].hook = k]
      BY <1>4, <2>3, <3>1 DEF Create
    <3> DEFINE f == [e EXCEPT !.at = "hook", !.hook = k]
    <3>3. k \in 0..MaxHooks
      BY <3>2 DEF BotsTerms, BotsTypeOK
    <3>4. f \in Errands /\ f.op = e.op /\ f.bot = e.bot /\ f.alone = e.alone /\ f.at = "hook"
      BY <1>1, <3>3 DEF Errands
    <3>5. errand' = [errand EXCEPT ![h] = f]
      BY <3>2, <1>1
    <3>6. e.op = "register" /\ "hook" \in Steps[e.op]
      BY <1>1, <2>1 DEF Steps
    <3>7. \A b \in Bots : b # e.bot => channel'[b] = channel[b]
      BY <3>2, <1>1
    <3> HIDE DEF f
    <3> QED
      BY <2>1, <3>4, <3>5, <3>6, <3>7 DEF GoesOn, Talking
  <2> QED
    BY <2>2, <2>3
<1>5. CASE SetWebhook(h)
  <2>1. /\ e.at = "hook" /\ channel' = channel /\ upset' = upset
        /\ webhook' = webhook \/ webhook' = [webhook EXCEPT ![e.bot] = e.hook]
    BY <1>5 DEF SetWebhook
  <2>2. /\ e.op \in {"register", "rotate", "verify"}
        /\ (CASE e.op = "register" -> "mark" [] e.op = "rotate" -> "replace" [] OTHER -> "mark")
              = IF e.op = "rotate" THEN "replace" ELSE "mark"
    BY <1>1, <2>1 DEF Steps
  <2>3. \/ To(h, IF e.op = "rotate" THEN "replace" ELSE "mark")
        \/ e.op = "register" /\ To(h, "undo")
        \/ End(h)
    BY <1>5, <2>2 DEF SetWebhook
  <2>4. \A b \in Bots : b # e.bot => webhook'[b] = webhook[b]
    BY <2>1, <1>1
  <2>5. CASE End(h)
    BY <2>1, <2>4, <2>5, <1>2 DEF GoesOn, End, Talking
  <2>6. CASE ~ End(h)
    <3>1. PICK at \in {"mark", "replace", "undo"} : To(h, at) /\ at \in Steps[e.op]
      BY <2>2, <2>3, <2>6 DEF Steps
    <3>2. at \in Working \cup Talking /\ at \notin {"idle", "create"}
      BY DEF Working
    <3> QED
      BY <2>1, <2>4, <3>1, <3>2, NextStep DEF GoesOn, Talking
  <2> QED
    BY <2>5, <2>6
<1>6. CASE Undo(h) \/ EraseChannel(h)
  <2>1. /\ e.at \in {"undo", "erase"} /\ End(h) /\ webhook' = webhook /\ upset' = upset
        /\ channel' = channel \/ channel' = [channel EXCEPT ![e.bot] = NoChannel]
    BY <1>6 DEF Undo, EraseChannel, Erase
  <2>2. \A b \in Bots : b # e.bot => channel'[b] = channel[b]
    BY <2>1, <1>1
  <2> QED
    BY <2>1, <2>2, <1>2 DEF GoesOn, End, Talking
<1>7. CASE MarkRegistered(h)
  <2>1. /\ e.at = "mark" /\ End(h) /\ webhook' = webhook
        /\ channel' = channel \/ channel' = [channel EXCEPT ![e.bot].marked = TRUE]
        /\ upset' = [upset EXCEPT ![e.bot] = @ /\ ~ (e.op = "verify" /\ e.alone)]
    BY <1>7 DEF MarkRegistered, Settled
  <2>2. \A b \in Bots : b # e.bot => channel'[b] = channel[b] /\ upset'[b] = upset[b]
    BY <2>1, <1>1
  <2> QED
    BY <2>1, <2>2, <1>2 DEF GoesOn, End, Talking
<1>8. CASE DeleteWebhook(h)
  <2>1. /\ e.at = "unhook" /\ To(h, "erase") /\ channel' = channel /\ upset' = upset
        /\ webhook' = webhook \/ webhook' = [webhook EXCEPT ![e.bot] = 0]
    BY <1>8 DEF DeleteWebhook
  <2>2. "erase" \in Steps[e.op] /\ "erase" \in Working \cup Talking
    BY <1>1, <2>1 DEF Steps, Working
  <2>3. \A b \in Bots : b # e.bot => webhook'[b] = webhook[b]
    BY <2>1, <1>1
  <2> QED
    BY <2>1, <2>2, <2>3, NextStep DEF GoesOn, Talking
<1>9. CASE ReplaceToken(h)
  <2>1. /\ e.at = "replace" /\ To(h, "mark") /\ webhook' = webhook /\ upset' = upset
        /\ channel' = channel \/ channel' = [channel EXCEPT ![e.bot].token = e.token]
    BY <1>9 DEF ReplaceToken
  <2>2. "mark" \in Steps[e.op] /\ "mark" \in Working \cup Talking
    BY <1>1, <2>1 DEF Steps, Working
  <2>3. \A b \in Bots : b # e.bot => channel'[b] = channel[b]
    BY <2>1, <1>1
  <2> QED
    BY <2>1, <2>2, <2>3, NextStep DEF GoesOn, Talking
<1>10. CASE WebhookInfo(h)
  <2>1. /\ e.at = "info" /\ channel' = channel /\ webhook' = webhook
        /\ \/ End(h) /\ upset' = upset
           \/ End(h) /\ upset' = [upset EXCEPT ![e.bot] = @ /\ ~ (e.op = "verify" /\ e.alone)]
           \/ To(h, "hook") /\ upset' = upset
    BY <1>10 DEF WebhookInfo, Settled
  <2>2. "hook" \in Steps[e.op] /\ "hook" \in Working \cup Talking
    BY <1>1, <2>1 DEF Steps, Working
  <2>3. \A b \in Bots : b # e.bot => upset'[b] = upset[b]
    BY <2>1, <1>1
  <2>4. CASE End(h)
    BY <2>1, <2>3, <2>4, <1>2 DEF GoesOn, End, Talking
  <2>5. CASE To(h, "hook")
    BY <2>1, <2>2, <2>3, <2>5, NextStep DEF GoesOn, Talking
  <2> QED
    BY <2>1, <2>4, <2>5
<1>11. CASE OpenChat(h) \/ LinkPhone(h) \/ MarkBlocked(h)
  <2>1. /\ e.at \in {"open", "link", "block"} /\ End(h)
        /\ channel' = channel /\ webhook' = webhook /\ upset' = upset
    BY <1>11 DEF OpenChat, LinkPhone, MarkBlocked
  <2> QED
    BY <2>1, <1>2 DEF GoesOn, End
<1>12. CASE SeeHolders(h)
  <2>1. /\ e.at = "contact" /\ channel' = channel /\ webhook' = webhook /\ upset' = upset
        /\ errand' = [errand EXCEPT ![h].at = "link", ![h].sees = Holders(e.bot, e.phone)]
    BY <1>12 DEF SeeHolders
  <2> DEFINE f == [e EXCEPT !.at = "link", !.sees = Holders(e.bot, e.phone)]
  <2>2. Holders(e.bot, e.phone) \in SUBSET Chats
    BY DEF Holders
  <2>3. f \in Errands /\ f.op = e.op /\ f.bot = e.bot /\ f.alone = e.alone /\ f.at = "link"
    BY <1>1, <2>2 DEF Errands
  <2>4. errand' = [errand EXCEPT ![h] = f]
    BY <2>1, <1>1
  <2>5. "link" \in Steps[e.op]
    BY <1>1, <2>1 DEF Steps
  <2> HIDE DEF f
  <2> QED
    BY <2>1, <2>3, <2>4, <2>5 DEF GoesOn
<1>13. CASE Deliver(h)
  <2>1. /\ e.at = "send" /\ channel' = channel /\ webhook' = webhook /\ upset' = upset
        /\ To(h, "block") \/ End(h)
    BY <1>13 DEF Deliver
  <2>2. "block" \in Steps[e.op] /\ "block" \in Working \cup Talking
    BY <1>1, <2>1 DEF Steps, Talking
  <2>3. CASE End(h)
    BY <2>1, <2>3, <1>2 DEF GoesOn, End
  <2>4. CASE To(h, "block")
    BY <2>1, <2>2, <2>4, NextStep DEF GoesOn
  <2> QED
    BY <2>1, <2>3, <2>4
<1> QED
  BY <1>4, <1>5, <1>6, <1>7, <1>8, <1>9, <1>10, <1>11, <1>12, <1>13 DEF InFlight

\* The bot that a call begins to work on.
LEMMA ManageType ==
  ASSUME BotsTypeOK, NEW h \in Calls, NEW b \in Bots, NEW e \in Errands, Manage(h, b, e)
  PROVE  BotsTypeOK'
<1> DEFINE others == {g \in Calls : Managing(g, b)}
<1>1. /\ errand \in [Calls -> Errands] /\ upset \in [Bots -> BOOLEAN]
  BY DEF BotsTypeOK
<1>2. PICK o : o = others
  OBVIOUS
<1> HIDE DEF others
<1>3. /\ errand' = [g \in Calls |->
                     IF g = h THEN [e EXCEPT !.bot = b, !.alone = (o = {})]
                     ELSE IF g \in o THEN [errand[g] EXCEPT !.alone = FALSE]
                     ELSE errand[g]]
      /\ upset' = [upset EXCEPT ![b] = @ \/ o # {}]
  BY <1>2 DEF Manage, others
<1>4. ASSUME NEW x \in Errands, NEW v \in BOOLEAN
      PROVE  [x EXCEPT !.alone = v] \in Errands /\ [x EXCEPT !.bot = b, !.alone = v] \in Errands
  BY DEF Errands
<1>5. PICK v \in BOOLEAN : v = (o = {})
  OBVIOUS
<1>6. errand' \in [Calls -> Errands]
  <2> SUFFICES ASSUME NEW g \in Calls PROVE errand'[g] \in Errands
    BY <1>3
  <2>1. errand[g] \in Errands
    BY <1>1
  <2>2. errand'[g] = IF g = h THEN [e EXCEPT !.bot = b, !.alone = v]
                     ELSE IF g \in o THEN [errand[g] EXCEPT !.alone = FALSE] ELSE errand[g]
    BY <1>3, <1>5
  <2> QED
    BY <2>1, <2>2, <1>4
<1>7. upset' \in [Bots -> BOOLEAN]
  BY <1>1, <1>3
<1> QED
  BY <1>6, <1>7 DEF Manage, BotsTypeOK

\* What the steps of a call do to the rows and to Telegram.
LEMMA CallsType ==
  ASSUME BotsTerms, BotsTypeOK, NEW h \in Calls, ErrandKnows(h), InFlight(h)
  PROVE  BotsTypeOK'
<1> DEFINE e == errand[h]
<1>1. /\ channel \in [Bots -> Channels] /\ link \in [Bots -> [Chats -> Links]]
      /\ webhook \in [Bots -> 0..Elsewhere] /\ upset \in [Bots -> BOOLEAN]
      /\ last \in [Bots -> [Phones -> Chats \cup {NoPhone}]]
      /\ errand \in [Calls -> Errands] /\ hooks \in 0..MaxHooks /\ MaxHooks \in Nat
  BY BotsTypes DEF BotsTerms
<1>2. /\ e \in Errands /\ e.bot \in Bots /\ e.hook \in 0..MaxHooks /\ e.zone \in BotZones
      /\ e.token \in 0..MaxTokens /\ e.chat \in Chats /\ e.phone \in Phones \cup {NoPhone}
      /\ e.alone \in BOOLEAN
  BY <1>1 DEF Errands
<1>3. NoChannel \in Channels /\ NoLink \in Links
  BY BlankRows
<1>4. errand' \in [Calls -> Errands]
  BY <1>1, CallsGoOn DEF GoesOn
<1>5. valid' = valid /\ gone' = gone
  BY DEF InFlight, Create, SetWebhook, Undo, MarkRegistered, DeleteWebhook, EraseChannel,
         ReplaceToken, WebhookInfo, OpenChat, SeeHolders, LinkPhone, Deliver, MarkBlocked
<1>6. channel' \in [Bots -> Channels] /\ hooks' \in 0..MaxHooks
  <2>1. ASSUME NEW r \in Channels PROVE [channel EXCEPT ![e.bot] = r] \in [Bots -> Channels]
    BY <1>1
  <2>2. CASE Create(h)
    <3>1. CASE UNCHANGED <<channel, hooks>>
      BY <1>1, <3>1
    <3>2. CASE ~ UNCHANGED <<channel, hooks>>
      <4>1. PICK k : k = hooks'
        OBVIOUS
      <4>2. /\ k = hooks + 1 /\ hooks < MaxHooks
            /\ channel' = [channel EXCEPT ![e.bot] =
                           [hook |-> k, zone |-> e.zone, token |-> e.token, marked |-> FALSE]]
        BY <2>2, <3>2, <4>1 DEF Create
      <4>3. k \in 0..MaxHooks
        BY <1>1, <4>2
      <4>4. [hook |-> k, zone |-> e.zone, token |-> e.token, marked |-> FALSE] \in Channels
        BY <4>3, <1>2 DEF Channels
      <4> QED
        BY <2>1, <4>1, <4>2, <4>3, <4>4
    <3> QED
      BY <3>1, <3>2
  <2>3. CASE Undo(h) \/ EraseChannel(h)
    BY <2>1, <2>3, <1>1, <1>3 DEF Undo, EraseChannel, Erase
  <2>4. CASE MarkRegistered(h)
    <3>1. [channel[e.bot] EXCEPT !.marked = TRUE] \in Channels
      <4>1. channel[e.bot] \in Channels
        BY <1>1, <1>2
      <4> QED
        BY <4>1 DEF Channels
    <3>2. channel' = channel \/ channel' = [channel EXCEPT ![e.bot] = [channel[e.bot] EXCEPT !.marked = TRUE]]
      BY <2>4 DEF MarkRegistered
    <3> QED
      BY <2>1, <2>4, <3>1, <3>2, <1>1 DEF MarkRegistered
  <2>5. CASE ReplaceToken(h)
    <3>1. [channel[e.bot] EXCEPT !.token = e.token] \in Channels
      BY <1>1, <1>2 DEF Channels
    <3>2. channel' = channel \/ channel' = [channel EXCEPT ![e.bot] = [channel[e.bot] EXCEPT !.token = e.token]]
      BY <2>5 DEF ReplaceToken
    <3> QED
      BY <2>1, <2>5, <3>1, <3>2, <1>1 DEF ReplaceToken
  <2>6. CASE SetWebhook(h) \/ DeleteWebhook(h) \/ WebhookInfo(h) \/ OpenChat(h)
               \/ SeeHolders(h) \/ LinkPhone(h) \/ Deliver(h) \/ MarkBlocked(h)
    BY <2>6, <1>1 DEF SetWebhook, DeleteWebhook, WebhookInfo, OpenChat, SeeHolders, LinkPhone,
                      Deliver, MarkBlocked
  <2> QED
    BY <2>2, <2>3, <2>4, <2>5, <2>6 DEF InFlight
<1>7. webhook' \in [Bots -> 0..Elsewhere]
  <2>1. ASSUME NEW x \in {0, e.hook} PROVE [webhook EXCEPT ![e.bot] = x] \in [Bots -> 0..Elsewhere]
    BY <1>1, <1>2 DEF Elsewhere
  <2>2. webhook' = webhook \/ \E x \in {0, e.hook} : webhook' = [webhook EXCEPT ![e.bot] = x]
    BY DEF InFlight, Create, SetWebhook, Undo, MarkRegistered, DeleteWebhook, EraseChannel,
           ReplaceToken, WebhookInfo, OpenChat, SeeHolders, LinkPhone, Deliver, MarkBlocked
  <2> QED
    BY <1>1, <2>1, <2>2
<1>8. upset' \in [Bots -> BOOLEAN]
  BY <1>1 DEF InFlight, Create, SetWebhook, Undo, MarkRegistered, DeleteWebhook, EraseChannel, Settled,
         ReplaceToken, WebhookInfo, OpenChat, SeeHolders, LinkPhone, Deliver, MarkBlocked
<1>9. link' \in [Bots -> [Chats -> Links]] /\ last' \in [Bots -> [Phones -> Chats \cup {NoPhone}]]
  <2>1. ASSUME NEW f \in [Chats -> Links] PROVE [link EXCEPT ![e.bot] = f] \in [Bots -> [Chats -> Links]]
    BY <1>1
  <2>2. link[e.bot] \in [Chats -> Links] /\ link[e.bot][e.chat] \in Links
    BY <1>1, <1>2
  <2>3. CASE Undo(h) \/ EraseChannel(h)
    <3>1. CASE UNCHANGED <<link, last>>
      BY <1>1, <3>1
    <3>2. CASE ~ UNCHANGED <<link, last>>
      <4>1. /\ link' = [link EXCEPT ![e.bot] = [c \in Chats |-> NoLink]]
            /\ last' = [last EXCEPT ![e.bot] = [p \in Phones |-> NoPhone]]
        BY <2>3, <3>2 DEF Undo, EraseChannel, Erase
      <4>2. [c \in Chats |-> NoLink] \in [Chats -> Links]
        BY <1>3
      <4>3. last' \in [Bots -> [Phones -> Chats \cup {NoPhone}]]
        BY <4>1, <1>1
      <4> QED
        BY <2>1, <4>1, <4>2, <4>3
    <3> QED
      BY <3>1, <3>2
  <2>4. CASE OpenChat(h)
    <3> DEFINE l == [link[e.bot][e.chat] EXCEPT !.there = TRUE, !.blocked = FALSE]
    <3>1. l \in Links
      BY <2>2 DEF Links
    <3> HIDE DEF l
    <3>2. link' = [link EXCEPT ![e.bot][e.chat] = l] /\ last' = last
      BY <2>4, <1>1, <1>2 DEF OpenChat, l
    <3> QED
      BY <3>1, <3>2, <1>1, <1>2
  <2>5. CASE MarkBlocked(h)
    <3> DEFINE l == [link[e.bot][e.chat] EXCEPT !.blocked = @ \/ link[e.bot][e.chat].there]
    <3>1. l \in Links
      BY <2>2 DEF Links
    <3>2. link' = [link EXCEPT ![e.bot][e.chat] = l] /\ last' = last
      BY <2>5, <1>1, <1>2 DEF MarkBlocked
    <3> HIDE DEF l
    <3> QED
      BY <3>1, <3>2, <1>1, <1>2
  <2>6. CASE LinkPhone(h)
    <3> DEFINE mine == [there |-> TRUE, phone |-> e.phone, blocked |-> FALSE]
               lose(c) == [link[e.bot][c] EXCEPT !.phone = NoPhone]
               f == [c \in Chats |-> IF c = e.chat THEN mine
                                     ELSE IF link[e.bot][c].phone = e.phone THEN lose(c)
                                     ELSE link[e.bot][c]]
    <3>1. CASE UNCHANGED <<link, last>>
      BY <1>1, <3>1
    <3>2. CASE ~ UNCHANGED <<link, last>>
      <4>1. link' = [link EXCEPT ![e.bot] = f] /\ last' = [last EXCEPT ![e.bot][e.phone] = e.chat]
        BY <2>6, <3>2, <1>1, <1>2 DEF LinkPhone, LinkVerified
      <4>2. mine \in Links
        BY <1>2 DEF Links
      <4>3. ASSUME NEW c \in Chats PROVE lose(c) \in Links /\ link[e.bot][c] \in Links
        <5>1. link[e.bot][c] \in Links
          BY <2>2
        <5> QED
          BY <5>1 DEF Links
      <4> HIDE DEF mine, lose
      <4>4. f \in [Chats -> Links]
        BY <4>2, <4>3
      <4>5. last' \in [Bots -> [Phones -> Chats \cup {NoPhone}]]
        BY <4>1, <1>1, <1>2
      <4> HIDE DEF f
      <4> QED
        BY <2>1, <4>1, <4>4, <4>5
    <3> QED
      BY <3>1, <3>2
  <2>7. CASE Create(h) \/ SetWebhook(h) \/ MarkRegistered(h) \/ DeleteWebhook(h) \/ ReplaceToken(h)
               \/ WebhookInfo(h) \/ SeeHolders(h) \/ Deliver(h)
    BY <2>7, <1>1 DEF Create, SetWebhook, MarkRegistered, DeleteWebhook, ReplaceToken,
                      WebhookInfo, SeeHolders, Deliver
  <2> QED
    BY <2>3, <2>4, <2>5, <2>6, <2>7 DEF InFlight
<1> QED
  BY <1>4, <1>5, <1>6, <1>7, <1>8, <1>9, BotsTypes DEF BotsTypeOK, Channels, Links

\* Who manages what after the step of a call did so before it, as alone as it was.
LEMMA StillManaging ==
  ASSUME BotsTypeOK, NEW h \in Calls, GoesOn(h), NEW g \in Calls, NEW b \in Bots,
         Managing(g, b)'
  PROVE  /\ Managing(g, b) /\ errand'[g].alone = errand[g].alone
         /\ errand'[g].op = errand[g].op /\ errand'[g].bot = errand[g].bot
<1>1. errand \in [Calls -> Errands]
  BY DEF BotsTypeOK
<1>2. PICK e \in Errands :
        /\ errand' = [errand EXCEPT ![h] = e]
        /\ e = NoErrand \/ /\ e.op = errand[h].op /\ e.bot = errand[h].bot /\ e.alone = errand[h].alone
                           /\ e.at \in Steps[e.op] \ {"idle", "create"}
  BY DEF GoesOn
<1>3. CASE g # h
  BY <1>1, <1>2, <1>3 DEF Managing
<1>4. CASE g = h
  <2>1. errand'[g] = e /\ e # NoErrand
    BY <1>1, <1>2, <1>4 DEF Managing, NoErrand
  <2> QED
    BY <1>2, <1>4, <2>1 DEF Managing, GoesOn
<1> QED
  BY <1>3, <1>4

\* A bot becomes calm when the verification that is alone on it ends.
LEMMA Calmed ==
  ASSUME BotsTypeOK, NEW h \in Calls, ErrandKnows(h), InFlight(h), NEW b \in Bots,
         upset[b], ~ upset'[b]
  PROVE  /\ b = errand[h].bot /\ errand[h].op = "verify" /\ errand[h].alone /\ End(h)
         /\ errand[h].at \in {"mark", "info"}
         /\ errand[h].at = "info" => webhook[b] = errand[h].hook
         /\ webhook' = webhook /\ channel'[b].hook = channel[b].hook
<1> DEFINE e == errand[h]
<1>1. /\ upset \in [Bots -> BOOLEAN] /\ channel \in [Bots -> Channels] /\ e.bot \in Bots
      /\ e.alone \in BOOLEAN
  BY BotsTypes DEF Errands
<1>2. \/ MarkRegistered(h) /\ Settled(h)
      \/ WebhookInfo(h) /\ Settled(h) /\ End(h) /\ webhook[e.bot] = e.hook
  BY DEF InFlight, Create, SetWebhook, Undo, MarkRegistered, DeleteWebhook, EraseChannel,
         ReplaceToken, WebhookInfo, OpenChat, SeeHolders, LinkPhone, Deliver, MarkBlocked
<1>3. b = e.bot /\ e.op = "verify" /\ e.alone
  BY <1>1, <1>2 DEF Settled
<1>4. CASE MarkRegistered(h)
  <2>1. \/ channel' = channel
        \/ channel' = [channel EXCEPT ![e.bot].marked = TRUE]
    BY <1>4 DEF MarkRegistered
  <2>2. channel'[b].hook = channel[b].hook
    BY <2>1, <1>1, <1>3 DEF Channels
  <2> QED
    BY <1>3, <1>4, <2>2 DEF MarkRegistered
<1> QED
  BY <1>2, <1>3, <1>4 DEF WebhookInfo

LEMMA CallsApart ==
  ASSUME BotsTerms, BotsTypeOK, AloneIsAlone, CalmIsAlone, NEW h \in Calls, ErrandKnows(h),
         InFlight(h)
  PROVE  AloneIsAlone' /\ CalmIsAlone'
<1>1. GoesOn(h) /\ errand \in [Calls -> Errands] /\ upset \in [Bots -> BOOLEAN]
  BY CallsGoOn DEF BotsTypeOK
<1>2. AloneIsAlone'
  <2> SUFFICES ASSUME NEW g \in Calls, NEW k \in Calls, NEW b \in Bots,
                      Managing(g, b)', errand'[g].alone, Managing(k, b)'
               PROVE  k = g
    BY DEF AloneIsAlone
  <2>1. Managing(g, b) /\ errand[g].alone /\ Managing(k, b)
    BY <1>1, StillManaging
  <2> QED
    BY <2>1 DEF AloneIsAlone
<1>3. CalmIsAlone'
  <2> SUFFICES ASSUME NEW g \in Calls, NEW b \in Bots, Managing(g, b)', ~ upset'[b]
               PROVE  errand'[g].alone
    BY DEF CalmIsAlone
  <2>1. Managing(g, b) /\ errand'[g].alone = errand[g].alone
    BY <1>1, StillManaging
  <2>2. CASE ~ upset[b]
    BY <2>1, <2>2 DEF CalmIsAlone
  <2>3. CASE upset[b]
    <3>1. /\ b = errand[h].bot /\ errand[h].op = "verify" /\ errand[h].alone /\ End(h)
          /\ errand[h].at \in {"mark", "info"}
      BY <2>3, Calmed
    <3>2. Managing(h, b)
      BY <3>1 DEF Managing
    <3>3. g = h
      BY <3>1, <3>2, <2>1 DEF AloneIsAlone
    <3>4. errand'[h] = NoErrand
      BY <3>1, <1>1 DEF End
    <3> QED
      BY <3>3, <3>4 DEF Managing, NoErrand
  <2> QED
    BY <2>2, <2>3
<1> QED
  BY <1>2, <1>3

\* What a call alone does to its own knowledge.
LEMMA OwnErrand ==
  ASSUME BotsTerms, BotsTypeOK, NEW h \in Calls, ErrandKnows(h), InFlight(h)
  PROVE  ErrandKnows(h)'
<1> DEFINE e == errand[h]
<1>1. /\ channel \in [Bots -> Channels] /\ webhook \in [Bots -> 0..Elsewhere]
      /\ errand \in [Calls -> Errands] /\ hooks \in 0..MaxHooks /\ MaxHooks \in Nat
      /\ e.bot \in Bots /\ e \in Errands
      /\ e.op \in {"none", "register", "remove", "rotate", "verify", "update", "send"}
  BY BotsTypes DEF BotsTerms, Errands
<1>2. PICK f \in Errands :
        /\ errand' = [errand EXCEPT ![h] = f]
        /\ f = NoErrand \/ /\ f.op = e.op /\ f.bot = e.bot /\ f.alone = e.alone
                           /\ f.at \in Steps[f.op] \ {"idle", "create"}
  BY CallsGoOn DEF GoesOn
<1>3. errand'[h] = f
  BY <1>1, <1>2
<1>4. CASE f = NoErrand
  BY <1>3, <1>4 DEF ErrandKnows, NoErrand, Steps, Managing
<1>5. CASE f # NoErrand
  <2>1. f.op = e.op /\ f.bot = e.bot /\ f.alone = e.alone /\ f.at \in Steps[f.op] \ {"idle", "create"}
    BY <1>2, <1>5
  <2>2. ~ End(h)
    BY <1>1, <1>2, <1>3, <1>5 DEF End
  <2> SUFFICES ASSUME f.op \in {"register", "remove", "rotate", "verify"}, e.alone
               PROVE  /\ f.hook # 0 /\ f.hook = channel'[e.bot].hook
                      /\ f.at \in {"mark", "replace"} => webhook'[e.bot] = f.hook
    BY <1>3, <2>1 DEF ErrandKnows, Managing
  <2>3. e.at \in Steps[e.op]
    BY DEF ErrandKnows
  <2>4. /\ e.at # "create" => e.hook # 0 /\ e.hook = channel[e.bot].hook
        /\ e.at \in {"mark", "replace"} => webhook[e.bot] = e.hook
    BY <2>1, <2>3, CallsGoOn DEF ErrandKnows, Managing, GoesOn
  <2>5. CASE Create(h)
    <3>1. PICK k : k = hooks'
      OBVIOUS
    <3>2. /\ k = hooks + 1
          /\ channel' = [channel EXCEPT ![e.bot] =
                           [hook |-> k, zone |-> e.zone, token |-> e.token, marked |-> FALSE]]
          /\ errand' = [errand EXCEPT ![h].at = "hook", ![h].hook = k]
      BY <2>5, <2>2, <3>1 DEF Create
    <3>3. f.at = "hook" /\ f.hook = k
      <4>1. [errand EXCEPT ![h].at = "hook", ![h].hook = k][h]
               = [e EXCEPT !.at = "hook", !.hook = k]
        BY <1>1
      <4>2. f = [e EXCEPT !.at = "hook", !.hook = k]
        BY <3>2, <4>1, <1>3
      <4> QED
        BY <4>2, <1>1 DEF Errands
    <3>4. channel'[e.bot].hook = k
      BY <3>2, <1>1
    <3> QED
      BY <3>2, <3>3, <3>4, <1>1
  <2>6. ASSUME NEW at \in Working, To(h, at)
        PROVE  f.hook = e.hook /\ f.at = at
    BY <2>6, <1>1, <1>3 DEF To, Errands
  <2>7. CASE SetWebhook(h)
    <3>1. /\ e.at = "hook" /\ channel' = channel
          /\ \/ /\ webhook' = [webhook EXCEPT ![e.bot] = e.hook]
                /\ To(h, "mark") \/ To(h, "replace")
             \/ To(h, "undo")
      BY <2>7, <2>2 DEF SetWebhook
    <3>2. {"mark", "replace", "undo"} \subseteq Working
      BY DEF Working
    <3>3. f.hook = e.hook /\ (f.at = "undo" \/ webhook'[e.bot] = e.hook)
      BY <3>1, <3>2, <2>6, <1>1
    <3> QED
      BY <3>1, <3>3, <2>4
  <2>8. CASE DeleteWebhook(h)
    <3>1. e.at = "unhook" /\ channel' = channel /\ To(h, "erase") /\ "erase" \in Working
      BY <2>8 DEF DeleteWebhook, Working
    <3>2. f.hook = e.hook /\ f.at = "erase"
      BY <3>1, <2>6
    <3> QED
      BY <3>1, <3>2, <2>4
  <2>9. CASE ReplaceToken(h)
    <3>1. /\ e.at = "replace" /\ webhook' = webhook /\ To(h, "mark") /\ "mark" \in Working
          /\ channel' = channel \/ channel' = [channel EXCEPT ![e.bot].token = e.token]
      BY <2>9 DEF ReplaceToken, Working
    <3>2. f.hook = e.hook /\ f.at = "mark"
      BY <3>1, <2>6
    <3>3. channel'[e.bot].hook = channel[e.bot].hook
      BY <3>1, <1>1 DEF Channels
    <3> QED
      BY <3>1, <3>2, <3>3, <2>4
  <2>10. CASE WebhookInfo(h)
    <3>1. e.at = "info" /\ channel' = channel /\ To(h, "hook") /\ "hook" \in Working
      BY <2>10, <2>2 DEF WebhookInfo, Working
    <3>2. f.hook = e.hook /\ f.at = "hook"
      BY <3>1, <2>6
    <3> QED
      BY <3>1, <3>2, <2>4
  <2>11. CASE SeeHolders(h) \/ Deliver(h)
    <3>1. e.at \in {"contact", "send"}
      BY <2>11 DEF SeeHolders, Deliver
    <3> QED
      BY <3>1, <2>1, <2>3, <1>1 DEF Steps
  <2>12. CASE Undo(h) \/ MarkRegistered(h) \/ EraseChannel(h) \/ OpenChat(h) \/ LinkPhone(h)
                \/ MarkBlocked(h)
    BY <2>2, <2>12 DEF Undo, MarkRegistered, EraseChannel, OpenChat, LinkPhone, MarkBlocked
  <2> QED
    BY <2>5, <2>7, <2>8, <2>9, <2>10, <2>11, <2>12 DEF InFlight
<1> QED
  BY <1>4, <1>5

\* And to that of the others.
LEMMA OthersErrands ==
  ASSUME BotsTerms, BotsTypeOK, AloneIsAlone, NEW h \in Calls, ErrandKnows(h), InFlight(h),
         NEW g \in Calls, g # h, ErrandKnows(g)
  PROVE  ErrandKnows(g)'
<1>1. GoesOn(h) /\ errand \in [Calls -> Errands] /\ errand[g].bot \in Bots /\ errand[h].bot \in Bots
      /\ errand[h].at \in Steps[errand[h].op]
      /\ errand[h].op \in {"none", "register", "remove", "rotate", "verify", "update", "send"}
  BY CallsGoOn DEF BotsTypeOK, Errands, ErrandKnows
<1>2. errand'[g] = errand[g]
  BY <1>1 DEF GoesOn
<1>3. CASE Managing(g, errand[g].bot) /\ errand[g].alone
  <2>1. errand[h].bot # errand[g].bot \/ errand[h].at \notin Working
    <3>1. errand[h].at \in Working => Managing(h, errand[h].bot)
      BY WhoManages
    <3> QED
      BY <1>1, <1>3, <3>1 DEF AloneIsAlone
  <2>2. errand[h].at \in Working \cup Talking
    BY <1>1 DEF GoesOn, Working, Talking, Steps
  <2>3. channel'[errand[g].bot] = channel[errand[g].bot] /\ webhook'[errand[g].bot] = webhook[errand[g].bot]
    BY <2>1, <2>2, <1>1 DEF GoesOn
  <2> QED
    BY <1>2, <2>3 DEF ErrandKnows, Managing
<1>4. CASE ~ (Managing(g, errand[g].bot) /\ errand[g].alone)
  BY <1>2, <1>4 DEF ErrandKnows, Managing
<1> QED
  BY <1>3, <1>4

\* Whatever step a call takes, a bot that is calm is heard.
LEMMA CallsHeard ==
  ASSUME BotsTerms, BotsTypeOK, AloneIsAlone, CalmIsAlone, CalmIsHeard,
         NEW h \in Calls, ErrandKnows(h), InFlight(h)
  PROVE  CalmIsHeard'
<1> DEFINE e == errand[h]
<1>1. /\ GoesOn(h) /\ errand \in [Calls -> Errands] /\ e.bot \in Bots /\ e \in Errands
      /\ e.at \in Steps[e.op] /\ upset \in [Bots -> BOOLEAN]
      /\ e.op \in {"none", "register", "remove", "rotate", "verify", "update", "send"}
      /\ channel \in [Bots -> Channels] /\ webhook \in [Bots -> 0..Elsewhere]
  BY CallsGoOn, BotsTypes DEF Errands, ErrandKnows
<1>2. SUFFICES ASSUME NEW b \in Bots, channel'[b].hook # 0, ~ upset'[b],
                      \A g \in Calls : Managing(g, b)' => ~ Unheard(g)'
               PROVE  webhook'[b] = channel'[b].hook
  BY DEF CalmIsHeard
<1>3. ASSUME NEW g \in Calls, g # h
      PROVE  /\ Managing(g, b)' <=> Managing(g, b)
             /\ Unheard(g)' <=> Unheard(g)
  <2>1. errand'[g] = errand[g]
    BY <1>1, <1>3 DEF GoesOn
  <2> QED
    BY <2>1 DEF Managing, Unheard
<1>4. e.at \in Working \cup Talking
  BY <1>1 DEF GoesOn, Steps, Working, Talking
<1>5. CASE upset[b]
  <2>1. /\ b = e.bot /\ e.op = "verify" /\ e.alone
        /\ e.at \in {"mark", "info"}
        /\ e.at = "info" => webhook[b] = e.hook
        /\ webhook' = webhook /\ channel'[b].hook = channel[b].hook
    BY <1>2, <1>5, Calmed
  <2>2. e.hook = channel[b].hook /\ webhook[b] = e.hook
    BY <2>1 DEF ErrandKnows, Managing
  <2> QED
    BY <2>1, <2>2
<1>6. CASE ~ upset[b] /\ ~ Managing(h, b)
  <2>1. channel'[b] = channel[b] /\ webhook'[b] = webhook[b]
    <3>1. b # e.bot \/ e.at \in Talking
      BY <1>4, <1>6, WhoManages
    <3> QED
      BY <3>1, <1>1 DEF GoesOn
  <2>2. \A g \in Calls : Managing(g, b) => ~ Unheard(g)
    BY <1>2, <1>3, <1>6
  <2> QED
    BY <1>2, <1>6, <2>1, <2>2 DEF CalmIsHeard
<1>7. CASE ~ upset[b] /\ Managing(h, b)
  <2>1. /\ b = e.bot /\ e.alone /\ e.at # "idle"
        /\ e.op \in {"register", "remove", "rotate", "verify"}
        /\ \A g \in Calls : Managing(g, b) => g = h
    BY <1>7 DEF CalmIsAlone, AloneIsAlone, Managing
  <2>2. /\ e.at # "create" => e.hook # 0 /\ e.hook = channel[b].hook
        /\ e.at \in {"mark", "replace"} => webhook[b] = e.hook
    BY <1>7, <2>1 DEF ErrandKnows
  <2>3. ~ Unheard(h) /\ channel[b].hook # 0 => webhook[b] = channel[b].hook
    BY <1>7, <2>1 DEF CalmIsHeard
  <2>4. errand'[h].op = e.op /\ errand'[h].bot = e.bot /\ errand'[h].at \notin {"idle", "create"}
          => ~ (e.op \in {"register", "remove"})
    BY <1>2, <2>1 DEF Managing, Unheard
  <2>5. ASSUME NEW at \in Working \ {"create"}, To(h, at)
        PROVE  e.op \notin {"register", "remove"}
    <3>1. errand'[h].op = e.op /\ errand'[h].bot = e.bot /\ errand'[h].at = at
      BY <2>5, <1>1 DEF To, Errands
    <3> QED
      BY <3>1, <2>4 DEF Working
  <2>6. CASE Create(h)
    <3>1. CASE UNCHANGED <<channel, hooks>>
      <4>1. webhook' = webhook /\ ~ Unheard(h)
        BY <2>6, <1>1 DEF Create, Unheard, Steps
      <4> QED
        BY <3>1, <4>1, <2>3, <1>2
    <3>2. CASE ~ UNCHANGED <<channel, hooks>>
      <4>1. PICK k : k = hooks'
        OBVIOUS
      <4>2. errand' = [errand EXCEPT ![h].at = "hook", ![h].hook = k] /\ e.at = "create"
        BY <2>6, <3>2, <4>1 DEF Create
      <4>3. errand'[h] = [e EXCEPT !.at = "hook", !.hook = k]
        BY <4>2, <1>1
      <4>4. errand'[h].op = e.op /\ errand'[h].bot = e.bot /\ errand'[h].at = "hook"
        BY <4>3, <1>1 DEF Errands
      <4>5. e.op = "register"
        BY <1>1, <4>2 DEF Steps
      <4> QED
        BY <4>4, <4>5, <2>4
    <3> QED
      BY <3>1, <3>2
  <2>7. CASE SetWebhook(h)
    <3>1. /\ e.at = "hook" /\ channel' = channel
          /\ webhook' = webhook \/ webhook' = [webhook EXCEPT ![e.bot] = e.hook]
          /\ To(h, "mark") \/ To(h, "replace") \/ To(h, "undo") \/ e.op # "register"
      BY <2>7 DEF SetWebhook
    <3>2. e.op \notin {"register", "remove"}
      BY <3>1, <2>5, <1>1 DEF Working, Steps
    <3>3. webhook[b] = channel[b].hook
      BY <2>3, <3>1, <3>2, <1>2 DEF Unheard
    <3> QED
      BY <3>1, <3>3, <2>1, <2>2, <1>1
  <2>8. CASE Undo(h) \/ EraseChannel(h)
    <3>1. e.at # "create" /\ channel' = [channel EXCEPT ![b] = NoChannel]
      BY <2>8, <2>1, <2>2 DEF Undo, EraseChannel, Erase, RowOf
    <3>2. channel'[b].hook = 0
      BY <3>1, <1>1, IdleType
    <3> QED
      BY <3>2, <1>2
  <2>9. CASE MarkRegistered(h)
    <3>1. /\ e.at = "mark" /\ webhook' = webhook
          /\ channel' = channel \/ channel' = [channel EXCEPT ![e.bot].marked = TRUE]
      BY <2>9 DEF MarkRegistered
    <3>2. channel'[b].hook = channel[b].hook
      BY <3>1, <1>1, <2>1 DEF Channels
    <3> QED
      BY <3>1, <3>2, <2>2
  <2>10. CASE DeleteWebhook(h)
    <3>1. e.at = "unhook" /\ To(h, "erase") /\ "erase" \in Working \ {"create"}
      BY <2>10 DEF DeleteWebhook, Working
    <3> QED
      BY <3>1, <2>5, <1>1 DEF Steps
  <2>11. CASE ReplaceToken(h)
    <3>1. /\ e.at = "replace" /\ webhook' = webhook
          /\ channel' = channel \/ channel' = [channel EXCEPT ![e.bot].token = e.token]
      BY <2>11 DEF ReplaceToken
    <3>2. channel'[b].hook = channel[b].hook
      BY <3>1, <1>1, <2>1 DEF Channels
    <3> QED
      BY <3>1, <3>2, <2>2
  <2>12. CASE WebhookInfo(h)
    <3>1. e.at = "info" /\ webhook' = webhook /\ channel' = channel
      BY <2>12 DEF WebhookInfo
    <3>2. ~ Unheard(h)
      BY <3>1, <1>1 DEF Unheard, Steps
    <3> QED
      BY <3>1, <3>2, <2>3, <1>2
  <2>13. CASE OpenChat(h) \/ SeeHolders(h) \/ LinkPhone(h) \/ Deliver(h) \/ MarkBlocked(h)
    <3>1. e.at \in {"open", "contact", "link", "send", "block"}
      BY <2>13 DEF OpenChat, SeeHolders, LinkPhone, Deliver, MarkBlocked
    <3> QED
      BY <3>1, <2>1, <1>1 DEF Steps
  <2> QED
    BY <2>6, <2>7, <2>8, <2>9, <2>10, <2>11, <2>12, <2>13 DEF InFlight
<1> QED
  BY <1>1, <1>5, <1>6, <1>7

\* A chat that takes a phone takes it from whoever was seen to hold it, or takes nothing.
LEMMA CallsVerify ==
  ASSUME BotsTypeOK, LastContactWins, NEW h \in Calls, InFlight(h)
  PROVE  LastContactWins'
<1> DEFINE e == errand[h]
<1>1. /\ link \in [Bots -> [Chats -> Links]] /\ e.bot \in Bots /\ e.chat \in Chats
      /\ last \in [Bots -> [Phones -> Chats \cup {NoPhone}]]
      /\ e.phone \in Phones \cup {NoPhone}
  BY BotsTypes DEF Errands
<1>2. SUFFICES ASSUME NEW b \in Bots, NEW c \in Chats, link'[b][c].phone # NoPhone
               PROVE  last'[b][link'[b][c].phone] = c
  BY DEF LastContactWins
<1>3. link[b][c] \in Links /\ link[b][c].phone \in Phones \cup {NoPhone}
  BY <1>1 DEF Links
<1>4. link[b][c].phone # NoPhone => last[b][link[b][c].phone] = c /\ link[b][c].phone \in Phones
  BY <1>3 DEF LastContactWins
<1>5. CASE UNCHANGED <<link, last>>
  BY <1>2, <1>4, <1>5
<1>6. CASE Undo(h) \/ EraseChannel(h)
  <2>1. CASE ~ UNCHANGED <<link, last>>
    <3>1. /\ link' = [link EXCEPT ![e.bot] = [x \in Chats |-> NoLink]]
          /\ last' = [last EXCEPT ![e.bot] = [p \in Phones |-> NoPhone]]
      BY <1>6, <2>1 DEF Undo, EraseChannel, Erase
    <3>2. b # e.bot
      BY <3>1, <1>1, <1>2 DEF NoLink
    <3> QED
      BY <3>1, <3>2, <1>1, <1>2, <1>4
  <2> QED
    BY <2>1, <1>5
<1>7. CASE OpenChat(h)
  <2>1. /\ link' = [link EXCEPT ![e.bot][e.chat] = [@ EXCEPT !.there = TRUE, !.blocked = FALSE]]
        /\ last' = last
    BY <1>7 DEF OpenChat
  <2>2. link'[b][c].phone = link[b][c].phone
    BY <2>1, <1>1, <1>3 DEF Links
  <2> QED
    BY <2>1, <2>2, <1>2, <1>4
<1>8. CASE MarkBlocked(h)
  <2>1. /\ link' = [link EXCEPT ![e.bot][e.chat].blocked = @ \/ link[e.bot][e.chat].there]
        /\ last' = last
    BY <1>8 DEF MarkBlocked
  <2>2. link'[b][c].phone = link[b][c].phone
    BY <2>1, <1>1, <1>3 DEF Links
  <2> QED
    BY <2>1, <2>2, <1>2, <1>4
<1>9. CASE LinkPhone(h)
  <2> DEFINE mine == [there |-> TRUE, phone |-> e.phone, blocked |-> FALSE]
             f == [x \in Chats |-> IF x = e.chat THEN mine
                                   ELSE IF link[e.bot][x].phone = e.phone
                                     THEN [link[e.bot][x] EXCEPT !.phone = NoPhone]
                                   ELSE link[e.bot][x]]
  <2>1. CASE ~ UNCHANGED <<link, last>>
    <3>1. link' = [link EXCEPT ![e.bot] = f] /\ last' = [last EXCEPT ![e.bot][e.phone] = e.chat]
      BY <1>9, <2>1, <1>1 DEF LinkPhone, LinkVerified
    <3>2. CASE b # e.bot
      BY <3>1, <3>2, <1>1, <1>2, <1>4
    <3>3. CASE b = e.bot /\ c = e.chat
      <4>1. link'[b][c].phone = e.phone
        BY <3>1, <3>3, <1>1
      <4>2. e.phone \in Phones
        BY <4>1, <1>1, <1>2
      <4> QED
        BY <3>1, <3>3, <4>1, <4>2, <1>1
    <3>4. CASE b = e.bot /\ c # e.chat
      <4>1. link'[b][c] = IF link[b][c].phone = e.phone
                            THEN [link[b][c] EXCEPT !.phone = NoPhone] ELSE link[b][c]
        BY <3>1, <3>4, <1>1
      <4>2. link'[b][c].phone = link[b][c].phone /\ link[b][c].phone # e.phone
        BY <4>1, <1>2, <1>3 DEF Links
      <4>3. last'[b][link[b][c].phone] = last[b][link[b][c].phone]
        BY <3>1, <4>2, <1>1, <1>2, <1>4
      <4> QED
        BY <4>2, <4>3, <1>2, <1>4
    <3> QED
      BY <3>2, <3>3, <3>4
  <2> QED
    BY <2>1, <1>5
<1>10. CASE Create(h) \/ SetWebhook(h) \/ MarkRegistered(h) \/ DeleteWebhook(h) \/ ReplaceToken(h)
               \/ WebhookInfo(h) \/ SeeHolders(h) \/ Deliver(h)
  BY <1>10, <1>5 DEF Create, SetWebhook, MarkRegistered, DeleteWebhook, ReplaceToken,
                     WebhookInfo, SeeHolders, Deliver
<1> QED
  BY <1>6, <1>7, <1>8, <1>9, <1>10 DEF InFlight

\* A call that begins to manage a bot knows where it is, and the bot it shares with
\* another is upset.
LEMMA ManageKeeps ==
  ASSUME BotsTerms, BotsInv, NEW h \in Calls, NEW b \in Bots, NEW e \in Errands,
         Manage(h, b, e),
         e.op \in {"register", "remove", "rotate", "verify"}, e.at \in Steps[e.op],
         e.at # "idle", e.at \notin {"mark", "replace", "undo", "erase"},
         e.op = "register" => e.at = "create",
         e.at # "create" => e.hook = channel[b].hook /\ e.hook # 0
  PROVE  BotsInv'
<1>1. /\ errand \in [Calls -> Errands] /\ upset \in [Bots -> BOOLEAN] /\ BotsTypeOK
      /\ errand[h].at = "idle"
  BY DEF BotsInv, BotsTypeOK, Manage
<1>2. PICK o : o = {g \in Calls : Managing(g, b)}
  OBVIOUS
<1>3. /\ errand' = [g \in Calls |->
                     IF g = h THEN [e EXCEPT !.bot = b, !.alone = (o = {})]
                     ELSE IF g \in o THEN [errand[g] EXCEPT !.alone = FALSE]
                     ELSE errand[g]]
      /\ upset' = [upset EXCEPT ![b] = @ \/ o # {}]
      /\ UNCHANGED <<channel, link, webhook, last>>
  BY <1>2 DEF Manage
<1>4. /\ errand'[h].op = e.op /\ errand'[h].at = e.at /\ errand'[h].bot = b
      /\ errand'[h].hook = e.hook
      /\ errand'[h].alone <=> o = {}
  BY <1>3 DEF Errands
<1>5. ASSUME NEW g \in Calls, g # h
      PROVE  /\ errand'[g].op = errand[g].op /\ errand'[g].at = errand[g].at
             /\ errand'[g].bot = errand[g].bot /\ errand'[g].hook = errand[g].hook
             /\ errand'[g].alone <=> errand[g].alone /\ g \notin o
  <2>1. errand[g] \in Errands /\ errand'[g] = IF g \in o THEN [errand[g] EXCEPT !.alone = FALSE] ELSE errand[g]
    BY <1>1, <1>3, <1>5
  <2> QED
    BY <2>1 DEF Errands
<1>6. ASSUME NEW g \in Calls, NEW c \in Bots, g # h
      PROVE  Managing(g, c)' <=> Managing(g, c)
  BY <1>5, <1>6 DEF Managing
<1>7. \A c \in Bots : ~ Managing(h, c) /\ (Managing(h, c)' <=> c = b)
  BY <1>1, <1>4 DEF Managing
<1>8. AloneIsAlone'
  <2> SUFFICES ASSUME NEW g \in Calls, NEW k \in Calls, NEW c \in Bots,
                      Managing(g, c)', errand'[g].alone, Managing(k, c)'
               PROVE  k = g
    BY DEF AloneIsAlone
  <2>1. CASE g # h /\ k # h
    BY <2>1, <1>5, <1>6 DEF AloneIsAlone, BotsInv
  <2>2. CASE g = h /\ k # h
    <3>1. c = b /\ Managing(k, c)
      BY <2>2, <1>6, <1>7
    <3>2. k \in o
      BY <3>1, <1>2
    <3> QED
      BY <3>2, <2>2, <1>4
  <2>3. CASE g # h /\ k = h
    BY <2>3, <1>2, <1>5, <1>6, <1>7
  <2> QED
    BY <2>1, <2>2, <2>3
<1>9. CalmIsAlone'
  <2> SUFFICES ASSUME NEW g \in Calls, NEW c \in Bots, Managing(g, c)', ~ upset'[c]
               PROVE  errand'[g].alone
    BY DEF CalmIsAlone
  <2>1. ~ upset[c] /\ (c = b => o = {})
    BY <1>1, <1>3
  <2>2. CASE g = h
    BY <2>1, <2>2, <1>4, <1>7
  <2>3. CASE g # h
    <3>1. Managing(g, c) /\ errand[g].alone
      BY <2>1, <2>3, <1>6 DEF BotsInv, CalmIsAlone
    <3>2. g \notin o
      BY <2>1, <3>1, <1>2 DEF Managing
    <3> QED
      BY <3>1, <3>2, <2>3, <1>5
  <2> QED
    BY <2>2, <2>3
<1>10. CalmIsHeard'
  <2> SUFFICES ASSUME NEW c \in Bots, channel'[c].hook # 0, ~ upset'[c],
                      \A g \in Calls : Managing(g, c)' => ~ Unheard(g)'
               PROVE  webhook'[c] = channel'[c].hook
    BY DEF CalmIsHeard
  <2>1. ~ upset[c]
    BY <1>1, <1>3
  <2>2. \A g \in Calls : Managing(g, c) => ~ Unheard(g)
    BY <1>5, <1>6, <1>7 DEF Unheard
  <2> QED
    BY <2>1, <2>2, <1>3 DEF CalmIsHeard, BotsInv
<1>11. \A g \in Calls : ErrandKnows(g)'
  <2> SUFFICES ASSUME NEW g \in Calls PROVE ErrandKnows(g)'
    OBVIOUS
  <2>1. CASE g = h
    <3>1. /\ errand'[h].at \in Steps[errand'[h].op] /\ errand'[h].bot = b
          /\ errand'[h].at \notin {"mark", "replace"}
      BY <1>4
    <3>2. errand'[h].at # "create" => errand'[h].hook # 0 /\ errand'[h].hook = channel'[b].hook
      BY <1>3, <1>4
    <3> QED
      BY <2>1, <3>1, <3>2 DEF ErrandKnows
  <2>2. CASE g # h
    BY <2>2, <1>3, <1>5 DEF ErrandKnows, BotsInv, Managing
  <2> QED
    BY <2>1, <2>2
<1>12. LastContactWins'
  BY <1>3 DEF LastContactWins, BotsInv
<1> QED
  BY <1>1, <1>8, <1>9, <1>10, <1>11, <1>12, ManageType DEF BotsInv

\* A text that begins leaves the bots as they are.
LEMMA TextKeeps ==
  ASSUME BotsTerms, BotsInv, NEW h \in Calls, NEW b \in Bots,
         \/ \E c \in Chats, p \in Phones \cup {NoPhone} : Update(h, b, c, p)
         \/ \E p \in Phones : Send(h, b, p)
  PROVE  BotsInv'
<1>1. BotsTypeOK /\ errand \in [Calls -> Errands] /\ channel \in [Bots -> Channels]
      /\ gone \in [Bots -> SUBSET Chats]
  BY BotsTypes DEF BotsInv
<1>2. NoErrand \in Errands
  BY IdleType
<1> HIDE DEF NoErrand
<1>3. \E e \in Errands : /\ errand' = [errand EXCEPT ![h] = e] /\ errand[h].at = "idle"
                         /\ e.op \in {"update", "send"} /\ e.at \in Steps[e.op]
                         /\ gone' \in [Bots -> SUBSET Chats]
  <2>1. ASSUME NEW c \in Chats, NEW p \in Phones \cup {NoPhone}, Update(h, b, c, p)
        PROVE  <1>3!:
    <3> DEFINE at == IF p = NoPhone THEN "open" ELSE "contact"
               e == [NoErrand EXCEPT !.at = at, !.op = "update", !.bot = b, !.chat = c, !.phone = p]
    <3>1. e \in Errands /\ e.at = at /\ e.op = "update"
      BY <1>2 DEF Errands
    <3>2. e.at \in Steps[e.op]
      BY <3>1 DEF Steps
    <3>3. errand' = [errand EXCEPT ![h] = e] /\ errand[h].at = "idle"
      BY <2>1 DEF Update
    <3>4. gone' \in [Bots -> SUBSET Chats]
      BY <1>1, <2>1 DEF Update
    <3> HIDE DEF e
    <3> QED
      BY <3>1, <3>2, <3>3, <3>4
  <2>2. ASSUME NEW p \in Phones, Send(h, b, p)
        PROVE  <1>3!:
    <3>1. PICK c \in Holders(b, p) :
             errand' = [errand EXCEPT ![h] = [NoErrand EXCEPT !.at = "send", !.op = "send", !.bot = b,
                                                          !.chat = c, !.token = channel[b].token]]
      BY <2>2 DEF Send
    <3> DEFINE e == [NoErrand EXCEPT !.at = "send", !.op = "send", !.bot = b, !.chat = c,
                                 !.token = channel[b].token]
    <3>2. e \in Errands /\ e.at = "send" /\ e.op = "send"
      <4>1. c \in Chats /\ channel[b].token \in 0..MaxTokens
        BY <1>1 DEF Holders, Channels
      <4> QED
        BY <4>1, <1>2 DEF Errands
    <3>3. e.at \in Steps[e.op]
      BY <3>2 DEF Steps
    <3>4. errand[h].at = "idle" /\ gone' = gone
      BY <2>2 DEF Send
    <3> HIDE DEF e
    <3> QED
      BY <3>1, <3>2, <3>3, <3>4, <1>1 DEF e
  <2> QED
    BY <2>1, <2>2
<1>4. UNCHANGED <<channel, link, webhook, valid, hooks, upset, last>>
  BY DEF Update, Send
<1>5. PICK e \in Errands : /\ errand' = [errand EXCEPT ![h] = e] /\ errand[h].at = "idle"
                           /\ e.op \in {"update", "send"} /\ e.at \in Steps[e.op]
                           /\ gone' \in [Bots -> SUBSET Chats]
  BY <1>3
<1>6. errand' \in [Calls -> Errands] /\ errand'[h] = e /\ \A g \in Calls : g # h => errand'[g] = errand[g]
  BY <1>1, <1>5
<1>7. BotsTypeOK'
  BY <1>1, <1>4, <1>5, <1>6 DEF BotsTypeOK
<1>8. \A g \in Calls, c \in Bots :
        /\ Managing(g, c)' <=> Managing(g, c)
        /\ Managing(g, c) => errand'[g] = errand[g]
  BY <1>5, <1>6 DEF Managing
<1>9. AloneIsAlone' /\ CalmIsAlone' /\ LastContactWins'
  BY <1>4, <1>8 DEF AloneIsAlone, CalmIsAlone, LastContactWins, BotsInv
<1>10. CalmIsHeard'
  BY <1>4, <1>8 DEF CalmIsHeard, BotsInv, Unheard
<1>11. \A g \in Calls : ErrandKnows(g)'
  <2> SUFFICES ASSUME NEW g \in Calls PROVE ErrandKnows(g)'
    OBVIOUS
  <2>1. CASE g = h
    BY <2>1, <1>5, <1>6 DEF ErrandKnows, Managing
  <2>2. CASE g # h
    BY <2>2, <1>4, <1>6 DEF ErrandKnows, BotsInv, Managing
  <2> QED
    BY <2>1, <2>2
<1> QED
  BY <1>7, <1>9, <1>10, <1>11 DEF BotsInv

\* Nor does the world do more than it says to: another tool and a restart upset the
\* bots, and the calls on them know.
LEMMA WorldKeeps ==
  ASSUME BotsTerms, BotsInv,
         \/ \E b \in Bots : Revoke(b)
         \/ \E b \in Bots : Hijack(b)
         \/ \E b \in Bots, c \in Chats : BlockBot(b, c)
         \/ Restart
         \/ UNCHANGED botVars
  PROVE  BotsInv'
<1>1. BotsTypeOK /\ errand \in [Calls -> Errands] /\ upset \in [Bots -> BOOLEAN]
      /\ webhook \in [Bots -> 0..Elsewhere] /\ valid \in [Bots -> 1..MaxTokens]
      /\ gone \in [Bots -> SUBSET Chats] /\ MaxHooks \in Nat /\ MaxTokens \in Nat
  BY DEF BotsInv, BotsTypeOK, BotsTerms
<1>2. CASE (\E b \in Bots : Revoke(b)) \/ (\E b \in Bots, c \in Chats : BlockBot(b, c))
           \/ UNCHANGED botVars
  <2>1. UNCHANGED <<channel, link, webhook, errand, hooks, upset, last>>
    BY <1>2 DEF Revoke, BlockBot, Disturbed, botVars
  <2>2. valid' \in [Bots -> 1..MaxTokens] /\ gone' \in [Bots -> SUBSET Chats]
    <3>1. CASE \E b \in Bots : Revoke(b)
      BY <3>1, <1>1 DEF Revoke, Disturbed
    <3>2. CASE \E b \in Bots, c \in Chats : BlockBot(b, c)
      BY <3>2, <1>1 DEF BlockBot
    <3> QED
      BY <3>1, <3>2, <1>2, <1>1 DEF botVars
  <2>3. BotsTypeOK'
    BY <1>1, <2>1, <2>2 DEF BotsTypeOK
  <2>4. AloneIsAlone' /\ CalmIsAlone' /\ LastContactWins' /\ CalmIsHeard'
    BY <2>1 DEF AloneIsAlone, CalmIsAlone, LastContactWins, CalmIsHeard, BotsInv, Managing, Unheard
  <2>5. \A g \in Calls : ErrandKnows(g)'
    BY <2>1 DEF ErrandKnows, BotsInv, Managing
  <2> QED
    BY <2>3, <2>4, <2>5 DEF BotsInv
<1>3. CASE \E b \in Bots : Hijack(b)
  <2>1. PICK b \in Bots : Hijack(b)
    BY <1>3
  <2>2. PICK o : o = {g \in Calls : Managing(g, b)}
    OBVIOUS
  <2>3. /\ errand' = [g \in Calls |-> IF g \in o THEN [errand[g] EXCEPT !.alone = FALSE] ELSE errand[g]]
        /\ webhook' = [webhook EXCEPT ![b] = Elsewhere] /\ upset' = [upset EXCEPT ![b] = TRUE]
        /\ UNCHANGED <<channel, link, valid, gone, hooks, last>>
    BY <2>1, <2>2 DEF Hijack, Disturbed
  <2>4. ASSUME NEW g \in Calls
        PROVE  /\ errand'[g].op = errand[g].op /\ errand'[g].at = errand[g].at
               /\ errand'[g].bot = errand[g].bot /\ errand'[g].hook = errand[g].hook
               /\ errand'[g].alone <=> errand[g].alone /\ g \notin o
               /\ errand'[g] \in Errands
    <3>1. errand[g] \in Errands /\ errand'[g] = IF g \in o THEN [errand[g] EXCEPT !.alone = FALSE] ELSE errand[g]
      BY <1>1, <2>3
    <3>2. CASE g \in o
      <4>1. PICK r \in Errands : r = errand[g]
        BY <3>1
      <4>2. PICK n : n = [r EXCEPT !.alone = FALSE]
        OBVIOUS
      <4>3. /\ n \in Errands /\ n.op = r.op /\ n.at = r.at /\ n.bot = r.bot
            /\ n.hook = r.hook /\ n.alone = FALSE
        BY <4>2 DEF Errands
      <4>4. errand'[g] = n
        BY <3>1, <3>2, <4>1, <4>2
      <4> QED
        BY <3>2, <4>1, <4>3, <4>4
    <3>3. CASE g \notin o
      BY <3>1, <3>3
    <3> QED
      BY <3>2, <3>3
  <2>5. BotsTypeOK'
    <3>1. errand' \in [Calls -> Errands]
      BY <2>3, <2>4
    <3>2. webhook' \in [Bots -> 0..Elsewhere] /\ upset' \in [Bots -> BOOLEAN]
      BY <2>3, <1>1 DEF Elsewhere
    <3> QED
      BY <2>3, <3>1, <3>2, <1>1 DEF BotsTypeOK
  <2>6. \A g \in Calls, c \in Bots : Managing(g, c)' <=> Managing(g, c)
    BY <2>4 DEF Managing
  <2>7. AloneIsAlone'
    BY <2>4, <2>6 DEF AloneIsAlone, BotsInv
  <2>8. CalmIsAlone'
    <3> SUFFICES ASSUME NEW g \in Calls, NEW c \in Bots, Managing(g, c)', ~ upset'[c]
                 PROVE  errand'[g].alone
      BY DEF CalmIsAlone
    <3>1. c # b /\ ~ upset[c]
      BY <2>3, <1>1
    <3>2. Managing(g, c) /\ errand[g].alone
      BY <3>1, <2>6 DEF CalmIsAlone, BotsInv
    <3>3. g \notin o
      BY <3>1, <3>2, <2>2 DEF Managing
    <3> QED
      BY <3>2, <3>3, <2>4
  <2>9. CalmIsHeard'
    <3> SUFFICES ASSUME NEW c \in Bots, channel'[c].hook # 0, ~ upset'[c],
                        \A g \in Calls : Managing(g, c)' => ~ Unheard(g)'
                 PROVE  webhook'[c] = channel'[c].hook
      BY DEF CalmIsHeard
    <3>1. c # b /\ ~ upset[c]
      BY <2>3, <1>1
    <3>2. \A g \in Calls : Managing(g, c) => ~ Unheard(g)
      BY <2>4, <2>6 DEF Unheard
    <3> QED
      BY <3>1, <3>2, <2>3, <1>1 DEF CalmIsHeard, BotsInv
  <2>10. \A g \in Calls : ErrandKnows(g)'
    <3> SUFFICES ASSUME NEW g \in Calls PROVE ErrandKnows(g)'
      OBVIOUS
    <3>1. Managing(g, errand[g].bot) /\ g \notin o => errand[g].bot # b
      BY <2>2
    <3>2. errand[g].bot # b => webhook'[errand[g].bot] = webhook[errand[g].bot]
      BY <1>1, <2>3
    <3> QED
      BY <3>1, <3>2, <2>3, <2>4 DEF ErrandKnows, BotsInv, Managing
  <2>11. LastContactWins'
    BY <2>3 DEF LastContactWins, BotsInv
  <2> QED
    BY <2>5, <2>7, <2>8, <2>9, <2>10, <2>11 DEF BotsInv
<1>4. CASE Restart
  <2>1. /\ upset' = [b \in Bots |-> upset[b] \/ \E h \in Calls : Managing(h, b)]
        /\ errand' = [h \in Calls |-> NoErrand]
        /\ UNCHANGED <<channel, link, webhook, valid, gone, hooks, last>>
    BY <1>4 DEF Restart
  <2>2. BotsTypeOK'
    BY <2>1, <1>1, IdleType DEF BotsTypeOK
  <2>3. \A g \in Calls : errand'[g].at = "idle" /\ errand'[g].op = "none"
    BY <2>1 DEF NoErrand
  <2>4. \A g \in Calls, b \in Bots : ~ Managing(g, b)'
    BY <2>3 DEF Managing
  <2>5. AloneIsAlone' /\ CalmIsAlone'
    BY <2>4 DEF AloneIsAlone, CalmIsAlone
  <2>6. CalmIsHeard'
    <3> SUFFICES ASSUME NEW c \in Bots, channel'[c].hook # 0, ~ upset'[c]
                 PROVE  webhook'[c] = channel'[c].hook
      BY DEF CalmIsHeard
    <3>1. ~ upset[c] /\ \A g \in Calls : ~ Managing(g, c)
      BY <2>1
    <3> QED
      BY <3>1, <2>1 DEF CalmIsHeard, BotsInv
  <2>7. \A g \in Calls : ErrandKnows(g)'
    BY <2>3 DEF ErrandKnows, Steps, Managing
  <2>8. LastContactWins'
    BY <2>1 DEF LastContactWins, BotsInv
  <2> QED
    BY <2>2, <2>5, <2>6, <2>7, <2>8 DEF BotsInv
<1> QED
  BY <1>2, <1>3, <1>4

LEMMA BotsStart ==
  ASSUME BotsTerms, BotsInit
  PROVE  BotsInv
<1>1. NoErrand \in Errands /\ NoChannel \in Channels /\ NoLink \in Links /\ NoChannel.hook = 0
  BY IdleType, BlankRows
<1>2. /\ channel = [b \in Bots |-> NoChannel] /\ link = [b \in Bots |-> [c \in Chats |-> NoLink]]
      /\ webhook = [b \in Bots |-> 0] /\ valid = [b \in Bots |-> 1] /\ gone = [b \in Bots |-> {}]
      /\ errand = [h \in Calls |-> NoErrand] /\ hooks = 0 /\ upset = [b \in Bots |-> FALSE]
      /\ last = [b \in Bots |-> [p \in Phones |-> NoPhone]]
  BY DEF BotsInit
<1>3. BotsTypeOK
  <2>1. 0 \in 0..MaxHooks /\ 0 \in 0..Elsewhere /\ 1 \in 1..MaxTokens
    BY DEF BotsTerms, Elsewhere
  <2>2. link \in [Bots -> [Chats -> Links]] /\ channel \in [Bots -> Channels]
    BY <1>1, <1>2
  <2>3. errand \in [Calls -> Errands]
    BY <1>1, <1>2
  <2> HIDE DEF NoErrand, NoChannel, NoLink
  <2> QED
    BY <1>2, <2>1, <2>2, <2>3, BotsTypes
<1>4. \A h \in Calls : errand[h].at = "idle" /\ errand[h].op = "none"
  BY <1>2 DEF NoErrand
<1>5. AloneIsAlone /\ CalmIsAlone /\ CalmIsHeard
  BY <1>1, <1>2, <1>4 DEF AloneIsAlone, CalmIsAlone, CalmIsHeard, Managing
<1>6. LastContactWins
  BY <1>2 DEF LastContactWins, NoLink
<1>7. \A h \in Calls : ErrandKnows(h)
  BY <1>4 DEF ErrandKnows, Steps, Managing
<1> QED
  BY <1>3, <1>5, <1>6, <1>7 DEF BotsInv

LEMMA BotsStep ==
  ASSUME BotsTerms, BotsInv, BotsNext \/ UNCHANGED botVars
  PROVE  BotsInv'
<1>1. CASE UNCHANGED botVars
  BY <1>1, WorldKeeps
<1>2. CASE BotsNext
  <2>1. ASSUME NEW h \in Calls, InFlight(h) PROVE BotsInv'
    <3>1. BotsTypeOK /\ ErrandKnows(h)
      BY DEF BotsInv
    <3>2. \A g \in Calls : ErrandKnows(g)'
      BY <2>1, <3>1, OwnErrand, OthersErrands DEF BotsInv
    <3> QED
      BY <2>1, <3>1, <3>2, CallsType, CallsApart, CallsHeard, CallsVerify DEF BotsInv
  <2>2. ASSUME NEW h \in Calls, NEW b \in Bots,
               \/ \E z \in BotZones : Register(h, b, z)
               \/ Remove(h, b)
               \/ Rotate(h, b)
               \/ Verify(h, b)
        PROVE  BotsInv'
    <3>1. BotsTypeOK
      BY DEF BotsInv
    <3>2. PICK e \in Errands :
           /\ Manage(h, b, e)
           /\ e.op \in {"register", "remove", "rotate", "verify"} /\ e.at \in Steps[e.op]
           /\ e.at # "idle" /\ e.at \notin {"mark", "replace", "undo", "erase"}
           /\ e.op = "register" => e.at = "create"
           /\ e.at # "create" => e.hook = channel[b].hook /\ e.hook # 0
      BY <2>2, <3>1, <1>2, ManageStarts
    <3> QED
      BY <3>2, ManageKeeps
  <2> QED
    BY <1>2, <2>1, <2>2, TextKeeps, WorldKeeps, BotsActions DEF InFlight
<1> QED
  BY <1>1, <1>2

\* Whatever fails, overlaps, is cut by a restart or taken over by another tool, and however
\* many bots, chats and calls there are: the channel of a bot that nothing disturbed since
\* it was verified is the one Telegram calls (ChannelsAreHeard), and a chat speaks for a phone
\* only while it is the last that verified it (LastContactWins).
THEOREM BotsAlwaysSafe ==
  ASSUME BotsTerms
  PROVE  BotsSpec => []BotsSafe
<1>1. BotsInit => BotsInv
  BY BotsStart
<1>2. BotsInv /\ [BotsNext]_botVars => BotsInv'
  BY BotsStep
<1>3. BotsInv => BotsSafe
  BY DEF BotsInv, BotsSafe, ChannelsAreHeard, CalmIsHeard
<1> QED
  BY <1>1, <1>2, <1>3, PTL DEF BotsSpec

-----------------------------------------------------------------------------
(* Organization: the inductive invariant is OrgInv.                         *)

\* The kinds of the rows of the zones, and of what is in flight.
LEMMA RowKinds ==
  ASSUME OrgTypeOK, NEW z \in Zones
  PROVE  /\ zone[z] = Unborn \/ zone[z] = [state |-> "gone"] \/ Live(z)
         /\ Live(z) => /\ zone[z].parent \in Zones \cup {Root}
                       /\ zone[z].path \in Seq(Labels)
                       /\ zone[z] # Unborn
         /\ zone[z] = [state |-> "gone"] => ~ Live(z) /\ zone[z] # Unborn
         /\ zone[z] = Unborn => ~ Live(z)
<1>1. zone[z] \in Records
  BY DEF OrgTypeOK
<1>2. Unborn.state = "unborn" /\ [state |-> "gone"].state = "gone"
  BY DEF Unborn
<1> QED
  BY <1>1, <1>2 DEF Records, Live

LEMMA IntentKinds ==
  ASSUME OrgTypeOK, NEW h \in Tasks
  PROVE  /\ work[h].at = "insert" =>
              work[h].parent \in Zones \cup {Root} /\ work[h].path \in Seq(Labels)
         /\ work[h].at = "erase" => work[h].zone \in Zones
         /\ work[h].at = "assign" => work[h].zone \in Zones /\ work[h].coordinator \in Heads
         /\ work[h].at \in {"delete", "fill"} =>
              /\ work[h].clients \in SUBSET Clients /\ work[h].rows \in SUBSET Clients
              /\ work[h].alone \in BOOLEAN
              /\ work[h] \in [at : {"delete", "fill"}, clients : SUBSET Clients,
                              rows : SUBSET Clients, alone : BOOLEAN]
         /\ work[h].at \in {"idle", "insert", "erase", "assign", "delete", "fill"}
<1>1. work[h] \in Intents
  BY DEF OrgTypeOK
<1> QED
  BY <1>1 DEF Intents, Resting

\* What is in flight after a step that only h goes on with.
LEMMA Continued ==
  ASSUME OrgTypeOK, NEW h \in Tasks, NEW record \in Intents, Continue(h, record)
  PROVE  /\ work' \in [Tasks -> Intents] /\ work'[h] = record
         /\ \A g \in Tasks : g # h => work'[g] = work[g]
  BY DEF OrgTypeOK, Continue

\* The operations of the organization, each with its inputs.
LEMMA OrgActions ==
  ASSUME OrgNext
  PROVE  \/ \E h \in Tasks :
              \/ InsertZone(h) \/ EraseZone(h) \/ Assign(h) \/ DeleteRows(h) \/ Fill(h)
              \/ \E p \in Zones \cup {Root}, l \in Labels : ReadParent(h, p, l)
              \/ \E z \in Zones : CountBelow(h, z)
              \/ \E z \in Zones, c \in Heads : ReadZone(h, z, c)
              \/ \E clients \in SUBSET Clients : Replace(h, clients)
         \/ \E z \in Zones, l \in Labels : Rename(z, l)
<1>1. CASE ZonesNext
  <2>1. ASSUME NEW h \in Tasks,
               \/ InsertZone(h) \/ EraseZone(h) \/ Assign(h)
               \/ \E p \in Zones \cup {Root}, l \in Labels : ReadParent(h, p, l)
               \/ \E z \in Zones : CountBelow(h, z) \/ \E c \in Heads : ReadZone(h, z, c)
        PROVE  \/ InsertZone(h) \/ EraseZone(h) \/ Assign(h)
               \/ \E p \in Zones \cup {Root}, l \in Labels : ReadParent(h, p, l)
               \/ \E z \in Zones : CountBelow(h, z)
               \/ \E z \in Zones, c \in Heads : ReadZone(h, z, c)
    BY <2>1, Zenon
  <2> QED
    BY <1>1, <2>1, ZenonT(30) DEF ZonesNext
<1>2. CASE PortfolioNext
  BY <1>2, ZenonT(30) DEF PortfolioNext
<1> QED
  BY <1>1, <1>2 DEF OrgNext
-----------------------------------------------------------------------------
\* One path below another, label by label.
LEMMA WithinLabels ==
  ASSUME NEW path \in Seq(Labels), NEW scope \in Seq(Labels)
  PROVE  Within(path, scope) <=>
           (Len(scope) <= Len(path) /\ \A i \in 1..Len(scope) : path[i] = scope[i])
<1>1. CASE Len(scope) <= Len(path)
  <2>1. \A i \in 1..Len(scope) : path[i] \in Labels
    BY <1>1
  <2>2. PICK start : start = SubSeq(path, 1, Len(scope))
    OBVIOUS
  <2>3. /\ start \in Seq(Labels)
        /\ Len(start) = IF 1 <= Len(scope) THEN Len(scope) - 1 + 1 ELSE 0
        /\ \A i \in 1..(Len(scope) - 1 + 1) : start[i] = path[1 + i - 1]
    <3>1. Len(scope) \in Int /\ 1 \in Int
      OBVIOUS
    <3> QED
      BY <2>1, <2>2, <3>1, SubSeqProperties
  <2>4. Len(start) = Len(scope) /\ \A i \in 1..Len(scope) : start[i] = path[i]
    BY <2>3
  <2>5. start = scope <=> \A i \in 1..Len(scope) : path[i] = scope[i]
    <3>1. ASSUME \A i \in 1..Len(scope) : path[i] = scope[i]
          PROVE  start = scope
      <4>1. \A i \in 1..Len(scope) : start[i] = scope[i]
        BY <2>4, <3>1
      <4> QED
        BY <2>3, <2>4, <4>1, SeqEqual
    <3> QED
      BY <2>4, <3>1
  <2> QED
    BY <1>1, <2>2, <2>5 DEF Within
<1>2. CASE ~ (Len(scope) <= Len(path))
  BY <1>2 DEF Within
<1> QED
  BY <1>1, <1>2

LEMMA WithinFacts ==
  ASSUME NEW p \in Seq(Labels), NEW q \in Seq(Labels), NEW r \in Seq(Labels)
  PROVE  /\ Within(p, p)
         /\ Within(p, q) /\ Within(q, r) => Within(p, r)
         /\ Within(p, q) /\ Len(p) = Len(q) => p = q
         /\ Within(p, q) /\ Within(p, r) /\ Len(r) <= Len(q) => Within(q, r)
<1>1. Within(p, p)
  BY WithinLabels
<1>2. ASSUME Within(p, q), Within(q, r)
      PROVE  Within(p, r)
  BY <1>2, WithinLabels
<1>3. ASSUME Within(p, q), Len(p) = Len(q)
      PROVE  p = q
  <2>1. \A i \in 1..Len(q) : p[i] = q[i]
    BY <1>3, WithinLabels
  <2> QED
    BY <1>3, <2>1, SeqEqual
<1>4. ASSUME Within(p, q), Within(p, r), Len(r) <= Len(q)
      PROVE  Within(q, r)
  BY <1>4, WithinLabels
<1> QED
  BY <1>1, <1>2, <1>3, <1>4

\* The path of a new zone follows that of its parent.
LEMMA PathAppended ==
  ASSUME NEW p \in Seq(Labels), NEW l \in Labels
  PROVE  /\ Append(p, l) \in Seq(Labels) /\ Len(Append(p, l)) = Len(p) + 1
         /\ Within(Append(p, l), p)
<1>1. PICK q : q = Append(p, l)
  OBVIOUS
<1>2. /\ q \in Seq(Labels) /\ Len(q) = Len(p) + 1 /\ Len(p) \in Nat
      /\ \A i \in 1..Len(p) : q[i] = p[i]
  BY <1>1
<1>3. Len(p) <= Len(q)
  BY <1>2
<1>4. Within(q, p)
  BY <1>2, <1>3, WithinLabels
<1> QED
  BY <1>1, <1>2, <1>4

\* What each operation does to the zones and to what is in flight keeps its type.
LEMMA OrgTypeKeeps ==
  ASSUME OrgInv, OrgNext
  PROVE  OrgTypeOK'
<1>1. OrgTypeOK
  BY DEF OrgInv
<1>2. Resting \in Intents
  BY DEF Intents
<1>3. /\ zone \in [Zones -> Records] /\ work \in [Tasks -> Intents]
      /\ assigned \subseteq Zones \X Heads /\ raced \subseteq Zones
      /\ portfolio \subseteq Clients /\ asked \subseteq Clients /\ burst \subseteq Clients
  BY <1>1 DEF OrgTypeOK
<1>4. ASSUME NEW h \in Tasks, InsertZone(h)
      PROVE  OrgTypeOK'
  <2>1. PICK z \in Zones :
          /\ work[h].at = "insert" /\ Continue(h, Resting)
          /\ zone' = [zone EXCEPT ![z] = [state |-> "live", parent |-> work[h].parent,
                                          path |-> work[h].path]]
          /\ raced' \in {raced, raced \cup {z}}
          /\ UNCHANGED <<assigned, portfolio, asked, burst>>
    BY <1>4 DEF InsertZone
  <2>2. work[h].parent \in Zones \cup {Root} /\ work[h].path \in Seq(Labels)
    BY <1>1, <2>1, IntentKinds
  <2>3. [state |-> "live", parent |-> work[h].parent, path |-> work[h].path] \in Records
    BY <2>2 DEF Records
  <2>4. zone' \in [Zones -> Records]
    BY <1>3, <2>1, <2>3
  <2>5. work' \in [Tasks -> Intents]
    BY <1>1, <1>2, <2>1, Continued
  <2> QED
    BY <1>3, <2>1, <2>4, <2>5 DEF OrgTypeOK
<1>5. ASSUME NEW h \in Tasks, EraseZone(h)
      PROVE  OrgTypeOK'
  <2>1. /\ work[h].at = "erase" /\ Continue(h, Resting)
        /\ zone' = [zone EXCEPT ![work[h].zone] = [state |-> "gone"]]
        /\ assigned' \subseteq assigned
        /\ UNCHANGED <<portfolio, raced, asked, burst>>
    BY <1>5 DEF EraseZone
  <2>2. [state |-> "gone"] \in Records
    BY DEF Records
  <2>3. zone' \in [Zones -> Records]
    BY <1>3, <2>1, <2>2
  <2>4. work' \in [Tasks -> Intents]
    BY <1>1, <1>2, <2>1, Continued
  <2> QED
    BY <1>3, <2>1, <2>3, <2>4 DEF OrgTypeOK
<1>6. ASSUME NEW h \in Tasks, Assign(h)
      PROVE  OrgTypeOK'
  <2>1. /\ work[h].at = "assign" /\ Continue(h, Resting)
        /\ assigned' = assigned \cup {<<work[h].zone, work[h].coordinator>>}
        /\ raced' \in {raced, raced \cup {work[h].zone}}
        /\ UNCHANGED <<zone, portfolio, asked, burst>>
    BY <1>6 DEF Assign
  <2>2. work[h].zone \in Zones /\ work[h].coordinator \in Heads
    BY <1>1, <2>1, IntentKinds
  <2>3. work' \in [Tasks -> Intents]
    BY <1>1, <1>2, <2>1, Continued
  <2>4. assigned' \subseteq Zones \X Heads /\ raced' \subseteq Zones
    BY <1>3, <2>1, <2>2
  <2> QED
    BY <1>3, <2>1, <2>3, <2>4 DEF OrgTypeOK
<1>7. ASSUME NEW h \in Tasks, DeleteRows(h)
      PROVE  OrgTypeOK'
  <2>1. /\ work[h].at = "delete"
        /\ Continue(h, [work[h] EXCEPT !.at = "fill", !.rows = @ \cap portfolio])
        /\ UNCHANGED <<zone, assigned, portfolio, raced, asked, burst>>
    BY <1>7 DEF DeleteRows
  <2>2. work[h] \in [at : {"delete", "fill"}, clients : SUBSET Clients,
                     rows : SUBSET Clients, alone : BOOLEAN]
    BY <1>1, <2>1, IntentKinds
  <2>3. [work[h] EXCEPT !.at = "fill", !.rows = @ \cap portfolio]
          \in [at : {"delete", "fill"}, clients : SUBSET Clients,
               rows : SUBSET Clients, alone : BOOLEAN]
    BY <2>2
  <2>4. [work[h] EXCEPT !.at = "fill", !.rows = @ \cap portfolio] \in Intents
    BY <2>3 DEF Intents
  <2>5. work' \in [Tasks -> Intents]
    BY <1>1, <2>1, <2>4, Continued
  <2> QED
    BY <1>3, <2>1, <2>5 DEF OrgTypeOK
<1>8. ASSUME NEW h \in Tasks, Fill(h)
      PROVE  OrgTypeOK'
  <2>1. /\ work[h].at = "fill" /\ Continue(h, Resting)
        /\ portfolio' \subseteq portfolio \cup work[h].clients
        /\ asked' \in {work[h].clients, asked} /\ burst' \in {asked', burst}
        /\ UNCHANGED <<zone, assigned, raced>>
    BY <1>8 DEF Fill
  <2>2. work[h].clients \in SUBSET Clients
    BY <1>1, <2>1, IntentKinds
  <2>3. work' \in [Tasks -> Intents]
    BY <1>1, <1>2, <2>1, Continued
  <2>4. /\ portfolio' \subseteq Clients /\ asked' \subseteq Clients
        /\ burst' \subseteq Clients
    BY <1>3, <2>1, <2>2
  <2> QED
    BY <1>3, <2>1, <2>3, <2>4 DEF OrgTypeOK
<1>9. ASSUME NEW h \in Tasks, NEW p \in Zones \cup {Root}, NEW l \in Labels,
             ReadParent(h, p, l)
      PROVE  OrgTypeOK'
  <2>1. /\ Continue(h, [at |-> "insert", parent |-> p, path |-> Append(PathBelow(p), l)])
        /\ p # Root => Live(p)
        /\ UNCHANGED <<zone, assigned, portfolio, raced, asked, burst>>
    BY <1>9 DEF ReadParent
  <2>2. PathBelow(p) \in Seq(Labels)
    BY <1>1, <2>1, RowKinds DEF PathBelow
  <2>3. Append(PathBelow(p), l) \in Seq(Labels)
    BY <2>2, PathAppended
  <2>4. [at |-> "insert", parent |-> p, path |-> Append(PathBelow(p), l)] \in Intents
    BY <2>3 DEF Intents
  <2>5. work' \in [Tasks -> Intents]
    BY <1>1, <2>1, <2>4, Continued
  <2> QED
    BY <1>3, <2>1, <2>5 DEF OrgTypeOK
<1>10. ASSUME NEW h \in Tasks, NEW z \in Zones, CountBelow(h, z)
       PROVE  OrgTypeOK'
  <2>1. /\ Continue(h, [at |-> "erase", zone |-> z])
        /\ UNCHANGED <<zone, assigned, portfolio, raced, asked, burst>>
    BY <1>10 DEF CountBelow
  <2>2. [at |-> "erase", zone |-> z] \in Intents
    BY DEF Intents
  <2>3. work' \in [Tasks -> Intents]
    BY <1>1, <2>1, <2>2, Continued
  <2> QED
    BY <1>3, <2>1, <2>3 DEF OrgTypeOK
<1>11. ASSUME NEW h \in Tasks, NEW z \in Zones, NEW c \in Heads, ReadZone(h, z, c)
       PROVE  OrgTypeOK'
  <2>1. /\ Continue(h, [at |-> "assign", zone |-> z, coordinator |-> c])
        /\ UNCHANGED <<zone, assigned, portfolio, raced, asked, burst>>
    BY <1>11 DEF ReadZone
  <2>2. [at |-> "assign", zone |-> z, coordinator |-> c] \in Intents
    BY DEF Intents
  <2>3. work' \in [Tasks -> Intents]
    BY <1>1, <2>1, <2>2, Continued
  <2> QED
    BY <1>3, <2>1, <2>3 DEF OrgTypeOK
<1>12. ASSUME NEW h \in Tasks, NEW clients \in SUBSET Clients, Replace(h, clients)
       PROVE  OrgTypeOK'
  <2>1. /\ work' = [g \in Tasks |->
                      IF g = h THEN [at |-> "delete", clients |-> clients,
                                     rows |-> portfolio, alone |-> Replacing = {}]
                      ELSE IF g \in Replacing THEN [work[g] EXCEPT !.alone = FALSE]
                      ELSE work[g]]
        /\ burst' \subseteq clients \cup portfolio \cup burst
        /\ UNCHANGED <<zone, assigned, portfolio, raced, asked>>
    BY <1>12 DEF Replace
  <2>2. [at |-> "delete", clients |-> clients, rows |-> portfolio, alone |-> Replacing = {}]
          \in Intents
    BY <1>3 DEF Intents
  <2>3. \A g \in Replacing : [work[g] EXCEPT !.alone = FALSE] \in Intents
    <3>1. ASSUME NEW g \in Replacing
          PROVE  [work[g] EXCEPT !.alone = FALSE] \in Intents
      <4>1. work[g] \in [at : {"delete", "fill"}, clients : SUBSET Clients,
                         rows : SUBSET Clients, alone : BOOLEAN]
        BY <1>1, <3>1, IntentKinds DEF Replacing
      <4>2. [work[g] EXCEPT !.alone = FALSE]
              \in [at : {"delete", "fill"}, clients : SUBSET Clients,
                   rows : SUBSET Clients, alone : BOOLEAN]
        BY <4>1
      <4> QED
        BY <4>2 DEF Intents
    <3> QED
      BY <3>1
  <2>4. work' \in [Tasks -> Intents]
    BY <1>3, <2>1, <2>2, <2>3
  <2> QED
    BY <1>3, <2>1, <2>4 DEF OrgTypeOK
<1>13. ASSUME NEW z \in Zones, NEW l \in Labels, Rename(z, l)
       PROVE  OrgTypeOK'
  BY <1>3, <1>13 DEF Rename, OrgTypeOK
<1> QED
  BY <1>4, <1>5, <1>6, <1>7, <1>8, <1>9, <1>10, <1>11, <1>12, <1>13, OrgActions

\* An id is never used again, and a zone is what it was until it is removed.
LEMMA ZonesKept ==
  ASSUME OrgInv, OrgNext, NEW z \in Zones
  PROVE  /\ zone[z] # Unborn => zone'[z] # Unborn
         /\ zone[z] # Unborn /\ Live(z)' => Live(z) /\ zone'[z] = zone[z]
<1>1. OrgTypeOK
  BY DEF OrgInv
<1>2. [state |-> "gone"] # Unborn /\ [state |-> "gone"].state = "gone"
  BY DEF Unborn
<1>3. CASE zone' = zone
  BY <1>3 DEF Live
<1>4. ASSUME NEW h \in Tasks, InsertZone(h)
      PROVE  /\ zone[z] # Unborn => zone'[z] # Unborn
             /\ zone[z] # Unborn /\ Live(z)' => Live(z) /\ zone'[z] = zone[z]
  <2>1. PICK n \in Zones :
          /\ zone[n] = Unborn
          /\ zone' = [zone EXCEPT ![n] = [state |-> "live", parent |-> work[h].parent,
                                          path |-> work[h].path]]
    BY <1>4 DEF InsertZone
  <2>2. zone[z] # Unborn => zone'[z] = zone[z]
    BY <1>1, <2>1 DEF OrgTypeOK
  <2> QED
    BY <2>2 DEF Live
<1>5. ASSUME NEW h \in Tasks, EraseZone(h)
      PROVE  /\ zone[z] # Unborn => zone'[z] # Unborn
             /\ zone[z] # Unborn /\ Live(z)' => Live(z) /\ zone'[z] = zone[z]
  <2>1. zone' = [zone EXCEPT ![work[h].zone] = [state |-> "gone"]]
    BY <1>5 DEF EraseZone
  <2>2. zone'[z] \in {zone[z], [state |-> "gone"]}
    BY <1>1, <2>1 DEF OrgTypeOK
  <2> QED
    BY <1>2, <2>2 DEF Live
<1>6. ASSUME \A h \in Tasks : ~ InsertZone(h) /\ ~ EraseZone(h)
      PROVE  zone' = zone
  BY <1>6, OrgActions
     DEF Assign, DeleteRows, Fill, ReadParent, CountBelow, ReadZone, Replace, Rename
<1> QED
  BY <1>3, <1>4, <1>5, <1>6

\* What a request goes on with is what it was, nothing, or what it has just read.
LEMMA IntentsKept ==
  ASSUME OrgInv, OrgNext, NEW g \in Tasks
  PROVE  \/ work'[g] = work[g] \/ work'[g] = Resting
         \/ \E p \in Zones \cup {Root}, l \in Labels : ReadParent(g, p, l)
         \/ \E z \in Zones : CountBelow(g, z)
         \/ \E z \in Zones, c \in Heads : ReadZone(g, z, c)
         \/ work'[g].at \in {"delete", "fill"}
<1>1. OrgTypeOK /\ work \in [Tasks -> Intents]
  BY DEF OrgInv, OrgTypeOK
<1>2. ASSUME NEW h \in Tasks, InsertZone(h) \/ EraseZone(h) \/ Assign(h) \/ Fill(h)
      PROVE  work'[g] = work[g] \/ work'[g] = Resting
  <2>1. work' = [work EXCEPT ![h] = Resting]
    BY <1>2 DEF InsertZone, EraseZone, Assign, Fill, Continue
  <2> QED
    BY <1>1, <2>1
<1>3. ASSUME NEW h \in Tasks, DeleteRows(h)
      PROVE  work'[g] = work[g] \/ work'[g].at \in {"delete", "fill"}
  <2>1. work' = [work EXCEPT ![h] = [work[h] EXCEPT !.at = "fill",
                                                    !.rows = @ \cap portfolio]]
        /\ work[h].at = "delete"
    BY <1>3 DEF DeleteRows, Continue
  <2>2. [work[h] EXCEPT !.at = "fill", !.rows = @ \cap portfolio].at = "fill"
    <3>1. work[h] \in [at : {"delete", "fill"}, clients : SUBSET Clients,
                       rows : SUBSET Clients, alone : BOOLEAN]
      BY <1>1, <2>1, IntentKinds
    <3> QED
      BY <3>1
  <2> QED
    BY <1>1, <2>1, <2>2
<1>4. ASSUME NEW h \in Tasks, NEW clients \in SUBSET Clients, Replace(h, clients)
      PROVE  work'[g] = work[g] \/ work'[g].at \in {"delete", "fill"}
  <2>1. /\ g = h => work'[g].at = "delete"
        /\ g # h /\ g \in Replacing => work'[g] = [work[g] EXCEPT !.alone = FALSE]
        /\ g # h /\ g \notin Replacing => work'[g] = work[g]
    BY <1>4 DEF Replace
  <2>2. ASSUME g \in Replacing
        PROVE  [work[g] EXCEPT !.alone = FALSE].at \in {"delete", "fill"}
    <3>1. work[g] \in [at : {"delete", "fill"}, clients : SUBSET Clients,
                       rows : SUBSET Clients, alone : BOOLEAN]
      BY <1>1, <2>2, IntentKinds DEF Replacing
    <3> QED
      BY <3>1
  <2> QED
    BY <2>1, <2>2
<1>5. ASSUME NEW h \in Tasks, NEW p \in Zones \cup {Root}, NEW l \in Labels,
             ReadParent(h, p, l)
      PROVE  work'[g] = work[g] \/ ReadParent(g, p, l)
  BY <1>1, <1>5 DEF ReadParent, Continue
<1>6. ASSUME NEW h \in Tasks, NEW z \in Zones, CountBelow(h, z)
      PROVE  work'[g] = work[g] \/ CountBelow(g, z)
  BY <1>1, <1>6 DEF CountBelow, Continue
<1>7. ASSUME NEW h \in Tasks, NEW z \in Zones, NEW c \in Heads, ReadZone(h, z, c)
      PROVE  work'[g] = work[g] \/ ReadZone(g, z, c)
  BY <1>1, <1>7 DEF ReadZone, Continue
<1>8. ASSUME NEW z \in Zones, NEW l \in Labels, Rename(z, l)
      PROVE  work'[g] = work[g]
  BY <1>8 DEF Rename
<1> QED
  BY <1>2, <1>3, <1>4, <1>5, <1>6, <1>7, <1>8, OrgActions

\* The zones change when one is created or removed, and what raced is remembered.
LEMMA ZonesChange ==
  ASSUME OrgNext
  PROVE  /\ raced \subseteq raced'
         /\ \/ \E h \in Tasks : InsertZone(h) \/ EraseZone(h)
            \/ /\ zone' = zone
               /\ (assigned' = assigned \/ \E h \in Tasks : Assign(h))
<1>1. raced \subseteq raced'
  BY OrgActions
     DEF InsertZone, EraseZone, Assign, DeleteRows, Fill, ReadParent, CountBelow, ReadZone,
         Replace, Rename
<1>2. \/ \E h \in Tasks : InsertZone(h) \/ EraseZone(h)
      \/ /\ zone' = zone
         /\ (assigned' = assigned \/ \E h \in Tasks : Assign(h))
  BY OrgActions
     DEF Assign, DeleteRows, Fill, ReadParent, CountBelow, ReadZone, Replace, Rename
<1> QED
  BY <1>1, <1>2

\* A zone there is was there, or has just been created by who read its parent.
LEMMA ZonesOld ==
  ASSUME OrgInv, OrgNext, NEW z \in Zones, Live(z)'
  PROVE  \/ Live(z) /\ zone'[z] = zone[z]
         \/ \E h \in Tasks :
              /\ work[h].at = "insert" /\ zone[z] = Unborn
              /\ \A w \in Zones : w # z => zone'[w] = zone[w]
              /\ zone'[z].parent = work[h].parent /\ zone'[z].path = work[h].path
              /\ z \in raced' \/ work[h].parent = Root
                 \/ /\ Live(work[h].parent)
                    /\ \A g \in Tasks : work[g].at = "erase" =>
                                          work[g].zone # work[h].parent
              /\ work' = [work EXCEPT ![h] = Resting]
<1>1. CASE zone[z] # Unborn
  BY <1>1, ZonesKept
<1>2. CASE zone[z] = Unborn
  <2>1. OrgTypeOK /\ zone \in [Zones -> Records]
    BY DEF OrgInv, OrgTypeOK
  <2>2. ~ Live(z)
    BY <1>2, <2>1, RowKinds
  <2>3. \A h \in Tasks : ~ EraseZone(h)
    <3>1. ASSUME NEW h \in Tasks, EraseZone(h)
          PROVE  FALSE
      <4>1. zone'[z] \in {zone[z], [state |-> "gone"]}
        BY <2>1, <3>1 DEF EraseZone
      <4>2. [state |-> "gone"].state = "gone"
        OBVIOUS
      <4> QED
        BY <2>2, <4>1, <4>2 DEF Live
    <3> QED
      BY <3>1
  <2>4. PICK h \in Tasks : InsertZone(h)
    BY <2>2, <2>3, ZonesChange DEF Live
  <2>5. PICK n \in Zones :
          /\ work[h].at = "insert" /\ zone[n] = Unborn
          /\ zone' = [zone EXCEPT ![n] = [state |-> "live", parent |-> work[h].parent,
                                          path |-> work[h].path]]
          /\ raced' = IF \/ work[h].parent # Root /\ ~ Live(work[h].parent)
                         \/ \E g \in Tasks :
                              work[g].at = "erase" /\ work[g].zone = work[h].parent
                      THEN raced \cup {n} ELSE raced
          /\ work' = [work EXCEPT ![h] = Resting]
    BY <2>4 DEF InsertZone, Continue
  <2>6. n = z
    BY <2>1, <2>2, <2>5 DEF Live
  <2>7. /\ \A w \in Zones : w # z => zone'[w] = zone[w]
        /\ zone'[z] = [state |-> "live", parent |-> work[h].parent, path |-> work[h].path]
    BY <2>1, <2>5, <2>6
  <2>8. z \in raced' \/ work[h].parent = Root
        \/ /\ Live(work[h].parent)
           /\ \A g \in Tasks : work[g].at = "erase" => work[g].zone # work[h].parent
    BY <2>5, <2>6
  <2>9. zone'[z].parent = work[h].parent /\ zone'[z].path = work[h].path
    BY <2>7
  <2>10. work[h].at = "insert" /\ zone[z] = Unborn /\ work' = [work EXCEPT ![h] = Resting]
    BY <1>2, <2>5
  <2>11. \A w \in Zones : w # z => zone'[w] = zone[w]
    BY <2>7
  <2> QED
    BY <2>8, <2>9, <2>10, <2>11, Zenon
<1> QED
  BY <1>1, <1>2

\* A path that followed that of its parent still does.
LEMMA FollowsKept ==
  ASSUME OrgInv, OrgNext, NEW path, NEW parent \in Zones \cup {Root}, Follows(path, parent)
  PROVE  Follows(path, parent)'
<1>1. CASE parent = Root
  BY <1>1 DEF Follows
<1>2. CASE parent # Root
  <2>1. parent \in Zones
    BY <1>2
  <2>2. /\ Len(path) > 1 /\ zone[parent] # Unborn
        /\ Live(parent) => /\ Len(path) = Len(zone[parent].path) + 1
                           /\ Within(path, zone[parent].path)
    BY <1>2 DEF Follows
  <2>3. zone'[parent] # Unborn
    BY <2>1, <2>2, ZonesKept
  <2>4. ASSUME Live(parent)'
        PROVE  Live(parent) /\ zone'[parent] = zone[parent]
    BY <2>1, <2>2, <2>4, ZonesKept
  <2>5. Live(parent)' => /\ Len(path) = Len(zone'[parent].path) + 1
                         /\ Within(path, zone'[parent].path)
    BY <2>2, <2>4
  <2> QED
    BY <1>2, <2>2, <2>3, <2>5 DEF Follows, Unborn, Within
<1> QED
  BY <1>1, <1>2

LEMMA PathsFollowKeeps ==
  ASSUME OrgInv, OrgNext
  PROVE  PathsFollow'
<1>0. OrgTypeOK /\ PathsFollow
  BY DEF OrgInv
<1>1. ASSUME NEW z \in Zones, Live(z)'
      PROVE  Follows(zone[z].path, zone[z].parent)'
  <2>1. PICK path : path = zone'[z].path
    OBVIOUS
  <2>2. PICK parent : parent = zone'[z].parent
    OBVIOUS
  <2>3. parent \in Zones \cup {Root} /\ Follows(path, parent)
    <3>1. CASE Live(z) /\ zone'[z] = zone[z]
      BY <1>0, <2>1, <2>2, <3>1, RowKinds DEF PathsFollow
    <3>2. CASE \E h \in Tasks : /\ work[h].at = "insert" /\ parent = work[h].parent
                                /\ path = work[h].path
      BY <1>0, <3>2, IntentKinds DEF PathsFollow
    <3> QED
      BY <1>1, <2>1, <2>2, <3>1, <3>2, ZonesOld
  <2>4. Follows(path, parent)'
    BY <2>3, FollowsKept
  <2> QED
    BY <2>1, <2>2, <2>4
<1>2. ASSUME NEW h \in Tasks, work'[h].at = "insert"
      PROVE  Follows(work[h].path, work[h].parent)'
  <2>1. PICK path : path = work'[h].path
    OBVIOUS
  <2>2. PICK parent : parent = work'[h].parent
    OBVIOUS
  <2>3. CASE work'[h] = work[h]
    <3>1. parent \in Zones \cup {Root} /\ Follows(path, parent)
      BY <1>0, <1>2, <2>1, <2>2, <2>3, IntentKinds DEF PathsFollow
    <3>2. Follows(path, parent)'
      BY <3>1, FollowsKept
    <3> QED
      BY <2>1, <2>2, <3>2
  <2>4. ASSUME NEW p \in Zones \cup {Root}, NEW l \in Labels, ReadParent(h, p, l)
        PROVE  Follows(work[h].path, work[h].parent)'
    <3>1. /\ work' = [work EXCEPT ![h] = [at |-> "insert", parent |-> p,
                                          path |-> Append(PathBelow(p), l)]]
          /\ p # Root => Live(p)
      BY <2>4 DEF ReadParent, Continue
    <3>2. work'[h] = [at |-> "insert", parent |-> p, path |-> Append(PathBelow(p), l)]
      BY <1>0, <3>1 DEF OrgTypeOK
    <3>3. parent = p /\ path = Append(PathBelow(p), l)
      BY <2>1, <2>2, <3>2
    <3>4. PathBelow(p) \in Seq(Labels)
      BY <1>0, <3>1, RowKinds DEF PathBelow
    <3>5. /\ path \in Seq(Labels) /\ Len(path) = Len(PathBelow(p)) + 1
          /\ Within(path, PathBelow(p))
      BY <3>3, <3>4, PathAppended
    <3>6. Follows(path, p)
      <4>1. CASE p = Root
        BY <3>5, <4>1 DEF Follows, PathBelow
      <4>2. CASE p # Root
        <5>1. p \in Zones /\ Live(p) /\ PathBelow(p) = zone[p].path /\ zone[p] # Unborn
          BY <1>0, <3>1, <4>2, RowKinds DEF PathBelow
        <5>2. zone[p].path \in Seq(Labels) /\ Follows(zone[p].path, zone[p].parent)
          BY <1>0, <5>1, RowKinds DEF PathsFollow
        <5>3. PICK above : above = zone[p].path
          OBVIOUS
        <5>4. above \in Seq(Labels) /\ Len(above) \in Nat
          BY <5>2, <5>3
        <5>5. Len(above) = 1 \/ Len(above) > 1
          BY <5>2, <5>3 DEF Follows
        <5>6. Len(above) + 1 > 1
          <6>1. \A n \in Nat : n = 1 \/ n > 1 => n + 1 > 1
            OBVIOUS
          <6> QED
            BY <5>4, <5>5, <6>1, Zenon
        <5>7. Len(path) = Len(above) + 1 /\ Within(path, above)
          BY <3>5, <5>1, <5>3
        <5> QED
          <6>1. /\ Len(path) > 1 /\ zone[p] # Unborn /\ Len(path) = Len(zone[p].path) + 1
                /\ Within(path, zone[p].path)
            BY <5>1, <5>3, <5>6, <5>7
          <6> QED
            BY <4>2, <6>1 DEF Follows
      <4> QED
        BY <4>1, <4>2
    <3>7. Follows(path, parent)'
      BY <3>3, <3>6, FollowsKept
    <3> QED
      BY <2>1, <2>2, <3>7
  <2>5. \/ work'[h] = work[h]
        \/ \E p \in Zones \cup {Root}, l \in Labels : ReadParent(h, p, l)
    <3>1. \A z \in Zones : ~ CountBelow(h, z) /\ \A c \in Heads : ~ ReadZone(h, z, c)
      BY <1>0, <1>2 DEF CountBelow, ReadZone, Continue, OrgTypeOK
    <3>2. work'[h] # Resting
      BY <1>2 DEF Resting
    <3> QED
      BY <1>2, <3>1, <3>2, IntentsKept
  <2> QED
    BY <2>3, <2>4, <2>5
<1> QED
  BY <1>1, <1>2 DEF PathsFollow

\* A zone that was counted as childless has no zone below it by the parents either.
LEMMA ChildlessHasNone ==
  ASSUME OrgTypeOK, PathsFollow, NEW z \in Zones, Childless(z), NEW w \in Zones, Live(w)
  PROVE  zone[w].parent # z \/ z = Root
<1> SUFFICES ASSUME zone[w].parent = z, z # Root PROVE FALSE
  OBVIOUS
<1>1. Live(z) /\ (w # z => ~ Within(zone[w].path, zone[z].path))
  BY DEF Childless
<1>2. Follows(zone[w].path, z)
  BY DEF PathsFollow
<1>3. PICK path : path = zone[z].path
  OBVIOUS
<1>4. path \in Seq(Labels) /\ Len(path) \in Nat
  BY <1>1, <1>3, RowKinds
<1>5. Len(zone[w].path) = Len(path) + 1 /\ Within(zone[w].path, path)
  BY <1>1, <1>2, <1>3 DEF Follows
<1>6. Len(path) + 1 # Len(path)
  BY <1>4
<1>7. w # z
  BY <1>3, <1>5, <1>6
<1> QED
  BY <1>1, <1>3, <1>5, <1>7

LEMMA EraserKnowsKeeps ==
  ASSUME OrgTerms, OrgInv, OrgNext
  PROVE  EraserKnows'
<1>0. OrgTypeOK /\ PathsFollow /\ EraserKnows
  BY DEF OrgInv
<1> SUFFICES ASSUME NEW h \in Tasks, work'[h].at = "erase"
             PROVE  /\ zone'[work'[h].zone] # Unborn
                    /\ \A z \in Zones :
                         Live(z)' /\ zone'[z].parent = work'[h].zone => z \in raced'
  BY DEF EraserKnows, Unborn
<1>1. CASE work'[h] = work[h]
  <2>1. PICK e \in Zones : e = work[h].zone /\ work[h].at = "erase"
    BY <1>0, <1>1, IntentKinds
  <2>2. /\ zone[e] # Unborn
        /\ \A z \in Zones : Live(z) /\ zone[z].parent = e => z \in raced
    BY <1>0, <2>1 DEF EraserKnows
  <2>3. zone'[e] # Unborn
    BY <2>2, ZonesKept
  <2>4. ASSUME NEW z \in Zones, Live(z)', zone'[z].parent = e
        PROVE  z \in raced'
    <3>1. CASE Live(z) /\ zone'[z] = zone[z]
      BY <2>2, <2>4, <3>1, ZonesChange
    <3>2. ASSUME NEW g \in Tasks, zone'[z].parent = work[g].parent,
                 z \in raced' \/ work[g].parent = Root
                 \/ \A d \in Tasks : work[d].at = "erase" => work[d].zone # work[g].parent
          PROVE  z \in raced'
      BY <2>1, <2>4, <3>2 DEF OrgTerms
    <3> QED
      BY <2>4, <3>1, <3>2, ZonesOld
  <2> QED
    BY <1>1, <2>1, <2>3, <2>4
<1>2. ASSUME NEW e \in Zones, CountBelow(h, e)
      PROVE  /\ zone'[work'[h].zone] # Unborn
             /\ \A z \in Zones :
                  Live(z)' /\ zone'[z].parent = work'[h].zone => z \in raced'
  <2>1. /\ work'[h] = [at |-> "erase", zone |-> e] /\ Childless(e) /\ zone' = zone
    BY <1>0, <1>2 DEF CountBelow, Continue, OrgTypeOK
  <2>2. Live(e) /\ zone[e] # Unborn
    BY <1>0, <2>1, RowKinds DEF Childless
  <2>3. \A z \in Zones : Live(z) => zone[z].parent # e
    BY <1>0, <2>1, ChildlessHasNone DEF OrgTerms
  <2>4. \A z \in Zones : Live(z)' => Live(z)
    BY <2>1 DEF Live
  <2> QED
    BY <2>1, <2>2, <2>3, <2>4
<1>3. work'[h] = work[h] \/ \E e \in Zones : CountBelow(h, e)
  <2>1. \A p \in Zones \cup {Root}, l \in Labels : ~ ReadParent(h, p, l)
    BY <1>0 DEF ReadParent, Continue, OrgTypeOK
  <2>2. \A z \in Zones, c \in Heads : ~ ReadZone(h, z, c)
    BY <1>0 DEF ReadZone, Continue, OrgTypeOK
  <2>3. work'[h] # Resting
    BY DEF Resting
  <2> QED
    BY <2>1, <2>2, <2>3, IntentsKept
<1> QED
  BY <1>1, <1>2, <1>3

\* Who is removed in a step: the zone that was counted, with its assignments.
LEMMA ErasedOnly ==
  ASSUME OrgInv, OrgNext, NEW w \in Zones, Live(w), ~ Live(w)'
  PROVE  /\ \A a \in assigned' : a[1] # w
         /\ zone' # zone
         /\ \E h \in Tasks : work[h].at = "erase" /\ work[h].zone = w
<1>0. OrgTypeOK
  BY DEF OrgInv
<1>1. zone' # zone
  BY DEF Live
<1>2. ASSUME NEW h \in Tasks, InsertZone(h)
      PROVE  FALSE
  <2>1. PICK n \in Zones :
          /\ zone[n] = Unborn
          /\ zone' = [zone EXCEPT ![n] = [state |-> "live", parent |-> work[h].parent,
                                          path |-> work[h].path]]
    BY <1>2 DEF InsertZone
  <2>2. n # w
    BY <1>0, <2>1, RowKinds
  <2> QED
    BY <1>0, <2>1, <2>2 DEF OrgTypeOK, Live
<1>3. PICK h \in Tasks : EraseZone(h)
  BY <1>1, <1>2, ZonesChange
<1>4. /\ work[h].at = "erase" /\ zone' = [zone EXCEPT ![work[h].zone] = [state |-> "gone"]]
      /\ \A a \in assigned' : a[1] # work[h].zone
  BY <1>3 DEF EraseZone
<1>5. work[h].zone = w
  BY <1>0, <1>4 DEF OrgTypeOK, Live
<1> QED
  BY <1>1, <1>4, <1>5

LEMMA OrphansKeep ==
  ASSUME OrgTerms, OrgInv, OrgNext
  PROVE  NothingIsOrphaned'
<1>0. /\ OrgTypeOK /\ PathsFollow /\ EraserKnows /\ NothingIsOrphaned
      /\ raced \subseteq raced'
  BY ZonesChange DEF OrgInv
<1>1. ASSUME NEW z \in Zones, Live(z)', zone'[z].parent # Root, z \notin raced'
      PROVE  Live(zone[z].parent)'
  <2>1. PICK p : p = zone'[z].parent
    OBVIOUS
  <2>2. CASE Live(z) /\ zone'[z] = zone[z]
    <3>1. p \in Zones /\ Live(p)
      BY <1>0, <1>1, <2>1, <2>2, RowKinds DEF NothingIsOrphaned
    <3>2. Live(p)'
      <4>1. ASSUME NEW h \in Tasks, work[h].at = "erase", work[h].zone = p
            PROVE  FALSE
        BY <1>0, <1>1, <2>1, <2>2, <4>1 DEF EraserKnows
      <4> QED
        BY <3>1, <4>1, ErasedOnly
    <3> QED
      BY <2>1, <3>2 DEF Live
  <2>3. ASSUME NEW h \in Tasks, work[h].at = "insert", zone[z] = Unborn,
               \A w \in Zones : w # z => zone'[w] = zone[w], p = work[h].parent, Live(p)
        PROVE  Live(zone[z].parent)'
    <3>1. p \in Zones
      BY <1>0, <1>1, <2>1, <2>3, IntentKinds
    <3>2. p # z
      BY <1>0, <2>3, RowKinds
    <3>3. zone'[p] = zone[p]
      BY <2>3, <3>1, <3>2
    <3>4. Live(p)'
      BY <2>3, <3>3 DEF Live
    <3> QED
      BY <2>1, <3>4 DEF Live
  <2> QED
    BY <1>1, <2>1, <2>2, <2>3, ZonesOld
<1>2. ASSUME NEW a \in assigned', a[1] \notin raced'
      PROVE  Live(a[1])'
  <2>1. ASSUME a \in assigned
        PROVE  Live(a[1])'
    <3>1. a[1] \in Zones /\ Live(a[1])
      BY <1>0, <1>2, <2>1 DEF NothingIsOrphaned, OrgTypeOK
    <3> QED
      BY <1>2, <3>1, ErasedOnly
  <2>2. ASSUME a \notin assigned
        PROVE  Live(a[1])'
    <3>1. ASSUME NEW h \in Tasks, Assign(h)
          PROVE  Live(a[1])'
      <4>1. /\ assigned' = assigned \cup {<<work[h].zone, work[h].coordinator>>}
            /\ raced' = IF Live(work[h].zone) THEN raced ELSE raced \cup {work[h].zone}
            /\ zone' = zone
        BY <3>1 DEF Assign
      <4>2. a[1] = work[h].zone /\ Live(a[1])
        BY <1>2, <2>2, <4>1
      <4> QED
        BY <4>1, <4>2 DEF Live
    <3>2. ASSUME NEW h \in Tasks, InsertZone(h) \/ EraseZone(h)
          PROVE  FALSE
      BY <1>2, <2>2, <3>2 DEF InsertZone, EraseZone
    <3> QED
      BY <1>2, <2>2, <3>1, <3>2, ZonesChange
  <2> QED
    BY <2>1, <2>2
<1> QED
  BY <1>1, <1>2 DEF NothingIsOrphaned, Live

\* The steps of the zones leave those who replace clients alone.
LEMMA ReplacersRest ==
  ASSUME OrgInv, OrgNext,
         \A h \in Tasks : /\ ~ DeleteRows(h) /\ ~ Fill(h)
                          /\ \A clients \in SUBSET Clients : ~ Replace(h, clients)
  PROVE  /\ UNCHANGED <<portfolio, asked, burst>> /\ Replacing' = Replacing
         /\ \A g \in Replacing : work'[g] = work[g]
<1>0. OrgTypeOK
  BY DEF OrgInv
<1>1. ASSUME NEW h \in Tasks, NEW record, Continue(h, record), AtHand(h) \/ h \notin Replacing,
             record.at \notin {"delete", "fill"}
      PROVE  Replacing' = Replacing /\ \A g \in Replacing : work'[g] = work[g]
  <2>1. work'[h] = record /\ \A g \in Tasks : g # h => work'[g] = work[g]
    BY <1>0, <1>1 DEF Continue, OrgTypeOK
  <2>2. h \notin Replacing
    BY <1>1 DEF AtHand, Replacing
  <2> QED
    BY <1>1, <2>1, <2>2 DEF Replacing
<1>2. ASSUME NEW h \in Tasks, InsertZone(h) \/ EraseZone(h) \/ Assign(h)
      PROVE  UNCHANGED <<portfolio, asked, burst>> /\ Replacing' = Replacing
             /\ \A g \in Replacing : work'[g] = work[g]
  <2>1. /\ UNCHANGED <<portfolio, asked, burst>> /\ Continue(h, Resting)
        /\ work[h].at \in {"insert", "erase", "assign"}
    BY <1>2 DEF InsertZone, EraseZone, Assign
  <2>2. h \notin Replacing /\ Resting.at \notin {"delete", "fill"}
    BY <2>1 DEF Replacing, Resting
  <2> QED
    BY <1>1, <2>1, <2>2
<1>3. ASSUME NEW h \in Tasks, NEW p \in Zones \cup {Root}, NEW l \in Labels,
             ReadParent(h, p, l)
      PROVE  UNCHANGED <<portfolio, asked, burst>> /\ Replacing' = Replacing
             /\ \A g \in Replacing : work'[g] = work[g]
  <2> DEFINE record == [at |-> "insert", parent |-> p, path |-> Append(PathBelow(p), l)]
  <2>1. UNCHANGED <<portfolio, asked, burst>> /\ Continue(h, record) /\ AtHand(h)
    BY <1>3 DEF ReadParent
  <2>2. record.at \notin {"delete", "fill"}
    OBVIOUS
  <2> HIDE DEF record
  <2> QED
    BY <1>1, <2>1, <2>2
<1>4. ASSUME NEW h \in Tasks, NEW z \in Zones,
             CountBelow(h, z) \/ \E c \in Heads : ReadZone(h, z, c)
      PROVE  UNCHANGED <<portfolio, asked, burst>> /\ Replacing' = Replacing
             /\ \A g \in Replacing : work'[g] = work[g]
  <2>1. PICK record : /\ UNCHANGED <<portfolio, asked, burst>> /\ Continue(h, record)
                      /\ AtHand(h) /\ record.at \notin {"delete", "fill"}
    <3>1. CASE CountBelow(h, z)
      <4>1. [at |-> "erase", zone |-> z].at \notin {"delete", "fill"}
        OBVIOUS
      <4> QED
        BY <3>1, <4>1 DEF CountBelow
    <3>2. ASSUME NEW c \in Heads, ReadZone(h, z, c)
          PROVE  \E record : /\ UNCHANGED <<portfolio, asked, burst>> /\ Continue(h, record)
                             /\ AtHand(h) /\ record.at \notin {"delete", "fill"}
      <4>1. [at |-> "assign", zone |-> z, coordinator |-> c].at \notin {"delete", "fill"}
        OBVIOUS
      <4> QED
        BY <3>2, <4>1 DEF ReadZone
    <3> QED
      BY <1>4, <3>1, <3>2
  <2> QED
    BY <1>1, <2>1
<1>5. ASSUME NEW z \in Zones, NEW l \in Labels, Rename(z, l)
      PROVE  UNCHANGED <<portfolio, asked, burst>> /\ Replacing' = Replacing
             /\ \A g \in Replacing : work'[g] = work[g]
  BY <1>5 DEF Rename, Replacing
<1> QED
  BY <1>2, <1>3, <1>4, <1>5, OrgActions

\* Who replaces the clients knows what there is, and what is asked for stays.
LEMMA ReplacersKeep ==
  ASSUME OrgInv, OrgNext
  PROVE  ReplacerKnows' /\ PortfolioAsAsked'
<1>0. OrgTypeOK /\ ReplacerKnows /\ PortfolioAsAsked
  BY DEF OrgInv
<1>1. /\ asked \subseteq portfolio /\ portfolio \subseteq burst
      /\ \A g \in Replacing :
           /\ g \in Tasks /\ work[g].clients \subseteq burst
           /\ work[g].alone => Replacing = {g} /\ portfolio \subseteq work[g].rows
      /\ work \in [Tasks -> Intents]
  BY <1>0 DEF ReplacerKnows, PortfolioAsAsked, Replacing, OrgTypeOK
<1>2. ASSUME NEW h \in Tasks, DeleteRows(h)
      PROVE  ReplacerKnows' /\ PortfolioAsAsked'
  <2>1. /\ work[h].at = "delete" /\ UNCHANGED <<portfolio, asked, burst>>
        /\ work' = [work EXCEPT ![h] = [work[h] EXCEPT !.at = "fill",
                                                      !.rows = @ \cap portfolio]]
    BY <1>2 DEF DeleteRows, Continue
  <2>2. work[h] \in [at : {"delete", "fill"}, clients : SUBSET Clients,
                     rows : SUBSET Clients, alone : BOOLEAN]
    BY <1>0, <2>1, IntentKinds
  <2>3. /\ work'[h].at = "fill" /\ work'[h].clients = work[h].clients
        /\ work'[h].alone = work[h].alone /\ work'[h].rows = work[h].rows \cap portfolio
        /\ \A g \in Tasks : g # h => work'[g] = work[g]
    BY <1>1, <2>1, <2>2
  <2>4. Replacing' = Replacing /\ h \in Replacing
    BY <2>1, <2>3 DEF Replacing
  <2> QED
    BY <1>1, <2>1, <2>3, <2>4 DEF ReplacerKnows, PortfolioAsAsked
<1>3. ASSUME NEW h \in Tasks, Fill(h)
      PROVE  ReplacerKnows' /\ PortfolioAsAsked'
  <2> DEFINE kept == portfolio \ work[h].rows
             ends == work[h].clients \cap kept = {}
  <2>1. /\ work[h].at = "fill" /\ Continue(h, Resting)
        /\ portfolio' = IF ends THEN kept \cup work[h].clients ELSE portfolio
        /\ asked' = IF ends THEN work[h].clients ELSE asked
        /\ burst' = IF work[h].alone THEN asked' ELSE burst
    BY <1>3 DEF Fill
  <2>2. h \in Replacing
    BY <2>1 DEF Replacing
  <2>3. Replacing' = Replacing \ {h} /\ \A g \in Replacing' : work'[g] = work[g]
    <3>1. work'[h] = Resting /\ \A g \in Tasks : g # h => work'[g] = work[g]
      BY <1>1, <2>1 DEF Continue
    <3>2. Resting.at \notin {"delete", "fill"}
      BY DEF Resting
    <3> QED
      BY <3>1, <3>2 DEF Replacing
  <2>4. CASE work[h].alone
    <3>1. Replacing' = {} /\ kept = {}
      BY <1>1, <2>2, <2>3, <2>4
    <3>2. portfolio' = work[h].clients /\ asked' = work[h].clients /\ burst' = asked'
      BY <2>1, <2>4, <3>1
    <3> QED
      BY <3>1, <3>2 DEF ReplacerKnows, PortfolioAsAsked
  <2>5. CASE ~ work[h].alone
    <3>1. burst' = burst /\ asked' \subseteq portfolio' /\ portfolio' \subseteq burst
      BY <1>1, <2>1, <2>2, <2>5
    <3>2. \A g \in Replacing' : g \in Replacing /\ work'[g] = work[g] /\ ~ work[g].alone
      BY <1>1, <2>2, <2>3
    <3> QED
      BY <1>1, <3>1, <3>2 DEF ReplacerKnows, PortfolioAsAsked
  <2> QED
    BY <2>4, <2>5
<1>4. ASSUME NEW h \in Tasks, NEW clients \in SUBSET Clients, Replace(h, clients)
      PROVE  ReplacerKnows' /\ PortfolioAsAsked'
  <2>1. /\ AtHand(h) /\ UNCHANGED <<portfolio, asked>>
        /\ work' = [g \in Tasks |->
                      IF g = h THEN [at |-> "delete", clients |-> clients,
                                     rows |-> portfolio, alone |-> Replacing = {}]
                      ELSE IF g \in Replacing THEN [work[g] EXCEPT !.alone = FALSE]
                      ELSE work[g]]
        /\ burst' = clients \cup IF Replacing = {} THEN portfolio ELSE burst
    BY <1>4 DEF Replace
  <2>2. h \notin Replacing
    BY <2>1 DEF AtHand, Replacing
  <2>3. /\ work'[h].at = "delete" /\ work'[h].clients = clients
        /\ work'[h].rows = portfolio /\ work'[h].alone = (Replacing = {})
    BY <2>1
  <2>4. \A g \in Replacing : /\ work'[g].at \in {"delete", "fill"}
                             /\ work'[g].clients = work[g].clients /\ ~ work'[g].alone
    <3>1. ASSUME NEW g \in Replacing
          PROVE  /\ work'[g].at \in {"delete", "fill"}
                 /\ work'[g].clients = work[g].clients /\ ~ work'[g].alone
      <4>1. work[g] \in [at : {"delete", "fill"}, clients : SUBSET Clients,
                         rows : SUBSET Clients, alone : BOOLEAN]
        BY <1>0, <3>1, IntentKinds DEF Replacing
      <4>2. work'[g] = [work[g] EXCEPT !.alone = FALSE]
        BY <1>1, <2>1, <2>2, <3>1
      <4> QED
        BY <4>1, <4>2
    <3> QED
      BY <3>1
  <2>5. \A g \in Tasks : g # h /\ g \notin Replacing => work'[g] = work[g]
    BY <2>1
  <2>6. Replacing' = Replacing \cup {h}
    BY <2>3, <2>4, <2>5 DEF Replacing
  <2>7. portfolio \subseteq burst' /\ clients \subseteq burst'
        /\ (Replacing # {} => burst \subseteq burst')
    BY <1>1, <2>1
  <2>8. PortfolioAsAsked'
    BY <1>1, <2>1, <2>7 DEF PortfolioAsAsked
  <2>9. ReplacerKnows'
    <3> SUFFICES ASSUME NEW g \in Replacing'
                 PROVE  /\ work'[g].clients \subseteq burst'
                        /\ work'[g].alone => /\ Replacing' = {g}
                                             /\ portfolio' \subseteq work'[g].rows
      BY DEF ReplacerKnows
    <3>1. CASE g = h
      BY <2>1, <2>3, <2>6, <2>7, <3>1
    <3>2. CASE g \in Replacing
      BY <1>1, <2>4, <2>7, <3>2
    <3> QED
      BY <2>6, <3>1, <3>2
  <2> QED
    BY <2>8, <2>9
<1>5. CASE \A h \in Tasks : /\ ~ DeleteRows(h) /\ ~ Fill(h)
                            /\ \A clients \in SUBSET Clients : ~ Replace(h, clients)
  <2>1. /\ UNCHANGED <<portfolio, asked, burst>> /\ Replacing' = Replacing
        /\ \A g \in Replacing : work'[g] = work[g]
    BY <1>5, ReplacersRest
  <2> QED
    BY <1>1, <2>1 DEF ReplacerKnows, PortfolioAsAsked
<1> QED
  BY <1>2, <1>3, <1>4, <1>5

\* A zone is above itself, and so is the parent of one that is.
LEMMA AboveFacts ==
  ASSUME OrgTypeOK, NEW z \in Zones
  PROVE  /\ z \in Above(z) /\ Above(z) \subseteq Zones
         /\ \A w \in Above(z) : Live(w) /\ zone[w].parent # Root =>
                                  zone[w].parent \in Above(z)
         /\ \A S \in SUBSET Zones : z \in S /\ Upward(S) => Above(z) \subseteq S
<1>1. z \in Above(z) /\ Above(z) \subseteq Zones
  BY DEF Above
<1>2. ASSUME NEW w \in Above(z), Live(w), zone[w].parent # Root
      PROVE  zone[w].parent \in Above(z)
  <2>1. zone[w].parent \in Zones
    BY <1>1, <1>2, RowKinds
  <2>2. ASSUME NEW S \in SUBSET Zones, z \in S, Upward(S)
        PROVE  zone[w].parent \in S
    <3>1. w \in S
      BY <2>2 DEF Above
    <3> QED
      BY <1>2, <2>2, <3>1 DEF Upward
  <2> QED
    BY <2>1, <2>2 DEF Above
<1>3. \A S \in SUBSET Zones : z \in S /\ Upward(S) => Above(z) \subseteq S
  BY DEF Above
<1> QED
  BY <1>1, <1>2, <1>3

\* The paths of the zones there are: that of a zone is below that of its parent, and
\* one label longer.
LEMMA PathFacts ==
  ASSUME OrgTypeOK, PathsFollow, NEW z \in Zones, Live(z)
  PROVE  /\ zone[z].path \in Seq(Labels) /\ zone[z].parent \in Zones \cup {Root}
         /\ Len(zone[z].path) \in Nat /\ Len(zone[z].path) >= 1
         /\ zone[z].parent = Root => Len(zone[z].path) = 1
         /\ zone[z].parent # Root /\ Live(zone[z].parent) =>
              /\ Within(zone[z].path, zone[zone[z].parent].path)
              /\ Len(zone[z].path) = Len(zone[zone[z].parent].path) + 1
<1>1. PICK path : path = zone[z].path
  OBVIOUS
<1>2. PICK parent : parent = zone[z].parent
  OBVIOUS
<1>3. path \in Seq(Labels) /\ parent \in Zones \cup {Root} /\ Follows(path, parent)
  BY <1>1, <1>2, RowKinds DEF PathsFollow
<1>4. Len(path) \in Nat
  BY <1>3
<1>5. PICK n \in Nat : n = Len(path)
  BY <1>4
<1>6. n = 1 \/ n > 1
  BY <1>3, <1>5 DEF Follows
<1>7. n >= 1
  BY <1>6
<1>8. /\ parent = Root => Len(path) = 1
      /\ parent # Root /\ Live(parent) => /\ Within(path, zone[parent].path)
                                          /\ Len(path) = Len(zone[parent].path) + 1
  BY <1>3 DEF Follows
<1> QED
  BY <1>1, <1>2, <1>3, <1>5, <1>7, <1>8

\* Who is above a zone has a path its own is below.
LEMMA AboveIsWithin ==
  ASSUME OrgTypeOK, PathsFollow, NEW z \in Zones, Live(z), NEW u \in Above(z), Live(u)
  PROVE  Within(zone[z].path, zone[u].path)
<1> DEFINE S == {v \in Zones : Live(v) => Within(zone[z].path, zone[v].path)}
<1>1. z \in S
  BY PathFacts, WithinFacts
<1>2. ASSUME NEW v \in S, Live(v), zone[v].parent # Root
      PROVE  zone[v].parent \in S
  <2>1. PICK p \in Zones : p = zone[v].parent
    BY <1>2, PathFacts
  <2>2. ASSUME Live(p)
        PROVE  Within(zone[z].path, zone[p].path)
    <3>1. Within(zone[z].path, zone[v].path) /\ Within(zone[v].path, zone[p].path)
      BY <1>2, <2>1, <2>2, PathFacts
    <3>2. /\ zone[z].path \in Seq(Labels) /\ zone[v].path \in Seq(Labels)
          /\ zone[p].path \in Seq(Labels)
      BY <1>2, <2>2, PathFacts
    <3> QED
      BY <3>1, <3>2, WithinFacts
  <2> QED
    BY <2>1, <2>2
<1>3. Upward(S)
  BY <1>2 DEF Upward
<1>4. S \subseteq Zones
  OBVIOUS
<1>5. u \in S
  <2> HIDE DEF S
  <2> QED
    BY <1>1, <1>3, <1>4, AboveFacts
<1> QED
  BY <1>5

\* A path that is above that of a zone is the path of a zone above it, when none of
\* those above raced with a removal.
LEMMA WithinIsAbove ==
  ASSUME OrgTypeOK, PathsFollow, NothingIsOrphaned,
         NEW z \in Zones, Live(z), Above(z) \cap raced = {},
         NEW w \in Zones, Live(w), Within(zone[z].path, zone[w].path)
  PROVE  \E u \in Above(z) : Live(u) /\ zone[u].path = zone[w].path
<1> DEFINE T == {u \in Above(z) : /\ Live(u) /\ Within(zone[z].path, zone[u].path)
                                  /\ Len(zone[w].path) <= Len(zone[u].path)}
           N == {Len(zone[u].path) : u \in T}
           R == OpToRel(<, Nat)
<1>1. /\ z \in Above(z) /\ Above(z) \subseteq Zones
      /\ \A u \in Above(z) : Live(u) /\ zone[u].parent # Root => zone[u].parent \in Above(z)
  BY AboveFacts
<1>2. zone[z].path \in Seq(Labels) /\ zone[w].path \in Seq(Labels)
  BY PathFacts
<1>3. z \in T
  <2>1. Within(zone[z].path, zone[z].path)
    BY <1>2, WithinFacts
  <2>2. Len(zone[w].path) <= Len(zone[z].path)
    BY DEF Within
  <2> QED
    BY <1>1, <2>1, <2>2
<1>4. N \subseteq Nat /\ N # {}
  <2>1. \A u \in T : Len(zone[u].path) \in Nat
    BY <1>1, PathFacts
  <2> QED
    BY <1>3, <2>1
<1>5. PICK n \in N : \A m \in N : ~ (<<m, n>> \in R)
  <2>1. IsWellFoundedOn(R, Nat)
    BY NatLessThanWellFounded
  <2> HIDE DEF N, R
  <2> QED
    BY <1>4, <2>1, WFMin
<1>6. \A m \in N : ~ (m < n)
  <2>1. R = {ss \in Nat \X Nat : ss[1] < ss[2]}
    BY DEF OpToRel
  <2>2. n \in Nat /\ \A m \in N : m \in Nat
    BY <1>4
  <2> HIDE DEF N, R
  <2> QED
    BY <1>5, <2>1, <2>2
<1>7. PICK u \in T : n = Len(zone[u].path)
  BY <1>5
<1>8. u \in Zones /\ u \in Above(z) /\ Live(u) /\ Within(zone[z].path, zone[u].path)
      /\ Len(zone[w].path) <= Len(zone[u].path) /\ zone[u].path \in Seq(Labels)
  BY <1>1, <1>7, PathFacts
<1>9. CASE Len(zone[w].path) = Len(zone[u].path)
  <2>1. Within(zone[u].path, zone[w].path)
    BY <1>2, <1>8, WithinFacts
  <2>2. zone[u].path = zone[w].path
    BY <1>2, <1>8, <1>9, <2>1, WithinFacts
  <2> QED
    BY <1>8, <2>2
<1>10. CASE Len(zone[w].path) # Len(zone[u].path)
  <2>1. PICK a \in Nat : a = Len(zone[w].path) /\ a >= 1
    BY PathFacts
  <2>2. PICK p \in Zones \cup {Root} : p = zone[u].parent
    BY <1>8, PathFacts
  <2>3. n \in Nat /\ a < n
    BY <1>4, <1>7, <1>8, <1>10, <2>1
  <2>4. p # Root
    BY <1>7, <1>8, <2>1, <2>2, <2>3, PathFacts
  <2>5. p \in Zones /\ p \in Above(z) /\ Live(p)
    <3>1. u \notin raced
      BY <1>8
    <3> QED
      BY <1>1, <1>8, <2>2, <2>4, <3>1 DEF NothingIsOrphaned
  <2>6. PICK b \in Nat : b = Len(zone[p].path)
    BY <2>5, PathFacts
  <2>7. n = b + 1 /\ a <= b
    <3>1. n = b + 1
      BY <1>7, <1>8, <2>2, <2>4, <2>5, <2>6, PathFacts
    <3> QED
      BY <2>3, <3>1
  <2>8. Within(zone[z].path, zone[p].path)
    BY <2>5, AboveIsWithin
  <2>9. p \in T
    BY <2>1, <2>5, <2>6, <2>7, <2>8
  <2>10. b \in N
    BY <2>6, <2>9
  <2> HIDE DEF N, T
  <2> QED
    BY <1>6, <2>7, <2>10
<1> QED
  BY <1>9, <1>10

\* What is in flight is known, so the scope of a coordinator is a subtree.
LEMMA ScopeHolds ==
  ASSUME OrgInv
  PROVE  ScopeIsSubtree
<1>0. OrgTypeOK /\ PathsFollow /\ NothingIsOrphaned
  BY DEF OrgInv
<1> SUFFICES ASSUME NEW c \in Heads, NEW z \in Zones, Live(z), Above(z) \cap raced = {}
             PROVE  z \in Seen(c) <=>
                      \E w, u \in Zones : /\ Live(w) /\ <<w, c>> \in assigned /\ Live(u)
                                          /\ zone[u].path = zone[w].path /\ u \in Above(z)
  BY DEF ScopeIsSubtree
<1>1. ASSUME z \in Seen(c)
      PROVE  \E w, u \in Zones : /\ Live(w) /\ <<w, c>> \in assigned /\ Live(u)
                                 /\ zone[u].path = zone[w].path /\ u \in Above(z)
  <2>1. PICK w \in Zones : /\ Live(w) /\ <<w, c>> \in assigned
                           /\ Within(zone[z].path, zone[w].path)
    BY <1>1 DEF Seen
  <2>2. PICK u \in Above(z) : Live(u) /\ zone[u].path = zone[w].path
    BY <1>0, <2>1, WithinIsAbove
  <2>3. u \in Zones
    BY <1>0, <2>2, AboveFacts
  <2> QED
    BY <2>1, <2>2, <2>3
<1>2. ASSUME NEW w \in Zones, NEW u \in Zones, Live(w), <<w, c>> \in assigned, Live(u),
             zone[u].path = zone[w].path, u \in Above(z)
      PROVE  z \in Seen(c)
  <2>1. Within(zone[z].path, zone[u].path)
    BY <1>0, <1>2, AboveIsWithin
  <2> QED
    BY <1>2, <2>1 DEF Seen
<1> QED
  BY <1>1, <1>2

LEMMA OrgStart ==
  ASSUME OrgInit
  PROVE  OrgInv
<1>1. \A z \in Zones : zone[z] = Unborn /\ ~ Live(z)
  BY DEF OrgInit, Live, Unborn
<1>2. \A h \in Tasks : work[h] = Resting /\ work[h].at = "idle"
  BY DEF OrgInit, Resting
<1>3. OrgTypeOK
  <2>1. Unborn \in Records /\ Resting \in Intents
    BY DEF Records, Intents
  <2> QED
    BY <2>1 DEF OrgInit, OrgTypeOK
<1>4. Replacing = {}
  BY <1>2 DEF Replacing
<1>5. PathsFollow /\ EraserKnows
  BY <1>1, <1>2 DEF PathsFollow, EraserKnows
<1>6. ReplacerKnows /\ PortfolioAsAsked
  BY <1>4 DEF ReplacerKnows, PortfolioAsAsked, OrgInit
<1>7. NothingIsOrphaned
  BY <1>1 DEF NothingIsOrphaned, OrgInit
<1> QED
  BY <1>3, <1>5, <1>6, <1>7 DEF OrgInv

LEMMA OrgStep ==
  ASSUME OrgTerms, OrgInv, [OrgNext]_orgVars
  PROVE  OrgInv'
<1>1. CASE OrgNext
  BY <1>1, OrgTypeKeeps, PathsFollowKeeps, EraserKnowsKeeps, ReplacersKeep, OrphansKeep
     DEF OrgInv
<1>2. CASE UNCHANGED orgVars
  <2>1. /\ zone' = zone /\ assigned' = assigned /\ portfolio' = portfolio /\ work' = work
        /\ raced' = raced /\ asked' = asked /\ burst' = burst
    BY <1>2 DEF orgVars
  <2>2. OrgTypeOK' /\ NothingIsOrphaned' /\ PortfolioAsAsked'
    BY <2>1 DEF OrgInv, OrgTypeOK, NothingIsOrphaned, PortfolioAsAsked, Live
  <2>3. PathsFollow'
    BY <2>1 DEF OrgInv, PathsFollow, Follows, Within, Live, Unborn
  <2>4. EraserKnows'
    BY <2>1 DEF OrgInv, EraserKnows, Live, Unborn
  <2>5. ReplacerKnows'
    BY <2>1 DEF OrgInv, ReplacerKnows, Replacing
  <2> QED
    BY <2>2, <2>3, <2>4, <2>5 DEF OrgInv
<1> QED
  BY <1>1, <1>2

\* Whatever zones are created, renamed and removed, coordinators assigned and clients
\* replaced, by requests whose transactions interleave: a coordinator sees the subtrees
\* he is assigned and nothing else, a removal leaves no one behind but who raced with
\* it, and a collector has the clients last asked for (Organization.OrganizationSafe).
THEOREM OrgAlwaysSafe ==
  ASSUME OrgTerms
  PROVE  OrgSpec => []OrganizationSafe
<1>1. OrgInit => OrgInv
  BY OrgStart
<1>2. OrgInv /\ [OrgNext]_orgVars => OrgInv'
  BY OrgStep
<1>3. OrgInv => OrganizationSafe
  <2> SUFFICES ASSUME OrgInv PROVE OrganizationSafe
    OBVIOUS
  <2>1. ScopeIsSubtree
    BY ScopeHolds
  <2> QED
    BY <2>1 DEF OrganizationSafe, OrgInv
<1> QED
  BY <1>1, <1>2, <1>3, PTL DEF OrgSpec

-----------------------------------------------------------------------------
(* Access: the inductive invariant is AccessInv.                            *)

USE DEF TenantStatuses, Guarded

LEMMA NoCallType ==
  ASSUME AccessTerms
  PROVE  NoPair \in Pairs /\ NoCall \in CallRecords
<1>1. (CHOOSE u \in Users : TRUE) \in Users /\ (CHOOSE i \in Instances : TRUE) \in Instances
  BY DEF AccessTerms
<1>2. NoPair \in Pairs
  BY <1>1 DEF AccessTerms, NoPair, Pairs
<1> QED
  BY <1>1, <1>2 DEF AccessTerms, NoCall, CallRecords

\* The actions, one by one.
LEMMA AccessActions ==
  ASSUME AccessNext
  PROVE  \/ \E h \in Requests, i \in Instances, u \in Users : Login(h, i, u)
         \/ \E h \in Requests, i \in Instances, p \in pairs : Renew(h, i, p)
         \/ \E h \in Requests, i \in Instances, p \in pairs, op \in Guarded : Request(h, i, p, op)
         \/ \E h \in Requests : Password(h)
         \/ \E h \in Requests : ReadStatus(h)
         \/ \E h \in Requests : Remember(h)
         \/ \E h \in Requests : ReadSubject(h)
         \/ \E h \in Requests : Sign(h)
         \/ \E h \in Requests, u \in Users, z \in ZoneSets : CreateUser(h, u, z)
         \/ \E h \in Requests, u \in Users, r \in Rows : UpdateUser(h, u, r)
         \/ \E h \in Requests : Answer(h)
         \/ \E i \in Instances, to \in TenantStatuses : ChangeStatus(i, to)
         \/ Commit
         \/ \E u \in Users : ProvisionAdmin(u)
         \/ \E u \in Users : InsertAdmin(u)
         \/ \E u \in Users, a \in BOOLEAN : UpdateAdmin(u, a)
         \/ Tick
BY DEF AccessNext

\* What any step does to the status, the rows, the clock and the pairs.
Moves ==
  /\ clock <= clock' /\ stopped <= stopped'
  /\ pairs \subseteq pairs' /\ hired \subseteq hired'
  /\ status = "ACTIVE" /\ status' # "ACTIVE" => stopped' = clock'
  /\ status # "ACTIVE" => stopped' = stopped
  /\ stopped' = stopped \/ stopped' = clock'
  /\ \A u \in hired, r \in Rows :
       /\ left[u][r] <= left'[u][r]
       /\ row[u] = r => row'[u] = r \/ left'[u][r] = clock'

LEMMA SetRowMoves ==
  ASSUME AccessTypeOK, OfThePast, NEW w \in hired, NEW s \in Rows, SetRow(w, s), clock' = clock
  PROVE  \A u \in hired, r \in Rows :
           /\ left[u][r] <= left'[u][r]
           /\ row[u] = r => row'[u] = r \/ left'[u][r] = clock'
<1> SUFFICES ASSUME NEW u \in hired, NEW r \in Rows
             PROVE  /\ left[u][r] <= left'[u][r]
                    /\ row[u] = r => row'[u] = r \/ left'[u][r] = clock'
  OBVIOUS
<1>1. /\ u \in Users /\ w \in Users /\ row \in [Users -> Rows] /\ clock \in Nat
      /\ left \in [Users -> [Rows -> Nat]] /\ left[u][r] <= clock
  BY DEF AccessTypeOK, OfThePast
<1>2. row' = [row EXCEPT ![w] = s]
  BY DEF SetRow
<1>3. CASE s = row[w]
  BY <1>1, <1>2, <1>3 DEF SetRow
<1>4. CASE s # row[w]
  <2>1. left' = [left EXCEPT ![w][row[w]] = clock]
    BY <1>4 DEF SetRow
  <2>2. left'[u][r] = IF u = w /\ r = row[w] THEN clock ELSE left[u][r]
    BY <1>1, <2>1
  <2> QED
    BY <1>1, <1>2, <2>2
<1> QED
  BY <1>3, <1>4

LEMMA AccessMoves ==
  ASSUME AccessTypeOK, OfThePast, AccessNext
  PROVE  Moves
<1>0. /\ clock \in Nat /\ stopped \in Nat /\ stopped <= clock
      /\ left \in [Users -> [Rows -> Nat]] /\ row \in [Users -> Rows] /\ hired \subseteq Users
  BY DEF AccessTypeOK, OfThePast
<1>1. CASE Standing /\ pairs \subseteq pairs'
  BY <1>0, <1>1 DEF Standing, Moves
<1>2. ASSUME NEW h \in Requests, NEW i \in Instances, NEW u \in Users, Login(h, i, u) PROVE Moves
  BY <1>1, <1>2 DEF Login, Start
<1>3. ASSUME NEW h \in Requests, NEW i \in Instances, NEW p \in pairs, Renew(h, i, p) PROVE Moves
  BY <1>1, <1>3 DEF Renew, Start
<1>4. ASSUME NEW h \in Requests, NEW i \in Instances, NEW p \in pairs, NEW op \in Guarded,
             Request(h, i, p, op)
      PROVE Moves
  BY <1>1, <1>4 DEF Request, Start
<1>5. ASSUME NEW h \in Requests, Password(h) \/ ReadStatus(h) \/ ReadSubject(h) \/ Answer(h)
      PROVE  Moves
  BY <1>1, <1>5 DEF Password, ReadStatus, ReadSubject, Answer
<1>6. ASSUME NEW h \in Requests, Remember(h) \/ Sign(h) PROVE Moves
  <2>1. Standing /\ pairs \subseteq pairs'
    BY <1>6 DEF Remember, Sign, Issue
  <2> QED
    BY <1>1, <2>1
<1>7. ASSUME NEW h \in Requests, NEW u \in Users, NEW z \in ZoneSets, CreateUser(h, u, z)
      PROVE  Moves
  BY <1>0, <1>7 DEF CreateUser, Moves
<1>8. ASSUME NEW h \in Requests, NEW u \in Users, NEW r \in Rows, UpdateUser(h, u, r)
      PROVE  Moves
  <2>1. u \in hired /\ SetRow(u, r) /\ clock' = clock
    BY <1>8 DEF UpdateUser
  <2>2. \A w \in hired, s \in Rows :
           /\ left[w][s] <= left'[w][s]
           /\ row[w] = s => row'[w] = s \/ left'[w][s] = clock'
    BY <2>1, SetRowMoves
  <2> QED
    BY <1>0, <1>8, <2>2 DEF UpdateUser, Moves
<1>9. ASSUME NEW i \in Instances, NEW to \in TenantStatuses, ChangeStatus(i, to) PROVE Moves
  BY <1>0, <1>9 DEF ChangeStatus, Moves
<1>10. CASE Commit
  BY <1>0, <1>10 DEF Commit, Moves
<1>11. ASSUME NEW u \in Users, ProvisionAdmin(u) PROVE Moves
  BY <1>0, <1>11 DEF ProvisionAdmin, Moves
<1>12. ASSUME NEW u \in Users, InsertAdmin(u) PROVE Moves
  <2>1. u \notin hired
    BY <1>12 DEF AccessTypeOK, InsertAdmin
  <2> QED
    BY <1>0, <1>12, <2>1 DEF InsertAdmin, Moves
<1>13. ASSUME NEW u \in Users, NEW a \in BOOLEAN, UpdateAdmin(u, a) PROVE Moves
  <2> DEFINE r == [row[u] EXCEPT !.active = a]
  <2>1. u \in hired /\ SetRow(u, r) /\ clock' = clock /\ r \in Rows
    BY <1>0, <1>13 DEF UpdateAdmin, Rows
  <2> HIDE DEF r
  <2>2. \A w \in hired, s \in Rows :
           /\ left[w][s] <= left'[w][s]
           /\ row[w] = s => row'[w] = s \/ left'[w][s] = clock'
    BY <2>1, SetRowMoves
  <2> QED
    BY <1>0, <1>13, <2>2 DEF UpdateAdmin, Moves
<1>14. CASE Tick
  BY <1>0, <1>14 DEF Tick, Moves
<1> QED
  BY <1>2, <1>3, <1>4, <1>5, <1>6, <1>7, <1>8, <1>9, <1>10, <1>11, <1>12, <1>13, <1>14,
     AccessActions

LEMMA FinishType ==
  ASSUME AccessTerms, AccessTypeOK, NEW h \in Requests, Finish(h)
  PROVE  call' \in [Requests -> CallRecords]
BY NoCallType DEF Finish, AccessTypeOK

LEMMA ProceedType ==
  ASSUME AccessTypeOK, NEW h \in Requests,
         NEW at \in {"subject", "signing", "admitted"}, Proceed(h, at)
  PROVE  call' \in [Requests -> CallRecords]
<1>1. call \in [Requests -> CallRecords]
  BY DEF AccessTypeOK
<1>2. [call[h] EXCEPT !.at = at] \in CallRecords
  BY <1>1 DEF CallRecords
<1> QED
  BY <1>1, <1>2 DEF Proceed

LEMMA SetRowType ==
  ASSUME AccessTypeOK, NEW u \in Users, NEW r \in Rows, SetRow(u, r)
  PROVE  row' \in [Users -> Rows] /\ left' \in [Users -> [Rows -> 0..MaxClock]]
<1>1. row \in [Users -> Rows] /\ left \in [Users -> [Rows -> 0..MaxClock]] /\ clock \in 0..MaxClock
  BY DEF AccessTypeOK
<1>2. row' = [row EXCEPT ![u] = r]
  BY DEF SetRow
<1>3. left' = left \/ left' = [left EXCEPT ![u][row[u]] = clock]
  BY DEF SetRow
<1>4. CASE left' = [left EXCEPT ![u][row[u]] = clock]
  <2>1. [left[u] EXCEPT ![row[u]] = clock] \in [Rows -> 0..MaxClock]
    BY <1>1
  <2> QED
    BY <1>1, <1>2, <1>4, <2>1
<1> QED
  BY <1>1, <1>2, <1>3, <1>4

\* A request that begins.
LEMMA StartType ==
  ASSUME AccessTypeOK, NEW h \in Requests, NEW c \in CallRecords, Start(h, c),
         UNCHANGED <<cache, pairs>>
  PROVE  AccessTypeOK'
<1>1. call' \in [Requests -> CallRecords]
  BY DEF Start, AccessTypeOK
<1> QED
  BY <1>1 DEF Start, Standing, AccessTypeOK

LEMMA IssueType ==
  ASSUME AccessTerms, AccessTypeOK, NEW h \in Requests, NEW z \in ZoneSets, Issue(h, z)
  PROVE  pairs' \subseteq Pairs /\ call' \in [Requests -> CallRecords]
<1> DEFINE p == [call[h].pair EXCEPT !.zones = z, !.iat = clock]
<1>1. call[h].pair \in Pairs /\ clock \in 0..MaxClock
  BY DEF AccessTypeOK, CallRecords
<1>2. p \in Pairs
  BY <1>1 DEF Pairs
<1>3. call' \in [Requests -> CallRecords]
  BY FinishType DEF Issue
<1> QED
  BY <1>2, <1>3 DEF Issue, AccessTypeOK

\* The disjuncts of an answer that is remembered, with what each does.
LEMMA RememberCases ==
  ASSUME NEW h \in Requests, Remember(h)
  PROVE  /\ call[h].at = "answered"
         /\ cache' = [cache EXCEPT ![call[h].on] =
                        [status |-> call[h].got, until |-> call[h].since + StatusTTL]]
         /\ Standing
         /\ \/ Finish(h) /\ pairs' = pairs /\ call[h].got # "ACTIVE"
            \/ Issue(h, call[h].pair.zones) /\ call[h].got = "ACTIVE" /\ call[h].op = "login"
            \/ /\ Proceed(h, "subject") /\ pairs' = pairs
               /\ call[h].got = "ACTIVE" /\ call[h].op = "renew"
            \/ /\ Proceed(h, "admitted") /\ pairs' = pairs
               /\ call[h].got = "ACTIVE" /\ call[h].op \notin {"login", "renew"}
BY DEF Remember

LEMMA AccessTypes ==
  ASSUME AccessTerms, AccessTypeOK, AccessNext
  PROVE  AccessTypeOK'
<1>0. NoPair \in Pairs /\ NoCall \in CallRecords /\ clock \in 0..MaxClock
  BY NoCallType DEF AccessTypeOK
<1>1. ASSUME NEW h \in Requests, NEW i \in Instances, NEW u \in Users, Login(h, i, u)
      PROVE  AccessTypeOK'
  <2> DEFINE p == [NoPair EXCEPT !.user = u, !.zones = row[u].zones, !.asked = clock]
             c == [NoCall EXCEPT !.at = "password", !.op = "login", !.on = i, !.asked = clock,
                                 !.pair = p]
  <2>1. row[u].zones \in ZoneSets
    BY DEF AccessTypeOK, Rows
  <2>2. p \in Pairs
    BY <1>0, <2>1 DEF Pairs
  <2> HIDE DEF p
  <2>3. c \in CallRecords
    BY <1>0, <2>2 DEF CallRecords
  <2>4. Start(h, c) /\ UNCHANGED <<cache, pairs>>
    BY <1>1 DEF Login, Start, p
  <2> HIDE DEF c
  <2> QED
    BY <2>3, <2>4, StartType
<1>2. ASSUME NEW h \in Requests, NEW i \in Instances, NEW p \in pairs, Renew(h, i, p)
      PROVE  AccessTypeOK'
  <2> DEFINE q == [p EXCEPT !.asked = clock]
             c == [NoCall EXCEPT !.at = "reading", !.op = "renew", !.on = i, !.asked = clock,
                                 !.since = clock, !.pair = q]
  <2>1. p \in Pairs
    BY DEF AccessTypeOK
  <2>2. q \in Pairs
    BY <1>0, <2>1 DEF Pairs
  <2> HIDE DEF q
  <2>3. c \in CallRecords
    BY <1>0, <2>2 DEF CallRecords
  <2>4. Start(h, c) /\ UNCHANGED <<cache, pairs>>
    BY <1>2 DEF Renew, Start, q
  <2> HIDE DEF c
  <2> QED
    BY <2>3, <2>4, StartType
<1>3. ASSUME NEW h \in Requests, NEW i \in Instances, NEW p \in pairs, NEW op \in Guarded,
             Request(h, i, p, op)
      PROVE  AccessTypeOK'
  <2>1. p \in Pairs
    BY DEF AccessTypeOK
  <2> DEFINE c(at) == [[NoCall EXCEPT !.op = op, !.on = i, !.asked = clock, !.since = clock,
                                      !.pair = p] EXCEPT !.at = at]
  <2>2. c("admitted") \in CallRecords /\ c("reading") \in CallRecords
    BY <1>0, <2>1 DEF CallRecords
  <2>3. (Start(h, c("admitted")) \/ Start(h, c("reading"))) /\ UNCHANGED <<cache, pairs>>
    BY <1>3 DEF Request, Start
  <2> HIDE DEF c
  <2> QED
    BY <2>2, <2>3, StartType
<1>4. ASSUME NEW h \in Requests, Password(h) PROVE AccessTypeOK'
  <2>1. [call[h] EXCEPT !.at = "reading", !.since = clock] \in CallRecords
    BY <1>0 DEF AccessTypeOK, CallRecords
  <2>2. call' \in [Requests -> CallRecords]
    BY <1>4, <2>1 DEF Password, AccessTypeOK
  <2> QED
    BY <1>4, <2>2 DEF Password, Standing, AccessTypeOK
<1>5. ASSUME NEW h \in Requests, ReadStatus(h) PROVE AccessTypeOK'
  <2>1. [call[h] EXCEPT !.at = "answered", !.got = status] \in CallRecords
    <3>1. call[h] \in CallRecords /\ status \in TenantStatuses
      BY DEF AccessTypeOK
    <3> QED
      BY <3>1 DEF CallRecords
  <2>2. call' \in [Requests -> CallRecords]
    BY <1>5, <2>1 DEF ReadStatus, AccessTypeOK
  <2> QED
    BY <1>5, <2>2 DEF ReadStatus, Standing, AccessTypeOK
<1>6. ASSUME NEW h \in Requests, Remember(h) PROVE AccessTypeOK'
  <2>1. /\ call[h].got \in TenantStatuses /\ call[h].since \in 0..MaxClock /\ call[h].pair.zones \in ZoneSets
        /\ StatusTTL \in Nat
    BY DEF AccessTypeOK, CallRecords, Pairs, AccessTerms
  <2>2. cache' \in [Instances -> [status : TenantStatuses, until : 0..(MaxClock + StatusTTL)]]
    <3> DEFINE e == [status |-> call[h].got, until |-> call[h].since + StatusTTL]
    <3>1. e \in [status : TenantStatuses, until : 0..(MaxClock + StatusTTL)]
      BY <2>1 DEF AccessTerms
    <3>2. cache' = [cache EXCEPT ![call[h].on] = e]
      BY <1>6, RememberCases
    <3> HIDE DEF e
    <3> QED
      BY <3>1, <3>2 DEF AccessTypeOK
  <2>3. pairs' \subseteq Pairs /\ call' \in [Requests -> CallRecords]
    BY <1>6, <2>1, RememberCases, FinishType, IssueType, ProceedType DEF AccessTypeOK
  <2> QED
    BY <1>6, <2>2, <2>3, RememberCases DEF Standing, AccessTypeOK
<1>7. ASSUME NEW h \in Requests, ReadSubject(h) PROVE AccessTypeOK'
  <2> DEFINE u == call[h].pair.user
  <2>1. u \in Users /\ row[u].zones \in ZoneSets /\ call[h] \in CallRecords /\ call[h].pair \in Pairs
    BY DEF AccessTypeOK, CallRecords, Pairs, Rows
  <2>2. CASE call' = [call EXCEPT ![h].at = "signing", ![h].pair.zones = row[u].zones]
    <3>1. [call[h].pair EXCEPT !.zones = row[u].zones] \in Pairs
      BY <2>1 DEF Pairs
    <3>2. [call[h] EXCEPT !.at = "signing", !.pair.zones = row[u].zones] \in CallRecords
      BY <2>1, <3>1 DEF CallRecords
    <3> QED
      BY <1>7, <2>2, <3>2 DEF ReadSubject, Standing, AccessTypeOK
  <2>3. CASE Finish(h)
    BY <1>7, <2>3, FinishType DEF ReadSubject, Standing, AccessTypeOK
  <2> QED
    BY <1>7, <2>2, <2>3 DEF ReadSubject
<1>8. ASSUME NEW h \in Requests, Sign(h) PROVE AccessTypeOK'
  <2>1. call[h].pair.zones \in ZoneSets
    BY DEF AccessTypeOK, CallRecords, Pairs
  <2> QED
    BY <1>8, <2>1, IssueType DEF Sign, Standing, AccessTypeOK
<1>9. ASSUME NEW h \in Requests, NEW u \in Users, NEW z \in ZoneSets, CreateUser(h, u, z)
      PROVE  AccessTypeOK'
  <2>1. [active |-> TRUE, zones |-> z] \in Rows
    BY DEF Rows
  <2>2. row' \in [Users -> Rows]
    BY <1>9, <2>1 DEF CreateUser, AccessTypeOK
  <2>3. u \notin Admins
    <3>1. RoleOf(u) # "ADMIN"
      BY <1>9 DEF CreateUser, CanCreate
    <3> QED
      BY <3>1 DEF RoleOf, AccessTerms
  <2> QED
    BY <1>9, <2>2, <2>3, FinishType DEF CreateUser, AccessTypeOK
<1>10. ASSUME NEW h \in Requests, NEW u \in Users, NEW r \in Rows, UpdateUser(h, u, r)
      PROVE  AccessTypeOK'
  BY <1>10, FinishType, SetRowType DEF UpdateUser, AccessTypeOK
<1>11. ASSUME NEW h \in Requests, Answer(h) PROVE AccessTypeOK'
  BY <1>11, FinishType DEF Answer, Standing, AccessTypeOK
<1>12. ASSUME NEW i \in Instances, NEW to \in TenantStatuses, ChangeStatus(i, to) PROVE AccessTypeOK'
  <2>1. cache' \in [Instances -> [status : TenantStatuses, until : 0..(MaxClock + StatusTTL)]]
    BY <1>12 DEF ChangeStatus, AccessTypeOK, AccessTerms
  <2> QED
    BY <1>12, <2>1 DEF ChangeStatus, AccessTypeOK
<1>13. CASE Commit
  <2>1. change.to \in TenantStatuses
    BY DEF AccessTypeOK
  <2>2. NoChange \in [to : TenantStatuses, pending : BOOLEAN]
    BY DEF NoChange, TenantStatuses
  <2>3. stopped' \in 0..MaxClock
    BY <1>0, <1>13 DEF Commit, AccessTypeOK
  <2> QED
    BY <1>13, <2>1, <2>2, <2>3 DEF Commit, AccessTypeOK
<1>14. ASSUME NEW u \in Users, ProvisionAdmin(u) PROVE AccessTypeOK'
  BY <1>14 DEF ProvisionAdmin, AccessTypeOK
<1>15. ASSUME NEW u \in Users, InsertAdmin(u) PROVE AccessTypeOK'
  <2>1. [active |-> TRUE, zones |-> {}] \in Rows
    BY DEF Rows, AccessTerms
  <2>2. row' \in [Users -> Rows]
    BY <1>15, <2>1 DEF InsertAdmin, AccessTypeOK
  <2> QED
    BY <1>15, <2>2 DEF InsertAdmin, AccessTypeOK
<1>16. ASSUME NEW u \in Users, NEW a \in BOOLEAN, UpdateAdmin(u, a) PROVE AccessTypeOK'
  <2> DEFINE r == [row[u] EXCEPT !.active = a]
  <2>1. SetRow(u, r) /\ r \in Rows
    BY <1>16 DEF UpdateAdmin, Rows, AccessTypeOK
  <2> HIDE DEF r
  <2> QED
    BY <1>16, <2>1, SetRowType DEF UpdateAdmin, AccessTypeOK
<1>17. CASE Tick
  BY <1>17 DEF Tick, AccessTypeOK, AccessTerms
<1> QED
  BY <1>1, <1>2, <1>3, <1>4, <1>5, <1>6, <1>7, <1>8, <1>9, <1>10, <1>11, <1>12, <1>13, <1>14,
     <1>15, <1>16, <1>17, AccessActions

LEMMA HeldStays ==
  ASSUME AccessTypeOK, Moves, NEW u \in Users, NEW z \in ZoneSets, NEW t \in Nat,
         t <= clock, Held(u, z, t), AccessTypeOK'
  PROVE  Held(u, z, t)'
<1> DEFINE r == [active |-> TRUE, zones |-> z]
<1>1. r \in Rows
  BY DEF Rows
<1>2. u \in hired /\ (row[u] = r \/ left[u][r] >= t)
  BY DEF Held
<1>3. /\ clock \in Nat /\ clock' \in Nat /\ clock <= clock'
      /\ left[u][r] \in Nat /\ left'[u][r] \in Nat
  BY <1>1 DEF AccessTypeOK, Moves
<1>4. /\ u \in hired' /\ left[u][r] <= left'[u][r]
      /\ row[u] = r => row'[u] = r \/ left'[u][r] = clock'
  BY <1>1, <1>2 DEF Moves
<1>5. row'[u] = r \/ left'[u][r] >= t
  BY <1>2, <1>3, <1>4
<1> QED
  BY <1>4, <1>5 DEF Held

LEMMA OperatedStays ==
  ASSUME AccessTypeOK, AccessTypeOK', Moves, NEW t \in Nat, t <= clock, Operated(t)
  PROVE  Operated(t)'
BY DEF Operated, Moves, AccessTypeOK

\* What a request knows is of its record, and stays true while others move.
LEMMA KnowsStays ==
  ASSUME AccessTerms, AccessTypeOK, AccessTypeOK', Moves, NEW c \in CallRecords,
         c.asked <= clock, c.since <= clock, Knows(c)
  PROVE  Knows(c)'
<1>0. /\ clock \in Nat /\ clock' \in Nat /\ stopped \in Nat /\ stopped' \in Nat
      /\ c.asked \in Nat /\ c.since \in Nat /\ c.pair.user \in Users /\ c.pair.zones \in ZoneSets
  BY DEF AccessTypeOK, CallRecords, Pairs
<1>1. CASE c.at = "idle"
  BY <1>1 DEF Knows
<1>2. CASE c.at # "idle"
  <2>1. c.op = "login" /\ LoginKnows(c) => LoginKnows(c)'
    BY <1>0, HeldStays DEF LoginKnows
  <2>2. c.op = "renew" /\ RenewalKnows(c) => RenewalKnows(c)'
    <3> SUFFICES ASSUME RenewalKnows(c)
                 PROVE  RenewalKnows(c)'
      OBVIOUS
    <3>1. c.pair.user \in hired'
      BY DEF Moves, RenewalKnows
    <3>2. c.at \in {"subject", "signing"} => Operated(c.asked)'
      BY <1>0, OperatedStays DEF RenewalKnows
    <3>3. c.at = "signing" => Held(c.pair.user, c.pair.zones, c.asked)'
      BY <1>0, HeldStays DEF RenewalKnows
    <3> QED
      BY <3>1, <3>2, <3>3 DEF RenewalKnows
  <2>3. GuardKnows(c) => GuardKnows(c)'
    <3> SUFFICES ASSUME GuardKnows(c)
                 PROVE  GuardKnows(c)'
      OBVIOUS
    <3>1. c.at = "admitted" => status' = "ACTIVE" \/ c.asked < stopped' + StatusTTL
      BY <1>0 DEF GuardKnows, Moves, AccessTerms
    <3>2. c.pair \in pairs'
      BY DEF GuardKnows, Moves
    <3> QED
      BY <3>1, <3>2 DEF GuardKnows
  <2>4. c.at = "answered" /\ c.got = "ACTIVE" => Operated(c.since)'
    BY <1>0, <1>2, OperatedStays DEF Knows
  <2> QED
    BY <1>2, <2>1, <2>2, <2>3, <2>4 DEF Knows
<1> QED
  BY <1>1, <1>2

\* The requests other than h stay as they are and know what they knew.
LEMMA OthersKnow ==
  ASSUME AccessTerms, AccessInv, AccessTypeOK', Moves, NEW g \in Requests, call'[g] = call[g]
  PROVE  Knows(call[g])'
<1> PICK c : c = call[g]
  OBVIOUS
<1>1. /\ c \in CallRecords /\ c.asked <= clock /\ c.since <= clock
      /\ AccessTypeOK
  BY DEF AccessInv, AccessTypeOK, OfThePast
<1>2. Knows(c)
  BY DEF AccessInv
<1>3. Knows(c)'
  BY <1>1, <1>2, KnowsStays
<1> QED
  BY <1>3 DEF Knows, LoginKnows, RenewalKnows, GuardKnows, Held, Operated

\* The records of requests that a step leaves behind.
NewCall(h, c) == call' = [call EXCEPT ![h] = c]

\* Nothing of the rows, of what is remembered nor of the pairs is of a time to come.
LEMMA PastStays ==
  ASSUME AccessTerms, AccessInv, AccessNext, AccessTypeOK', Moves
  PROVE  OfThePast'
<1>0. /\ AccessTypeOK /\ OfThePast /\ clock \in Nat /\ clock' \in Nat /\ clock <= clock'
      /\ StatusTTL \in Nat /\ stopped \in Nat /\ stopped <= clock
  BY DEF AccessInv, AccessTypeOK, Moves, AccessTerms, OfThePast
<1>1. stopped' <= clock'
  BY <1>0 DEF Moves
<1>2. ASSUME NEW u \in Users, NEW r \in Rows PROVE left'[u][r] <= clock'
  <2>0. /\ left \in [Users -> [Rows -> Nat]] /\ left[u][r] <= clock /\ row \in [Users -> Rows]
    BY <1>0 DEF AccessTypeOK, OfThePast
  <2>1. CASE left' = left
    BY <1>0, <2>0, <2>1
  <2>2. ASSUME NEW w \in Users, NEW s \in Rows, SetRow(w, s), clock' = clock
        PROVE  left'[u][r] <= clock'
    <3>1. CASE left' = [left EXCEPT ![w][row[w]] = clock]
      <4>1. left'[u][r] = clock \/ left'[u][r] = left[u][r]
        BY <2>0, <3>1
      <4> QED
        BY <1>0, <2>0, <2>2, <4>1
    <3> QED
      BY <2>1, <2>2, <3>1 DEF SetRow
  <2>3. ASSUME NEW h \in Requests, NEW w \in Users, NEW s \in Rows, UpdateUser(h, w, s)
        PROVE  left'[u][r] <= clock'
    BY <2>2, <2>3 DEF UpdateUser
  <2>4. ASSUME NEW w \in Users, NEW a \in BOOLEAN, UpdateAdmin(w, a)
        PROVE  left'[u][r] <= clock'
    <3>1. [row[w] EXCEPT !.active = a] \in Rows
      BY <2>0 DEF Rows
    <3> QED
      BY <2>2, <2>4, <3>1 DEF UpdateAdmin
  <2> QED
    BY <2>1, <2>3, <2>4, AccessActions DEF Commit, Tick, Login, Renew, Request, Start, Standing,
       Password, ReadStatus, Remember, ReadSubject, Sign, CreateUser, Answer, ChangeStatus,
       ProvisionAdmin, InsertAdmin
<1>3. ASSUME NEW i \in Instances PROVE cache'[i].until <= clock' + StatusTTL
  <2>0. /\ cache[i].until <= clock + StatusTTL /\ cache[i].until \in Nat
        /\ cache \in [Instances -> [status : TenantStatuses, until : 0..(MaxClock + StatusTTL)]]
    BY <1>0 DEF OfThePast, AccessTypeOK
  <2>1. CASE cache' = cache
    BY <1>0, <2>0, <2>1
  <2>2. ASSUME NEW h \in Requests, Remember(h) PROVE cache'[i].until <= clock' + StatusTTL
    <3>1. call[h].since <= clock /\ call[h].since \in Nat
      BY <1>0 DEF OfThePast, AccessTypeOK, CallRecords
    <3>2. cache' = [cache EXCEPT ![call[h].on] =
                      [status |-> call[h].got, until |-> call[h].since + StatusTTL]]
      BY <2>2, RememberCases
    <3> QED
      BY <1>0, <2>0, <3>1, <3>2
  <2>3. ASSUME NEW j \in Instances, NEW to \in TenantStatuses, ChangeStatus(j, to)
        PROVE  cache'[i].until <= clock' + StatusTTL
    <3>1. cache'[i].until = cache[i].until \/ cache'[i].until = 0
      BY <2>0, <2>3 DEF ChangeStatus
    <3> QED
      BY <1>0, <2>0, <3>1
  <2> QED
    BY <2>1, <2>2, <2>3, AccessActions DEF Commit, Tick, Login, Renew, Request, Start, Standing,
       Password, ReadStatus, ReadSubject, Sign, CreateUser, UpdateUser, Answer,
       ProvisionAdmin, InsertAdmin, UpdateAdmin
<1>4. \A p \in pairs' : p.asked <= p.iat /\ p.iat <= clock'
  <2>1. ASSUME NEW p \in pairs PROVE p.asked <= p.iat /\ p.iat <= clock'
    BY <1>0 DEF OfThePast, AccessTypeOK, Pairs
  <2>2. ASSUME NEW h \in Requests, NEW z \in ZoneSets, Issue(h, z), clock' = clock
        PROVE  \A p \in pairs' : p.asked <= p.iat /\ p.iat <= clock'
    <3> DEFINE q == [call[h].pair EXCEPT !.zones = z, !.iat = clock]
    <3>1. pairs' = pairs \cup {q}
      BY <2>2 DEF Issue
    <3>2. q.asked = call[h].pair.asked /\ q.iat = clock
      BY <1>0 DEF AccessTypeOK, CallRecords, Pairs
    <3>3. call[h].pair.asked <= clock
      BY <1>0 DEF OfThePast
    <3> HIDE DEF q
    <3> QED
      BY <1>0, <2>1, <2>2, <3>1, <3>2, <3>3
  <2>3. ASSUME NEW h \in Requests, Remember(h) \/ Sign(h), pairs' # pairs
        PROVE  \A p \in pairs' : p.asked <= p.iat /\ p.iat <= clock'
    <3>1. call[h].pair.zones \in ZoneSets
      BY <1>0 DEF AccessTypeOK, CallRecords, Pairs
    <3>2. Issue(h, call[h].pair.zones) /\ clock' = clock
      BY <2>3, RememberCases DEF Sign, Standing
    <3> QED
      BY <2>2, <3>1, <3>2
  <2>4. CASE pairs' = pairs
    BY <2>1, <2>4
  <2> QED
    BY <2>3, <2>4, AccessActions DEF Commit, Tick, Login, Renew, Request, Start, Standing,
       Password, ReadStatus, ReadSubject, CreateUser, UpdateUser, Answer, ChangeStatus,
       ProvisionAdmin, InsertAdmin, UpdateAdmin
<1>5. ASSUME NEW g \in Requests
      PROVE  call'[g].asked <= clock' /\ call'[g].since <= clock' /\ call'[g].pair.asked <= clock'
  <2> DEFINE Past(c) == c.asked <= clock' /\ c.since <= clock' /\ c.pair.asked <= clock'
  <2>0. call \in [Requests -> CallRecords] /\ NoCall \in CallRecords /\ NoPair \in Pairs
    BY <1>0, NoCallType DEF AccessTypeOK
  <2>1. ASSUME NEW h \in Requests PROVE Past(call[h])
    <3>1. /\ call[h].asked <= clock /\ call[h].since <= clock /\ call[h].pair.asked <= clock
          /\ call[h].asked \in Nat /\ call[h].since \in Nat /\ call[h].pair.asked \in Nat
      BY <1>0, <2>0 DEF OfThePast, CallRecords, Pairs
    <3> QED
      BY <1>0, <3>1
  <2>2. Past(NoCall)
    BY <1>0 DEF NoCall, NoPair
  <2> HIDE DEF Past
  <2>3. ASSUME NEW h \in Requests, NEW c, Past(c), NewCall(h, c) PROVE Past(call'[g])
    BY <2>0, <2>1, <2>3 DEF NewCall
  <2>4. ASSUME NEW h \in Requests, Finish(h) PROVE Past(call'[g])
    BY <2>2, <2>3, <2>4 DEF Finish, NewCall
  <2>5. ASSUME NEW h \in Requests, NEW at, Proceed(h, at) PROVE Past(call'[g])
    <3>1. Past([call[h] EXCEPT !.at = at])
      BY <2>0, <2>1 DEF Past, CallRecords
    <3> QED
      BY <2>3, <2>5, <3>1 DEF Proceed, NewCall
  <2>6. ASSUME NEW h \in Requests, NEW i \in Instances, NEW u \in Users, Login(h, i, u)
        PROVE  Past(call'[g])
    <3> DEFINE p == [NoPair EXCEPT !.user = u, !.zones = row[u].zones, !.asked = clock]
               c == [NoCall EXCEPT !.at = "password", !.op = "login", !.on = i, !.asked = clock,
                                   !.pair = p]
    <3>0. p.asked = clock
      BY <2>0 DEF Pairs
    <3>3. NewCall(h, c)
      BY <2>6 DEF Login, Start, NewCall
    <3> HIDE DEF p
    <3>1. Past(c)
      <4>1. NoCall.since = 0
        BY DEF NoCall
      <4> QED
        BY <1>0, <2>0, <3>0, <4>1 DEF Past, CallRecords
    <3> HIDE DEF c
    <3> QED
      BY <2>3, <3>1, <3>3
  <2>7. ASSUME NEW h \in Requests, NEW i \in Instances, NEW p \in pairs, Renew(h, i, p)
        PROVE  Past(call'[g])
    <3> DEFINE c == [NoCall EXCEPT !.at = "reading", !.op = "renew", !.on = i, !.asked = clock,
                                   !.since = clock, !.pair = [p EXCEPT !.asked = clock]]
    <3>0. p \in Pairs
      BY <1>0 DEF AccessTypeOK
    <3>1. Past(c)
      BY <1>0, <2>0, <3>0 DEF Past, CallRecords, Pairs
    <3>2. NewCall(h, c)
      BY <2>7 DEF Renew, Start, NewCall
    <3> QED
      BY <2>3, <3>1, <3>2
  <2>8. ASSUME NEW h \in Requests, NEW i \in Instances, NEW p \in pairs, NEW op \in Guarded,
               Request(h, i, p, op)
        PROVE  Past(call'[g])
    <3> DEFINE c(at) == [[NoCall EXCEPT !.op = op, !.on = i, !.asked = clock, !.since = clock,
                                        !.pair = p] EXCEPT !.at = at]
    <3>0. p \in Pairs /\ p.asked <= clock'
      BY <1>0 DEF AccessTypeOK, OfThePast, Pairs
    <3>1. Past(c("admitted")) /\ Past(c("reading"))
      BY <1>0, <2>0, <3>0 DEF Past, CallRecords, Pairs
    <3>2. NewCall(h, c("admitted")) \/ NewCall(h, c("reading"))
      BY <2>8 DEF Request, Start, NewCall
    <3> HIDE DEF c
    <3> QED
      BY <2>3, <3>1, <3>2
  <2>9. ASSUME NEW h \in Requests, Password(h) \/ ReadStatus(h) \/ ReadSubject(h)
        PROVE  Past(call'[g])
    <3>1. Past([call[h] EXCEPT !.at = "reading", !.since = clock])
      BY <1>0, <2>0, <2>1 DEF Past, CallRecords
    <3>2. Past([call[h] EXCEPT !.at = "answered", !.got = status])
      BY <2>0, <2>1 DEF Past, CallRecords
    <3>3. \A z : Past([call[h] EXCEPT !.at = "signing", !.pair.zones = z])
      BY <2>0, <2>1 DEF Past, CallRecords, Pairs
    <3>4. \/ NewCall(h, [call[h] EXCEPT !.at = "reading", !.since = clock])
          \/ NewCall(h, [call[h] EXCEPT !.at = "answered", !.got = status])
          \/ \E z : NewCall(h, [call[h] EXCEPT !.at = "signing", !.pair.zones = z])
          \/ Finish(h)
      BY <2>9 DEF Password, ReadStatus, ReadSubject, NewCall
    <3> QED
      BY <2>3, <2>4, <3>1, <3>2, <3>3, <3>4
  <2>10. ASSUME NEW h \in Requests, Remember(h) \/ Sign(h)
         PROVE  Past(call'[g])
    BY <2>4, <2>5, <2>10, RememberCases DEF Sign, Issue
  <2>11. ASSUME call' = call PROVE Past(call'[g])
    BY <2>1, <2>11 DEF Past
  <2>12. ASSUME NEW h \in Requests,
                Answer(h)
                  \/ (\E u \in Users, z \in ZoneSets : CreateUser(h, u, z))
                  \/ (\E u \in Users, r \in Rows : UpdateUser(h, u, r))
         PROVE  Past(call'[g])
    BY <2>4, <2>12 DEF Answer, CreateUser, UpdateUser
  <2>13. ASSUME Commit \/ Tick \/ (\E i \in Instances, to \in TenantStatuses : ChangeStatus(i, to))
                \/ (\E u \in Users : ProvisionAdmin(u) \/ InsertAdmin(u))
                \/ (\E u \in Users, a \in BOOLEAN : UpdateAdmin(u, a))
         PROVE  Past(call'[g])
    BY <2>11, <2>13 DEF Commit, Tick, ChangeStatus, ProvisionAdmin, InsertAdmin, UpdateAdmin
  <2>14. Past(call'[g])
    BY <2>6, <2>7, <2>8, <2>9, <2>10, <2>12, <2>13, AccessActions
  <2> QED
    BY <2>14 DEF Past
<1> QED
  BY <1>1, <1>2, <1>3, <1>4, <1>5 DEF OfThePast

\* A step of the request h leaves the others as they were.
Only(h) == \A g \in Requests \ {h} : call'[g] = call[g]

LEMMA RemembersInTimeStays ==
  ASSUME AccessTerms, AccessInv, AccessNext, AccessTypeOK', Moves
  PROVE  RemembersInTime'
<1>0. /\ AccessTypeOK /\ OfThePast /\ clock \in Nat /\ clock' \in Nat /\ clock <= clock'
      /\ StatusTTL \in Nat /\ stopped \in Nat /\ stopped' \in Nat
  BY DEF AccessInv, AccessTypeOK, Moves, AccessTerms, OfThePast
<1> SUFFICES ASSUME NEW i \in Instances, cache'[i].status = "ACTIVE"
             PROVE  status' = "ACTIVE" \/ cache'[i].until <= stopped' + StatusTTL
  BY DEF RemembersInTime
<1>1. /\ cache \in [Instances -> [status : TenantStatuses, until : 0..(MaxClock + StatusTTL)]]
      /\ cache[i].until \in Nat /\ cache[i].until <= clock + StatusTTL
  BY <1>0 DEF AccessTypeOK, OfThePast
<1>2. ASSUME cache'[i].until <= cache[i].until, cache[i].status = "ACTIVE", cache'[i].until \in Nat
      PROVE  status' = "ACTIVE" \/ cache'[i].until <= stopped' + StatusTTL
  <2>1. status = "ACTIVE" \/ cache[i].until <= stopped + StatusTTL
    BY <1>2 DEF AccessInv, RemembersInTime
  <2>2. status' = "ACTIVE" \/ stopped' = clock' \/ (status # "ACTIVE" /\ stopped' = stopped)
    BY DEF Moves
  <2> QED
    BY <1>0, <1>1, <1>2, <2>1, <2>2
<1>3. CASE cache' = cache
  BY <1>1, <1>2, <1>3
<1>4. ASSUME NEW h \in Requests, Remember(h)
      PROVE  status' = "ACTIVE" \/ cache'[i].until <= stopped' + StatusTTL
  <2>0. /\ cache' = [cache EXCEPT ![call[h].on] =
                       [status |-> call[h].got, until |-> call[h].since + StatusTTL]]
        /\ call[h].at = "answered" /\ Standing
    BY <1>4, RememberCases
  <2>1. CASE i # call[h].on
    <3>1. cache'[i] = cache[i]
      BY <1>1, <2>0, <2>1
    <3> QED
      BY <1>1, <1>2, <3>1
  <2>2. CASE i = call[h].on
    <3>1. call[h].got = "ACTIVE" /\ cache'[i].until = call[h].since + StatusTTL
      BY <1>1, <2>0, <2>2
    <3>2. Operated(call[h].since)
      BY <2>0, <3>1 DEF AccessInv, Knows
    <3>3. call[h].since \in Nat
      BY <1>0 DEF AccessTypeOK, CallRecords
    <3> QED
      BY <1>0, <2>0, <3>1, <3>2, <3>3 DEF Operated, Standing
  <2> QED
    BY <2>1, <2>2
<1>5. ASSUME NEW j \in Instances, NEW to \in TenantStatuses, ChangeStatus(j, to)
      PROVE  status' = "ACTIVE" \/ cache'[i].until <= stopped' + StatusTTL
  <2>1. /\ cache'[i].status = cache[i].status
        /\ cache'[i].until = cache[i].until \/ cache'[i].until = 0
    BY <1>1, <1>5 DEF ChangeStatus
  <2> QED
    BY <1>1, <1>2, <2>1
<1> QED
  BY <1>3, <1>4, <1>5, AccessActions DEF Commit, Tick, Login, Renew, Request, Start, Standing,
     Password, ReadStatus, ReadSubject, Sign, CreateUser, UpdateUser, Answer,
     ProvisionAdmin, InsertAdmin, UpdateAdmin

\* A pair that is issued is of what was true when it was asked for, or after.
LEMMA SessionsStayFresh ==
  ASSUME AccessTerms, AccessInv, AccessNext, AccessTypeOK', Moves
  PROVE  SessionsAreFresh'
<1>0. /\ AccessTypeOK /\ OfThePast /\ clock \in Nat /\ stopped \in Nat /\ stopped' \in Nat
  BY DEF AccessInv, AccessTypeOK, OfThePast
<1> DEFINE Fine(p) == /\ status' = "ACTIVE" \/ stopped' >= p.asked
                      /\ Held(p.user, p.zones, p.asked)'
<1>1. ASSUME NEW q \in Pairs, q.asked <= clock, Operated(q.asked),
             Held(q.user, q.zones, q.asked)
      PROVE  Fine(q)
  <2>1. q.asked \in Nat /\ q.user \in Users /\ q.zones \in ZoneSets
    BY DEF Pairs
  <2>2. Operated(q.asked)' /\ Held(q.user, q.zones, q.asked)'
    BY <1>0, <1>1, <2>1, OperatedStays, HeldStays
  <2> QED
    BY <1>0, <2>1, <2>2 DEF Operated
<1>2. ASSUME NEW p \in pairs PROVE Fine(p)
  <2>1. p \in Pairs /\ p.asked \in Nat /\ p.asked <= clock
    BY <1>0 DEF AccessTypeOK, OfThePast, Pairs
  <2>2. Operated(p.asked) /\ Held(p.user, p.zones, p.asked)
    BY <1>0, <2>1 DEF AccessInv, SessionsAreFresh, Operated
  <2> QED
    BY <1>1, <2>1, <2>2
<1>3. ASSUME NEW h \in Requests, Remember(h) \/ Sign(h), pairs' # pairs
      PROVE  \A p \in pairs' : Fine(p)
  <2> PICK c : c = call[h]
    OBVIOUS
  <2> PICK q : q = [c.pair EXCEPT !.zones = c.pair.zones, !.iat = clock]
    OBVIOUS
  <2>0. c \in CallRecords /\ c.pair \in Pairs /\ c.pair.zones \in ZoneSets /\ clock \in 0..MaxClock
    BY <1>0 DEF AccessTypeOK, CallRecords, Pairs
  <2>1. q \in Pairs /\ q.user = c.pair.user /\ q.zones = c.pair.zones /\ q.asked = c.pair.asked
    BY <2>0 DEF Pairs
  <2>2. pairs' = pairs \cup {q}
    BY <1>3, RememberCases DEF Sign, Issue
  <2>3. c.pair.asked = c.asked /\ Operated(c.asked) /\ Held(c.pair.user, c.pair.zones, c.asked)
    <3>1. Knows(c)
      BY DEF AccessInv
    <3>2. CASE c.at = "answered" /\ c.op = "login" /\ c.got = "ACTIVE"
      <4>1. LoginKnows(c) /\ Operated(c.since) /\ c.asked <= c.since
        BY <3>1, <3>2 DEF Knows
      <4>2. c.asked \in Nat /\ c.since \in Nat
        BY <2>0 DEF CallRecords
      <4>3. Operated(c.asked)
        BY <1>0, <4>1, <4>2 DEF Operated
      <4> QED
        BY <4>1, <4>3 DEF LoginKnows
    <3>3. CASE c.at = "signing"
      BY <3>1, <3>3 DEF Knows, LoginKnows, RenewalKnows, GuardKnows
    <3> QED
      BY <1>3, <3>2, <3>3, RememberCases DEF Sign
  <2>4. c.pair.asked <= clock
    BY <1>0 DEF OfThePast
  <2>5. Operated(q.asked) /\ Held(q.user, q.zones, q.asked) /\ q.asked <= clock
    BY <2>1, <2>3, <2>4
  <2>6. Fine(q)
    BY <1>1, <2>1, <2>5
  <2> QED
    BY <1>2, <2>2, <2>6
<1> HIDE DEF Fine
<1>4. ASSUME pairs' = pairs PROVE \A p \in pairs' : Fine(p)
  BY <1>2, <1>4
<1>5. \A p \in pairs' : Fine(p)
  <2>1. \/ \E h \in Requests : Remember(h) \/ Sign(h)
        \/ pairs' = pairs
    BY AccessActions DEF Commit, Tick, Login, Renew, Request, Start, Standing,
       Password, ReadStatus, ReadSubject, CreateUser, UpdateUser, Answer, ChangeStatus,
       ProvisionAdmin, InsertAdmin, UpdateAdmin
  <2> QED
    BY <1>3, <1>4, <2>1
<1> QED
  BY <1>5 DEF SessionsAreFresh, Fine

LEMMA ToKnow ==
  ASSUME NEW g \in Requests, NEW c, call'[g] = c, Knows(c)'
  PROVE  Knows(call[g])'
BY DEF Knows, LoginKnows, RenewalKnows, GuardKnows, Held, Operated

LEMMA FinishKnows ==
  ASSUME AccessTypeOK, NEW h \in Requests, Finish(h)
  PROVE  Knows(call[h])'
<1>1. call'[h] = NoCall /\ NoCall.at = "idle"
  BY DEF Finish, AccessTypeOK, NoCall
<1> QED
  BY <1>1 DEF Knows

\* While nothing but the requests and the pairs moves, what was held is held.
LEMMA StandingKeeps ==
  ASSUME Standing
  PROVE  /\ \A u, z, t : Held(u, z, t) => Held(u, z, t)'
         /\ \A t : Operated(t) => Operated(t)'
         /\ hired' = hired /\ clock' = clock /\ status' = status /\ stopped' = stopped
BY DEF Standing, Held, Operated

LEMMA RequestsKnow ==
  ASSUME AccessTerms, AccessInv, AccessNext, AccessTypeOK', Moves, NEW g \in Requests
  PROVE  Knows(call[g])'
<1>0. /\ AccessTypeOK /\ OfThePast /\ RemembersInTime /\ clock \in Nat /\ stopped \in Nat
      /\ \A h \in Requests : Knows(call[h])
      /\ call \in [Requests -> CallRecords] /\ NoCall \in CallRecords /\ NoPair \in Pairs
      /\ StatusTTL \in Nat \ {0} /\ AccessTTL \in Nat
  BY NoCallType DEF AccessInv, AccessTypeOK, AccessTerms
<1>1. CASE call'[g] = call[g]
  BY <1>1, OthersKnow
<1>2. ASSUME NEW i \in Instances, NEW u \in Users, Login(g, i, u) PROVE Knows(call[g])'
  <2> PICK p : p = [NoPair EXCEPT !.user = u, !.zones = row[u].zones, !.asked = clock]
    OBVIOUS
  <2> PICK c : c = [NoCall EXCEPT !.at = "password", !.op = "login", !.on = i, !.asked = clock,
                                  !.pair = p]
    OBVIOUS
  <2>1. /\ c.at = "password" /\ c.op = "login" /\ c.asked = clock
        /\ c.pair.user = u /\ c.pair.zones = row[u].zones /\ c.pair.asked = clock
    BY <1>0 DEF CallRecords, Pairs
  <2>2. call'[g] = c /\ Standing /\ u \in hired /\ row[u].active
    BY <1>0, <1>2 DEF Login, Start
  <2>3. Held(u, row[u].zones, clock)
    <3>1. row[u] \in Rows
      BY <1>0 DEF AccessTypeOK
    <3>2. row[u] = [active |-> TRUE, zones |-> row[u].zones]
      BY <2>2, <3>1 DEF Rows
    <3> QED
      BY <2>2, <3>2 DEF Held
  <2>4. Held(c.pair.user, c.pair.zones, c.asked)'
    BY <2>1, <2>2, <2>3, StandingKeeps
  <2>5. Knows(c)'
    BY <2>1, <2>4 DEF Knows, LoginKnows
  <2> QED
    BY <2>2, <2>5, ToKnow
<1>3. ASSUME NEW i \in Instances, NEW p \in pairs, Renew(g, i, p) PROVE Knows(call[g])'
  <2> PICK q : q = [p EXCEPT !.asked = clock]
    OBVIOUS
  <2> PICK c : c = [NoCall EXCEPT !.at = "reading", !.op = "renew", !.on = i, !.asked = clock,
                                  !.since = clock, !.pair = q]
    OBVIOUS
  <2>0. p \in Pairs /\ p.user \in hired
    BY <1>0 DEF AccessTypeOK, AccessInv, SessionsAreFresh, Held
  <2>1. /\ c.at = "reading" /\ c.op = "renew" /\ c.asked = clock /\ c.since = clock
        /\ c.pair.user = p.user /\ c.pair.asked = clock
    BY <1>0, <2>0 DEF CallRecords, Pairs
  <2>2. call'[g] = c /\ Standing
    BY <1>0, <1>3 DEF Renew, Start
  <2>3. Knows(c)'
    BY <1>0, <2>0, <2>1, <2>2, StandingKeeps DEF Knows, RenewalKnows
  <2> QED
    BY <2>2, <2>3, ToKnow
<1>4. ASSUME NEW i \in Instances, NEW p \in pairs, NEW op \in Guarded, Request(g, i, p, op)
      PROVE  Knows(call[g])'
  <2> PICK b : b = [NoCall EXCEPT !.op = op, !.on = i, !.asked = clock, !.since = clock, !.pair = p]
    OBVIOUS
  <2>a. p \in Pairs /\ p.iat \in Nat /\ clock < p.iat + AccessTTL
    BY <1>0, <1>4 DEF AccessTypeOK, Pairs, Request, Fresh
  <2>b. b.op = op /\ b.asked = clock /\ b.since = clock /\ b.pair = p
    BY <1>0 DEF CallRecords
  <2>c. b \in CallRecords
    <3>1. clock \in 0..MaxClock
      BY <1>0 DEF AccessTypeOK
    <3> QED
      BY <1>0, <2>a, <3>1 DEF CallRecords
  <2>0. /\ p \in Pairs /\ p.iat \in Nat /\ clock < p.iat + AccessTTL
        /\ b \in CallRecords /\ b.op = op /\ b.asked = clock /\ b.since = clock /\ b.pair = p
    BY <2>a, <2>b, <2>c
  <2>1. \/ /\ Remembers(i) /\ cache[i].status = "ACTIVE"
           /\ Start(g, [b EXCEPT !.at = "admitted"])
        \/ Start(g, [b EXCEPT !.at = "reading"])
    BY <1>4 DEF Request
  <2>2. ASSUME NEW at \in {"admitted", "reading"}, Start(g, [b EXCEPT !.at = at]),
               at = "admitted" => status = "ACTIVE" \/ clock < stopped + StatusTTL
        PROVE  Knows(call[g])'
    <3> PICK c : c = [b EXCEPT !.at = at]
      OBVIOUS
    <3>1. c.at = at /\ c.op = op /\ c.asked = clock /\ c.since = clock /\ c.pair = p
      BY <2>0 DEF CallRecords
    <3>2. call'[g] = c /\ Standing /\ c.pair \in pairs'
      BY <1>0, <1>4, <2>2, <3>1 DEF Start, Moves
    <3>3. GuardKnows(c)'
      BY <2>0, <2>2, <3>1, <3>2, StandingKeeps DEF GuardKnows
    <3>4. Knows(c)'
      BY <1>0, <2>2, <3>1, <3>3 DEF Knows
    <3> QED
      BY <3>2, <3>4, ToKnow
  <2>3. cache[i].status = "ACTIVE" /\ Remembers(i) =>
          status = "ACTIVE" \/ clock < stopped + StatusTTL
    <3>1. cache[i].until \in Nat
      BY <1>0 DEF AccessTypeOK
    <3> QED
      BY <1>0, <3>1 DEF Remembers, RemembersInTime
  <2> QED
    BY <2>1, <2>2, <2>3
<1>5. CASE Password(g)
  <2> PICK b : b = call[g]
    OBVIOUS
  <2> PICK c : c = [b EXCEPT !.at = "reading", !.since = clock]
    OBVIOUS
  <2>0. b \in CallRecords /\ b.asked <= clock /\ b.asked \in Nat /\ Knows(b) /\ b.at = "password"
    BY <1>0, <1>5 DEF OfThePast, Password, CallRecords
  <2>1. c.at = "reading" /\ c.op = b.op /\ c.asked = b.asked /\ c.since = clock /\ c.pair = b.pair
    BY <2>0 DEF CallRecords
  <2>2. b.op = "login" /\ LoginKnows(b)
    BY <2>0 DEF Knows, RenewalKnows, GuardKnows
  <2>3. call'[g] = c /\ Standing
    BY <1>0, <1>5 DEF Password
  <2>4. LoginKnows(c)'
    BY <2>1, <2>2, <2>3, StandingKeeps DEF LoginKnows
  <2>5. Knows(c)'
    BY <2>0, <2>1, <2>2, <2>4 DEF Knows
  <2> QED
    BY <2>3, <2>5, ToKnow
<1>6. CASE ReadStatus(g)
  <2> PICK b : b = call[g]
    OBVIOUS
  <2> PICK c : c = [b EXCEPT !.at = "answered", !.got = status]
    OBVIOUS
  <2>0. /\ b \in CallRecords /\ b.asked \in Nat /\ b.since \in Nat /\ Knows(b) /\ b.at = "reading"
        /\ call'[g] = c /\ Standing
    BY <1>0, <1>6 DEF ReadStatus, CallRecords
  <2>1. /\ c.at = "answered" /\ c.got = status
        /\ c.op = b.op /\ c.asked = b.asked /\ c.since = b.since /\ c.pair = b.pair
    BY <2>0 DEF CallRecords
  <2>2. c.asked <= c.since
    BY <2>0, <2>1 DEF Knows
  <2>3. c.got = "ACTIVE" => Operated(c.since)'
    BY <2>0, <2>1, StandingKeeps DEF Operated
  <2>4. b.op = "login" /\ LoginKnows(b) => LoginKnows(c)'
    BY <2>0, <2>1, StandingKeeps DEF LoginKnows
  <2>5. b.op = "renew" /\ RenewalKnows(b) => RenewalKnows(c)'
    BY <2>0, <2>1, StandingKeeps DEF RenewalKnows
  <2>6. b.op \in Guarded /\ GuardKnows(b) => GuardKnows(c)'
    BY <2>0, <2>1 DEF GuardKnows, Moves
  <2>7. Knows(c)'
    BY <2>0, <2>1, <2>2, <2>3, <2>4, <2>5, <2>6 DEF Knows
  <2> QED
    BY <2>0, <2>7, ToKnow
<1>7. CASE Remember(g)
  <2> PICK b : b = call[g]
    OBVIOUS
  <2>0. /\ b \in CallRecords /\ b.asked \in Nat /\ b.since \in Nat /\ Knows(b)
        /\ b.at = "answered" /\ Standing
    <3>1. b.at = "answered" /\ Standing
      BY <1>7, RememberCases
    <3> QED
      BY <1>0, <3>1 DEF CallRecords
  <2>1. b.asked <= b.since /\ (b.got = "ACTIVE" => Operated(b.since))
    BY <2>0 DEF Knows
  <2>2. b.got = "ACTIVE" => Operated(b.asked)
    BY <1>0, <2>0, <2>1 DEF Operated
  <2>3. CASE Finish(g) \/ Issue(g, call[g].pair.zones)
    BY <1>0, <2>3, FinishKnows DEF Issue
  <2>4. CASE Proceed(g, "subject") /\ b.got = "ACTIVE" /\ b.op = "renew"
    <3> PICK c : c = [b EXCEPT !.at = "subject"]
      OBVIOUS
    <3>1. call'[g] = c
      BY <1>0, <2>4 DEF Proceed
    <3>2. c.at = "subject" /\ c.op = b.op /\ c.asked = b.asked /\ c.pair = b.pair
      BY <2>0 DEF CallRecords
    <3>3. RenewalKnows(b)
      BY <2>0, <2>4 DEF Knows
    <3>4. RenewalKnows(c)'
      BY <2>0, <2>2, <2>4, <3>2, <3>3, StandingKeeps DEF RenewalKnows
    <3>5. Knows(c)'
      BY <2>4, <3>2, <3>4 DEF Knows
    <3> QED
      BY <3>1, <3>5, ToKnow
  <2>5. CASE Proceed(g, "admitted") /\ b.got = "ACTIVE" /\ b.op \notin {"login", "renew"}
    <3> PICK c : c = [b EXCEPT !.at = "admitted"]
      OBVIOUS
    <3>1. call'[g] = c
      BY <1>0, <2>5 DEF Proceed
    <3>2. /\ c.at = "admitted" /\ c.op = b.op /\ c.asked = b.asked /\ c.since = b.since
          /\ c.pair = b.pair
      BY <2>0 DEF CallRecords
    <3>3. b.op \in Guarded /\ GuardKnows(b)
      BY <2>0, <2>5 DEF Knows
    <3>4. status' = "ACTIVE" \/ c.asked < stopped' + StatusTTL
      BY <1>0, <2>0, <2>2, <2>5, <3>2, StandingKeeps DEF Operated
    <3>5. GuardKnows(c)'
      BY <3>2, <3>3, <3>4 DEF GuardKnows, Moves
    <3>6. Knows(c)'
      BY <3>2, <3>3, <3>5 DEF Knows
    <3> QED
      BY <3>1, <3>6, ToKnow
  <2> QED
    BY <1>7, <2>3, <2>4, <2>5, RememberCases
<1>8. CASE ReadSubject(g)
  <2> PICK b : b = call[g]
    OBVIOUS
  <2>0. /\ b \in CallRecords /\ Knows(b) /\ b.at = "subject" /\ Standing /\ b.pair \in Pairs
        /\ b.pair.user \in Users
    BY <1>0, <1>8 DEF ReadSubject, CallRecords, Pairs
  <2>1. b.op = "renew" /\ RenewalKnows(b)
    BY <2>0 DEF Knows, LoginKnows, GuardKnows
  <2>2. CASE Finish(g)
    BY <1>0, <2>2, FinishKnows
  <2>3. CASE /\ row[b.pair.user].active
             /\ call' = [call EXCEPT ![g].at = "signing",
                                     ![g].pair.zones = row[b.pair.user].zones]
    <3> PICK c : c = [b EXCEPT !.at = "signing", !.pair.zones = row[b.pair.user].zones]
      OBVIOUS
    <3>1. call'[g] = c
      BY <1>0, <2>3
    <3>2. /\ c.at = "signing" /\ c.op = b.op /\ c.asked = b.asked /\ c.pair.user = b.pair.user
          /\ c.pair.zones = row[b.pair.user].zones /\ c.pair.asked = b.pair.asked
      BY <2>0 DEF CallRecords, Pairs
    <3>3. row[b.pair.user] = [active |-> TRUE, zones |-> row[b.pair.user].zones]
      <4>1. row[b.pair.user] \in Rows
        BY <1>0, <2>0 DEF AccessTypeOK
      <4> QED
        BY <2>3, <4>1 DEF Rows
    <3>4. Held(c.pair.user, c.pair.zones, c.asked)
      BY <2>1, <3>2, <3>3 DEF Held, RenewalKnows
    <3>5. RenewalKnows(c)'
      BY <2>0, <2>1, <3>2, <3>4, StandingKeeps DEF RenewalKnows
    <3>6. Knows(c)'
      BY <2>1, <3>2, <3>5 DEF Knows
    <3> QED
      BY <3>1, <3>6, ToKnow
  <2> QED
    BY <1>8, <2>2, <2>3 DEF ReadSubject
<1>9. ASSUME Sign(g) \/ Answer(g)
             \/ (\E u \in Users, z \in ZoneSets : CreateUser(g, u, z))
             \/ (\E u \in Users, r \in Rows : UpdateUser(g, u, r))
      PROVE  Knows(call[g])'
  BY <1>0, <1>9, FinishKnows DEF Sign, Answer, CreateUser, UpdateUser, Issue
<1>10. ASSUME NEW h \in Requests, h # g,
              \/ \E i \in Instances, u \in Users : Login(h, i, u)
              \/ \E i \in Instances, p \in pairs : Renew(h, i, p)
              \/ \E i \in Instances, p \in pairs, op \in Guarded : Request(h, i, p, op)
              \/ Password(h) \/ ReadStatus(h) \/ Remember(h) \/ ReadSubject(h) \/ Sign(h)
              \/ (\E u \in Users, z \in ZoneSets : CreateUser(h, u, z))
              \/ (\E u \in Users, r \in Rows : UpdateUser(h, u, r))
              \/ Answer(h)
       PROVE  Knows(call[g])'
  <2>1. call'[g] = call[g]
    BY <1>0, <1>10, RememberCases DEF Login, Renew, Request, Start, Password, ReadStatus,
       ReadSubject, Sign, Issue, CreateUser, UpdateUser, Answer, Finish, Proceed
  <2> QED
    BY <1>1, <2>1
<1>11. ASSUME Commit \/ Tick \/ (\E i \in Instances, to \in TenantStatuses : ChangeStatus(i, to))
              \/ (\E u \in Users : ProvisionAdmin(u) \/ InsertAdmin(u))
              \/ (\E u \in Users, a \in BOOLEAN : UpdateAdmin(u, a))
       PROVE  Knows(call[g])'
  <2>1. call'[g] = call[g]
    BY <1>11 DEF Commit, Tick, ChangeStatus, ProvisionAdmin, InsertAdmin, UpdateAdmin
  <2> QED
    BY <1>1, <2>1
<1> QED
  BY <1>2, <1>3, <1>4, <1>5, <1>6, <1>7, <1>8, <1>9, <1>10, <1>11, AccessActions

-----------------------------------------------------------------------------
LEMMA AccessInvStep ==
  ASSUME AccessTerms, AccessInv, [AccessNext]_accessVars
  PROVE  AccessInv'
<1>1. CASE AccessNext
  <2>1. AccessTypeOK /\ OfThePast
    BY DEF AccessInv
  <2>2. AccessTypeOK' /\ Moves
    BY <1>1, <2>1, AccessTypes, AccessMoves
  <2>3. OfThePast' /\ RemembersInTime' /\ SessionsAreFresh'
    BY <1>1, <2>2, PastStays, RemembersInTimeStays, SessionsStayFresh
  <2>4. \A h \in Requests : Knows(call[h])'
    BY <1>1, <2>2, RequestsKnow
  <2> QED
    BY <2>2, <2>3, <2>4 DEF AccessInv
<1>2. CASE UNCHANGED accessVars
  <2>1. AccessTypeOK'
    BY <1>2 DEF accessVars, AccessInv, AccessTypeOK
  <2>2. OfThePast' /\ RemembersInTime'
    BY <1>2 DEF accessVars, AccessInv, OfThePast, RemembersInTime
  <2>3. SessionsAreFresh'
    BY <1>2 DEF accessVars, AccessInv, SessionsAreFresh, Held
  <2>4. \A h \in Requests : Knows(call[h])'
    BY <1>2 DEF accessVars, AccessInv, Knows, LoginKnows, RenewalKnows, GuardKnows, Held, Operated
  <2> QED
    BY <2>1, <2>2, <2>3, <2>4 DEF AccessInv
<1> QED
  BY <1>1, <1>2

LEMMA AccessInvInit ==
  ASSUME AccessTerms, AccessInit
  PROVE  AccessInv
<1>0. NoCall \in CallRecords /\ NoPair \in Pairs /\ NoCall.at = "idle"
      /\ NoCall.asked = 0 /\ NoCall.since = 0 /\ NoCall.pair = NoPair /\ NoPair.asked = 0
  BY NoCallType DEF NoCall, NoPair
<1>1. \A u \in Users : /\ row[u] \in Rows /\ row[u].active /\ row[u].zones \in ZoneSets
                       /\ row[u] = [active |-> TRUE, zones |-> row[u].zones]
  BY DEF AccessInit, Rows
<1>2. \A p \in pairs : /\ p \in Pairs /\ p.asked = 1 /\ p.iat = 1
                       /\ p.user \in Users /\ p.user \in hired /\ p.zones = row[p.user].zones
  <2> SUFFICES ASSUME NEW u \in SignedIn, NEW p,
                      p = [user |-> u, zones |-> row[u].zones, asked |-> 1, iat |-> 1]
               PROVE  /\ p \in Pairs /\ p.asked = 1 /\ p.iat = 1
                      /\ p.user \in Users /\ p.user \in hired /\ p.zones = row[p.user].zones
    BY DEF AccessInit
  <2>1. u \in Users /\ u \in hired /\ row[u].zones \in ZoneSets /\ 1 \in 0..MaxClock
    BY <1>1 DEF AccessTerms, AccessInit
  <2> QED
    BY <2>1 DEF Pairs
<1>3. AccessTypeOK
  <2>1. NoChange \in [to : TenantStatuses, pending : BOOLEAN]
    BY DEF NoChange
  <2>2. [status |-> "NONE", until |-> 0] \in [status : TenantStatuses, until : 0..(MaxClock + StatusTTL)]
    BY DEF AccessTerms
  <2>3. row \in [Users -> Rows]
    BY DEF AccessInit
  <2>4. left \in [Users -> [Rows -> 0..MaxClock]]
    BY DEF AccessInit, AccessTerms
  <2> QED
    BY <1>0, <1>2, <2>1, <2>2, <2>3, <2>4 DEF AccessInit, AccessTerms, AccessTypeOK
<1>4. OfThePast
  BY <1>0, <1>2 DEF AccessInit, AccessTerms, OfThePast
<1>5. RemembersInTime
  BY DEF AccessInit, RemembersInTime
<1>6. SessionsAreFresh
  BY <1>1, <1>2 DEF AccessInit, SessionsAreFresh, Held
<1>7. \A h \in Requests : Knows(call[h])
  BY <1>0 DEF AccessInit, Knows
<1> QED
  BY <1>3, <1>4, <1>5, <1>6, <1>7 DEF AccessInv

LEMMA AccessInvSafe ==
  ASSUME AccessTerms, AccessInv
  PROVE  AccessSafe
<1>0. /\ AccessTypeOK /\ OfThePast /\ clock \in Nat /\ SessionsAreFresh
      /\ AccessTTL \in Nat /\ left \in [Users -> [Rows -> Nat]]
  BY DEF AccessInv, AccessTypeOK, AccessTerms
<1>1. ASSUME NEW h \in Requests, call[h].at = "admitted"
      PROVE  GuardKnows(call[h])
  BY <1>1 DEF AccessInv, Knows, LoginKnows, RenewalKnows
<1>2. SuspensionCuts
  BY <1>1 DEF SuspensionCuts, GuardKnows
<1>3. ClaimsAreRecent
  <2> SUFFICES ASSUME NEW h \in Requests, call[h].at = "admitted", NEW p, p = call[h].pair,
                      NEW r, r = [active |-> TRUE, zones |-> p.zones]
               PROVE  row[p.user] = r
                        \/ call[h].asked < left[p.user][r] + AccessTTL + (p.iat - p.asked)
    BY DEF ClaimsAreRecent
  <2>1. p \in pairs /\ call[h].asked < p.iat + AccessTTL
    BY <1>1 DEF GuardKnows
  <2>2. p \in Pairs /\ p.asked \in Nat /\ p.iat \in Nat /\ p.user \in Users /\ call[h].asked \in Nat
    BY <1>0, <2>1 DEF AccessTypeOK, Pairs, CallRecords
  <2>3. row[p.user] = r \/ left[p.user][r] >= p.asked
    BY <1>0, <2>1 DEF SessionsAreFresh, Held
  <2>4. left[p.user][r] \in Nat
    BY <1>0, <2>2 DEF Rows, Pairs
  <2> QED
    BY <1>0, <2>1, <2>2, <2>3, <2>4
<1> QED
  BY <1>0, <1>2, <1>3 DEF AccessSafe

\* A suspension reaches every session within the time a status is remembered, and a
\* deactivation or a change of zones within that of a token, for any users, instances,
\* requests at once and times of life, whatever the login, the renewals and the status
\* that each instance remembers interleave with (tenant-status.ts, auth.controller.ts).
THEOREM AccessAlwaysSafe ==
  ASSUME AccessTerms
  PROVE  AccessSpec => []AccessSafe
<1>1. AccessInit => AccessInv
  BY AccessInvInit
<1>2. AccessInv /\ [AccessNext]_accessVars => AccessInv'
  BY AccessInvStep
<1>3. AccessInv => AccessSafe
  BY AccessInvSafe
<1> QED
  BY <1>1, <1>2, <1>3, PTL DEF AccessSpec

-----------------------------------------------------------------------------
(* The four at once.                                                        *)

\* However many texts and calls are handled at once, the charges and the bots keep their
\* promises side by side.
THEOREM ConversationAlwaysSafe ==
  ASSUME PixTerms, BotsTerms
  PROVE  PixSpec /\ BotsSpec => []ConversationSafe
<1>1. PixSpec => []PixChargesSafe
  BY PixAlwaysSafe
<1>2. BotsSpec => []BotsSafe
  BY BotsAlwaysSafe
<1>3. PixChargesSafe /\ BotsSafe => ConversationSafe
  BY DEF ConversationSafe
<1> QED
  BY <1>1, <1>2, <1>3, PTL

\* Whoever changes the tree and the users, whoever asks meanwhile: a session reaches what
\* its user is let to, and he sees what he is assigned.
THEOREM VisibilityAlwaysSafe ==
  ASSUME AccessTerms, OrgTerms
  PROVE  AccessSpec /\ OrgSpec => []VisibilitySafe
<1>1. AccessSpec => []AccessSafe
  BY AccessAlwaysSafe
<1>2. OrgSpec => []OrganizationSafe
  BY OrgAlwaysSafe
<1>3. AccessSafe /\ OrganizationSafe => VisibilitySafe
  BY DEF VisibilitySafe
<1> QED
  BY <1>1, <1>2, <1>3, PTL
=============================================================================
