---------------------------- MODULE TelegramBots ----------------------------
(***************************************************************************)
(* The bots of Telegram of a company: each is bound to one zone and        *)
(* receives what clients write through a webhook that Telegram calls       *)
(* (packages/application/src/conversations/telegram-channel, telegram-     *)
(* inbound, apps/api/src/telegram).                                        *)
(*                                                                         *)
(* A row of telegram_channel is known by its bot, and by the id of its     *)
(* hook, new in each registration.  Telegram keeps the token that is valid *)
(* and the hook each bot calls; a call to it may fail before it does       *)
(* anything or after.  Each transaction and each call is a step; a restart *)
(* drops what was in flight.                                               *)
(***************************************************************************)
EXTENDS Naturals, FiniteSets

CONSTANTS
  Bots, BotZones, Chats, Phones,
  Calls,        \* requests and updates in flight
  MaxHooks, MaxTokens, MaxFaults, MaxUpsets, MaxTexts,
  NoPhone

VARIABLES
  channel,      \* channel[b]: the row of telegram_channel of bot b
  link,         \* link[b][c]: the row of telegram_chat_link of chat c
  webhook,      \* webhook[b]: what Telegram calls (0 nothing, Elsewhere another server)
  valid,        \* valid[b]: the token that Telegram accepts of bot b
  gone,         \* gone[b]: the chats that have blocked the bot
  errand,       \* errand[h]: what call h does
  hooks, faults, upsets, texts,
  upset,        \* upset[b]: calls on b overlapped, one was cut, or others moved its webhook
  last          \* last[b][p]: the chat that verified phone p last

botVars == <<channel, link, webhook, valid, gone, errand, hooks, faults, upsets, texts,
             upset, last>>

Elsewhere == MaxHooks + 1

\* A row that does not exist has no hook; a chat that never wrote has no row.
NoChannel == [hook |-> 0, zone |-> CHOOSE z \in BotZones : TRUE, token |-> 0, marked |-> FALSE]
NoLink == [there |-> FALSE, phone |-> NoPhone, blocked |-> FALSE]

NoErrand == [at |-> "idle", op |-> "none", bot |-> CHOOSE b \in Bots : TRUE,
         zone |-> NoChannel.zone, hook |-> 0, token |-> 0, alone |-> TRUE,
         chat |-> CHOOSE c \in Chats : TRUE, phone |-> NoPhone, sees |-> {}]

BotsInit ==
  /\ channel = [b \in Bots |-> NoChannel]
  /\ link = [b \in Bots |-> [c \in Chats |-> NoLink]]
  /\ webhook = [b \in Bots |-> 0] /\ valid = [b \in Bots |-> 1]
  /\ gone = [b \in Bots |-> {}]
  /\ errand = [h \in Calls |-> NoErrand]
  /\ hooks = 0 /\ faults = 0 /\ upsets = 0 /\ texts = 0
  /\ upset = [b \in Bots |-> FALSE]
  /\ last = [b \in Bots |-> [p \in Phones |-> NoPhone]]

Managing(h, b) ==
  errand[h].at # "idle" /\ errand[h].bot = b
    /\ errand[h].op \in {"register", "remove", "rotate", "verify"}

\* An administrator starts op on bot b, perhaps while another call on b runs.
Manage(h, b, e) ==
  LET others == {g \in Calls : Managing(g, b)}
  IN /\ errand[h].at = "idle"
     /\ errand' = [g \in Calls |->
                     IF g = h THEN [e EXCEPT !.bot = b, !.alone = (others = {})]
                     ELSE IF g \in others THEN [errand[g] EXCEPT !.alone = FALSE]
                     ELSE errand[g]]
     /\ upset' = [upset EXCEPT ![b] = @ \/ others # {}]
     /\ UNCHANGED <<channel, link, webhook, valid, gone, hooks, faults, upsets, texts,
                    last>>

To(h, at) == errand' = [errand EXCEPT ![h].at = at]
End(h) == errand' = [errand EXCEPT ![h] = NoErrand]

RowOf(h) ==
  LET r == channel[errand[h].bot] IN errand[h].hook # 0 /\ r.hook = errand[h].hook

\* What findCredentials reads of a channel.
Credentials(b, op, at) ==
  [NoErrand EXCEPT !.at = at, !.op = op, !.hook = channel[b].hook, !.token = channel[b].token]

\* A call to Telegram fails although the token is valid.
Fails(n) == faults' = faults + n /\ faults' <= MaxFaults
-----------------------------------------------------------------------------
(* The management of the bots.                                              *)

\* getMe accepts the token.
Register(h, b, z) ==
  Manage(h, b, [NoErrand EXCEPT !.at = "create", !.op = "register", !.zone = z,
                            !.token = valid[b]])

\* store.create: the row, unless the bot or the zone has one.
Create(h) ==
  LET e == errand[h]
  IN /\ e.at = "create" /\ hooks < MaxHooks
     /\ IF \E b \in Bots : channel[b].hook # 0 /\ (b = e.bot \/ channel[b].zone = e.zone)
          THEN End(h) /\ UNCHANGED <<channel, hooks>>
          ELSE /\ hooks' = hooks + 1
               /\ channel' = [channel EXCEPT ![e.bot] =
                                [hook |-> hooks', zone |-> e.zone, token |-> e.token,
                                 marked |-> FALSE]]
               /\ errand' = [errand EXCEPT ![h].at = "hook", ![h].hook = hooks']
     /\ UNCHANGED <<link, webhook, valid, gone, faults, upsets, texts, upset, last>>

\* setWebhook, which may fail, and even so be applied; registering undoes the row.
SetWebhook(h) ==
  LET e == errand[h]
      refused == e.token # valid[e.bot]
      after == CASE e.op = "register" -> "mark"
                 [] e.op = "rotate" -> "replace"
                 [] OTHER -> "mark"
  IN /\ e.at = "hook"
     /\ \/ ~ refused /\ To(h, after) /\ webhook' = [webhook EXCEPT ![e.bot] = e.hook]
           /\ Fails(0)
        \/ /\ IF e.op = "register" THEN To(h, "undo") ELSE End(h)
           /\ IF refused THEN Fails(0) /\ UNCHANGED webhook
              ELSE Fails(1) /\ webhook' \in {webhook, [webhook EXCEPT ![e.bot] = e.hook]}
     /\ UNCHANGED <<channel, link, valid, gone, hooks, upsets, texts, upset, last>>

\* The row alone is deleted: the links of its chats stay.
EraseRow(h) ==
  LET b == errand[h].bot
  IN IF RowOf(h)
       THEN channel' = [channel EXCEPT ![b] = NoChannel]
              /\ last' = [last EXCEPT ![b] = [p \in Phones |-> NoPhone]]
              /\ UNCHANGED link
       ELSE UNCHANGED <<channel, link, last>>

\* store.remove: the row, and in the same transaction the links of its chats.
Erase(h) ==
  LET b == errand[h].bot
  IN IF RowOf(h)
       THEN /\ channel' = [channel EXCEPT ![b] = NoChannel]
            /\ link' = [link EXCEPT ![b] = [c \in Chats |-> NoLink]]
            /\ last' = [last EXCEPT ![b] = [p \in Phones |-> NoPhone]]
       ELSE UNCHANGED <<channel, link, last>>

Undo(h) ==
  /\ errand[h].at = "undo" /\ Erase(h) /\ End(h)
  /\ UNCHANGED <<webhook, valid, gone, hooks, faults, upsets, texts, upset>>

\* A verification that nothing disturbed leaves the bot in order.
Settled(h) ==
  upset' = [upset EXCEPT ![errand[h].bot] =
              @ /\ ~ (errand[h].op = "verify" /\ errand[h].alone)]

MarkRegistered(h) ==
  /\ errand[h].at = "mark"
  /\ channel' = IF RowOf(h) THEN [channel EXCEPT ![errand[h].bot].marked = TRUE] ELSE channel
  /\ Settled(h) /\ End(h)
  /\ UNCHANGED <<link, webhook, valid, gone, hooks, faults, upsets, texts, last>>

Remove(h, b) ==
  /\ channel[b].hook # 0 /\ Manage(h, b, Credentials(b, "remove", "unhook"))

\* The row is deleted whatever became of the call.
DeleteWebhook(h) ==
  LET e == errand[h]
      deleted == [webhook EXCEPT ![e.bot] = 0]
  IN /\ e.at = "unhook" /\ To(h, "erase")
     /\ \/ e.token = valid[e.bot] /\ webhook' = deleted /\ Fails(0)
        \/ e.token # valid[e.bot] /\ UNCHANGED webhook /\ Fails(0)
        \/ e.token = valid[e.bot] /\ webhook' \in {webhook, deleted} /\ Fails(1)
     /\ UNCHANGED <<channel, link, valid, gone, hooks, upsets, texts, upset, last>>

EraseChannel(h) ==
  /\ errand[h].at = "erase" /\ Erase(h) /\ End(h)
  /\ UNCHANGED <<webhook, valid, gone, hooks, faults, upsets, texts, upset>>

\* The token pasted is of the same bot, and valid.
Rotate(h, b) ==
  /\ channel[b].hook # 0
  /\ Manage(h, b, [Credentials(b, "rotate", "hook") EXCEPT !.token = valid[b]])

ReplaceToken(h) ==
  LET e == errand[h]
  IN /\ e.at = "replace" /\ To(h, "mark")
     /\ channel' = IF RowOf(h) THEN [channel EXCEPT ![e.bot].token = e.token] ELSE channel
     /\ UNCHANGED <<link, webhook, valid, gone, hooks, faults, upsets, texts, upset, last>>

Verify(h, b) ==
  /\ channel[b].hook # 0 /\ Manage(h, b, Credentials(b, "verify", "info"))

\* What is registered is trusted: the verification never registers it again.
TrustWebhook(h) ==
  /\ errand[h].at = "info" /\ Settled(h) /\ End(h)
  /\ UNCHANGED <<channel, link, webhook, valid, gone, hooks, faults, upsets, texts, last>>

\* getWebhookInfo: what is registered is right, or is registered again.
WebhookInfo(h) ==
  LET e == errand[h]
  IN /\ e.at = "info"
     /\ IF e.token # valid[e.bot] THEN End(h) /\ UNCHANGED upset
        ELSE IF webhook[e.bot] = e.hook THEN Settled(h) /\ End(h)
        ELSE To(h, "hook") /\ UNCHANGED upset
     /\ UNCHANGED <<channel, link, webhook, valid, gone, hooks, faults, upsets, texts, last>>
-----------------------------------------------------------------------------
(* What clients write: an update that Telegram delivers to the hook of a   *)
(* channel that exists.  Any other is refused and changes nothing.         *)

Update(h, b, c, p) ==
  /\ errand[h].at = "idle" /\ texts < MaxTexts /\ texts' = texts + 1
  /\ webhook[b] # 0 /\ webhook[b] = channel[b].hook
  /\ gone' = [gone EXCEPT ![b] = @ \ {c}]
  /\ errand' = [errand EXCEPT ![h] =
                  [NoErrand EXCEPT !.at = IF p = NoPhone THEN "open" ELSE "contact",
                                   !.op = "update", !.bot = b, !.chat = c, !.phone = p]]
  /\ UNCHANGED <<channel, link, webhook, valid, hooks, faults, upsets, upset, last>>

\* openChat: whoever writes is not blocked; without a phone he is asked for it, and
\* with one his message goes on to the handlers of every channel.
OpenChat(h) ==
  LET e == errand[h]
  IN /\ e.at = "open" /\ End(h)
     /\ link' = [link EXCEPT ![e.bot][e.chat] = [@ EXCEPT !.there = TRUE, !.blocked = FALSE]]
     /\ UNCHANGED <<channel, webhook, valid, gone, hooks, faults, upsets, texts, upset, last>>

Holders(b, p) == {c \in Chats : link[b][c].phone = p}

\* The first statement of linkPhone sees the chats that hold the phone.
SeeHolders(h) ==
  LET e == errand[h]
  IN /\ e.at = "contact"
     /\ errand' = [errand EXCEPT ![h].at = "link", ![h].sees = Holders(e.bot, e.phone)]
     /\ UNCHANGED <<channel, link, webhook, valid, gone, hooks, faults, upsets, texts,
                    upset, last>>

LinkVerified(b, c, p) == last' = [last EXCEPT ![b][p] = c]

\* The phone is given to the chat and nobody loses it.
LinkBeside(h) ==
  LET e == errand[h]
  IN /\ e.at = "link" /\ End(h)
     /\ link' = [link EXCEPT ![e.bot][e.chat] =
                   [there |-> TRUE, phone |-> e.phone, blocked |-> FALSE]]
     /\ LinkVerified(e.bot, e.chat, e.phone)
     /\ UNCHANGED <<channel, webhook, valid, gone, hooks, faults, upsets, texts, upset>>

\* The rest of linkPhone: the holders that were seen lose the phone and the chat has
\* it; one that was not seen is a violation of the unique index, and nothing changes.
LinkPhone(h) ==
  LET e == errand[h]
      unseen == Holders(e.bot, e.phone) \ (e.sees \cup {e.chat})
  IN /\ e.at = "link" /\ End(h)
     /\ IF unseen # {} THEN UNCHANGED <<link, last>>
        ELSE /\ link' = [link EXCEPT ![e.bot] =
                   [c \in Chats |->
                      IF c = e.chat
                        THEN [there |-> TRUE, phone |-> e.phone, blocked |-> FALSE]
                      ELSE IF @[c].phone = e.phone THEN [@[c] EXCEPT !.phone = NoPhone]
                      ELSE @[c]]]
             /\ LinkVerified(e.bot, e.chat, e.phone)
     /\ UNCHANGED <<channel, webhook, valid, gone, hooks, faults, upsets, texts, upset>>

\* sendText: the bot of the channel, and the chat that holds the phone.
Send(h, b, p) ==
  /\ errand[h].at = "idle" /\ texts < MaxTexts /\ texts' = texts + 1
  /\ channel[b].hook # 0
  /\ \E c \in Holders(b, p) :
       /\ ~ link[b][c].blocked
       /\ errand' = [errand EXCEPT ![h] =
                       [NoErrand EXCEPT !.at = "send", !.op = "send", !.bot = b, !.chat = c,
                                        !.token = channel[b].token]]
  /\ UNCHANGED <<channel, link, webhook, valid, gone, hooks, faults, upsets, upset, last>>

\* Telegram delivers it, refuses the token, or answers 403.
Deliver(h) ==
  LET e == errand[h]
  IN /\ e.at = "send"
     /\ IF e.token = valid[e.bot] /\ e.chat \in gone[e.bot] THEN To(h, "block") ELSE End(h)
     /\ UNCHANGED <<channel, link, webhook, valid, gone, hooks, faults, upsets, texts,
                    upset, last>>

MarkBlocked(h) ==
  LET e == errand[h]
  IN /\ e.at = "block" /\ End(h)
     /\ link' = [link EXCEPT ![e.bot][e.chat].blocked = @ \/ link[e.bot][e.chat].there]
     /\ UNCHANGED <<channel, webhook, valid, gone, hooks, faults, upsets, texts, upset, last>>
-----------------------------------------------------------------------------
(* The world.                                                               *)

Disturbed(b) ==
  /\ upsets < MaxUpsets /\ upsets' = upsets + 1
  /\ UNCHANGED <<channel, link, gone, hooks, faults, texts, last>>

\* BotFather revokes the token: the calls with it fail until it is rotated.
Revoke(b) ==
  /\ Disturbed(b) /\ valid[b] < MaxTokens /\ valid' = [valid EXCEPT ![b] = @ + 1]
  /\ UNCHANGED <<webhook, errand, upset>>

\* Another tool registers its own hook.
Hijack(b) ==
  /\ Disturbed(b) /\ webhook' = [webhook EXCEPT ![b] = Elsewhere]
  /\ upset' = [upset EXCEPT ![b] = TRUE]
  /\ errand' = [h \in Calls |-> IF Managing(h, b) THEN [errand[h] EXCEPT !.alone = FALSE]
                                ELSE errand[h]]
  /\ UNCHANGED valid

\* The server restarts: what was in flight is dropped where it was.
Restart ==
  /\ upsets < MaxUpsets /\ upsets' = upsets + 1
  /\ upset' = [b \in Bots |-> upset[b] \/ \E h \in Calls : Managing(h, b)]
  /\ errand' = [h \in Calls |-> NoErrand]
  /\ UNCHANGED <<channel, link, webhook, valid, gone, hooks, faults, texts, last>>

BlockBot(b, c) ==
  /\ link[b][c].there /\ gone' = [gone EXCEPT ![b] = @ \cup {c}]
  /\ UNCHANGED <<channel, link, webhook, valid, errand, hooks, faults, upsets, texts,
                 upset, last>>

BotsNext ==
  \/ \E h \in Calls :
       \/ \E b \in Bots :
            \/ \E z \in BotZones : Register(h, b, z)
            \/ Remove(h, b) \/ Rotate(h, b) \/ Verify(h, b)
            \/ \E c \in Chats, p \in Phones \cup {NoPhone} : Update(h, b, c, p)
            \/ \E p \in Phones : Send(h, b, p)
       \/ Create(h) \/ SetWebhook(h) \/ Undo(h) \/ MarkRegistered(h)
       \/ DeleteWebhook(h) \/ EraseChannel(h) \/ ReplaceToken(h) \/ WebhookInfo(h)
       \/ OpenChat(h) \/ SeeHolders(h) \/ LinkPhone(h) \/ Deliver(h) \/ MarkBlocked(h)
  \/ \E b \in Bots : Revoke(b) \/ Hijack(b) \/ \E c \in Chats : BlockBot(b, c)
  \/ Restart

BotsSpec == BotsInit /\ [][BotsNext]_botVars
-----------------------------------------------------------------------------
Errands ==
  [at : {"idle", "create", "hook", "undo", "mark", "unhook", "erase", "replace", "info",
         "open", "contact", "link", "send", "block"},
   op : {"none", "register", "remove", "rotate", "verify", "update", "send"},
   bot : Bots, zone : BotZones, hook : 0..MaxHooks, token : 0..MaxTokens, alone : BOOLEAN,
   chat : Chats, phone : Phones \cup {NoPhone}, sees : SUBSET Chats]

BotsTypeOK ==
  /\ channel \in [Bots -> [hook : 0..MaxHooks, zone : BotZones, token : 0..MaxTokens,
                           marked : BOOLEAN]]
  /\ link \in [Bots -> [Chats -> [there : BOOLEAN, phone : Phones \cup {NoPhone},
                                  blocked : BOOLEAN]]]
  /\ webhook \in [Bots -> 0..Elsewhere] /\ valid \in [Bots -> 1..MaxTokens]
  /\ gone \in [Bots -> SUBSET Chats] /\ upset \in [Bots -> BOOLEAN]
  /\ errand \in [Calls -> Errands] /\ hooks \in 0..MaxHooks
  /\ last \in [Bots -> [Phones -> Chats \cup {NoPhone}]]

\* A bot that has a channel receives what its clients write, and a registration that
\* failed leaves the zone free: whatever fails, Telegram calls the hook of every channel
\* that no call works on, unless two calls on the bot overlapped, a restart cut one or
\* another tool took its webhook, and then until a verification goes through ("se
\* autocorrige", verify-telegram-webhook.ts line 23).
ChannelsAreHeard ==
  \A b \in Bots :
    channel[b].hook # 0 /\ ~ upset[b] /\ (\A h \in Calls : ~ Managing(h, b)) =>
      webhook[b] = channel[b].hook

\* The last verified contact wins: a chat speaks for a phone only while it is the last
\* that verified it, of those since the bot was registered (telegram-chat-link.
\* repository.ts line 94), also when two chats share the same contact at once.
LastContactWins ==
  \A b \in Bots, c \in Chats :
    link[b][c].phone # NoPhone => last[b][link[b][c].phone] = c
-----------------------------------------------------------------------------
(* Why they hold: what a call that has its bot to itself can rely on.       *)

\* Nobody else works on the bot of a call that is alone.
AloneIsAlone ==
  \A h, g \in Calls : \A b \in Bots :
    Managing(h, b) /\ errand[h].alone /\ Managing(g, b) => g = h

\* A bot on which calls overlapped is known to be upset.
CalmIsAlone ==
  \A h \in Calls, b \in Bots : Managing(h, b) /\ ~ upset[b] => errand[h].alone

\* The steps of each operation.
Steps == [none |-> {"idle"}, register |-> {"create", "hook", "undo", "mark"},
          remove |-> {"unhook", "erase"}, rotate |-> {"hook", "replace", "mark"},
          verify |-> {"info", "hook", "mark"}, update |-> {"open", "contact", "link"},
          send |-> {"send", "block"}]

\* Where h is in its operation; while it is alone, its row is still the one it read or
\* created, and the hook that it registered is the one Telegram calls.
ErrandKnows(h) ==
  LET e == errand[h] IN
  /\ e.at \in Steps[e.op]
  /\ Managing(h, e.bot) /\ e.alone =>
       /\ e.at # "create" => e.hook # 0 /\ e.hook = channel[e.bot].hook
       /\ e.at \in {"mark", "replace"} => webhook[e.bot] = e.hook

\* A registration after its row, and a removal: the bot may not be heard meanwhile.
Unheard(h) ==
  errand[h].op = "remove" \/ (errand[h].op = "register" /\ errand[h].at # "create")

CalmIsHeard ==
  \A b \in Bots :
    channel[b].hook # 0 /\ ~ upset[b] /\ (\A h \in Calls : Managing(h, b) => ~ Unheard(h)) =>
      webhook[b] = channel[b].hook

\* There is a bot, a zone and a chat, and a token to begin with.
BotsTerms ==
  /\ Bots # {} /\ BotZones # {} /\ Chats # {}
  /\ MaxHooks \in Nat /\ MaxTokens \in Nat \ {0}

BotsInv ==
  /\ BotsTypeOK /\ LastContactWins
  /\ AloneIsAlone /\ CalmIsAlone /\ CalmIsHeard
  /\ \A h \in Calls : ErrandKnows(h)

BotsSafe == BotsTypeOK /\ ChannelsAreHeard /\ LastContactWins /\ BotsTerms /\ BotsInv
=============================================================================
