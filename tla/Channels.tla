------------------------------ MODULE Channels ------------------------------
(***************************************************************************)
(* What lets a request in, and what talks to the world outside: the        *)
(* charges of a conversation (PixCharges), the bots of the channels        *)
(* (TelegramBots), the tree of the zones with who sees what of it          *)
(* (Organization) and the sessions (Access).  They share no table: a       *)
(* behaviour of the four is one of each, side by side.                     *)
(***************************************************************************)
EXTENDS PixCharges, TelegramBots, Organization, Access

\* The conversation that charges a client keeps its dialogue, its menu, its charge and
\* its expected payment together.  Every channel is heard, and a chat speaks for a phone
\* only while it is the last that verified it.
ConversationSafe == PixChargesSafe /\ BotsSafe

\* A suspension, a deactivation and a change of zones reach every session within its
\* time, whatever the requests, the renewals and what is remembered do.  A coordinator
\* sees the zones he is assigned and those below them, a collector the clients last
\* assigned to him.
VisibilitySafe == AccessSafe /\ OrganizationSafe
=============================================================================
