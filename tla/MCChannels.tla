------------------------------ MODULE MCChannels ------------------------------
(***************************************************************************)
(* The instances in which calls fail and are repeated.  A behaviour is one *)
(* of the worlds, which share nothing.                                     *)
(*                                                                         *)
(* Payments: the small world of MCPayments with a crash, a retry and two   *)
(* workers.                                                                *)
(* PixCharges: three texts of a client, two of them handled at once: he    *)
(* asks and chooses twice, while something fails once; or he asks twice    *)
(* and chooses, while what he owes changes.                                *)
(* SettlementPhoto: a branch with an office and the route box of a         *)
(* collector in a zone of it, another branch without boxes, and the box of *)
(* a second collector that is of no zone; two movements and two cuts.      *)
(*                                                                         *)
(* Access: two requests at once, of an administrator while the company is  *)
(* suspended (status); or three, of him and of a coordinator whom he       *)
(* changes, in one instance (staff); or none while the platform changes    *)
(* the company and its administrators (platform).                          *)
(*                                                                         *)
(* TelegramBots: two calls at once on two bots for one zone, while one     *)
(* call fails and one thing happens outside (manage); or on one bot, while *)
(* two chats share one contact (chats).                                    *)
(*                                                                         *)
(* Organization: three zones of two labels, one coordinator, two requests  *)
(* at once (zones); or two requests that replace the clients of one        *)
(* collector, three times (portfolio).                                     *)
(***************************************************************************)
EXTENDS MCPayments, Channels, SettlementPhoto, TLC

CONSTANT Worlds   \* the worlds of a run

ASSUME WorldsAssumption ==
  Worlds \subseteq {"payments", "charges", "photograph", "access", "bots", "zones", "portfolio"}

VARIABLES
  world, story

Branch == <<"north">>
Suburb == <<"north", "east">>

\* In every zone what it collects; or by zones, with a cap above their rates.
Commissions ==
  {[enabled |-> TRUE, default |-> [rate |-> 2, base |-> "COLLECTED"], cap |-> 1,
    zones |-> <<>>],
   [enabled |-> TRUE, default |-> [rate |-> 2, base |-> "PRINCIPAL_RECOVERED"], cap |-> 2,
    zones |-> (Branch :> [rate |-> 2, base |-> "REMITTED"])
                @@ (Suburb :> [rate |-> 1, base |-> "COLLECTED"])]}

MCBoxOrder == <<"office", "route", "loose">>
MCBoxZone == [office |-> Branch, route |-> Suburb, loose |-> <<>>]
MCZonePaths == {Branch, Suburb, <<"south">>}

MCZoneSets == {{}, {Branch}, {Suburb}}

MCInit ==
  /\ world \in Worlds
  /\ Init
  /\ PhotoInit
  /\ owner = [office |-> "nobody", route |-> "k1", loose |-> "k2"]
  /\ opening = [office |-> 3, route |-> 3, loose |-> 0]
  /\ world # "photograph" => config.cap = 1
  /\ PixInit /\ due = 1
  /\ \/ says = <<"pay", "one", "two">>
     \/ says = <<"pay", "pay", "one">> /\ world = "charges"
  /\ story \in CASE world = "access" -> {"status", "staff", "platform"}
                [] world = "bots" -> {"manage", "chats"}
                [] OTHER -> {"none"}
  /\ row = [u \in Users |->
             [active |-> TRUE, zones |-> IF u = "head" THEN {Branch} ELSE {}]]
  /\ AccessInit
  /\ BotsInit
  /\ OrgInit

\* A code lapses in one way only.
Conversing ==
  /\ failures' # failures => says[2] = "one"
  /\ due' # due => says[2] = "pay" /\ due' = 2 /\ charges = <<>>
  /\ \A c \in DOMAIN charges : charges'[c].state # "CANCELED"

\* The last movement is a cut; a payment is all capital, or all interest.
Photographed ==
  /\ moves = 2 => flows' = NoFlows
  /\ \A k \in DOMAIN recovered : recovered'[k] - recovered[k] \in {-3, 0, 3}

\* Who asks for what, in each story.
Admitted ==
  /\ story = "status" =>
       /\ row' = row /\ hired' = hired /\ calls' <= 2
       /\ change'.pending =>
            change'.to = "SUSPENDED" /\ (change = change' \/ cache'[2] = cache[2])
       /\ \A h \in Requests : call'[h] # NoCall =>
            call'[h].pair.user = "boss" /\ call'[h].op \in {"login", "renew", "other"}
  /\ story = "staff" =>
       /\ change' = change /\ provision' = {}
       /\ \A u \in hired : row'[u] # row[u] =>
            /\ u = "head"
            /\ row'[u].active = row[u].active \/ row'[u].zones = row[u].zones
       /\ \A h \in Requests : call'[h] # NoCall =>
            /\ call'[h].on = 1 /\ call'[h].op # "other"
            /\ call'[h].op # "create" =>
                 call'[h].pair.user = IF call'[h].op = "update" THEN "boss" ELSE "head"
  /\ story = "platform" => calls' = 0 /\ clock' = clock

\* Who calls for what, in each story.
Bound ==
  /\ story = "manage" => texts' = 0 /\ gone' = gone
  /\ story = "chats" =>
       /\ upsets' = 0 /\ faults' = 0 /\ ~ upset'[1]
       /\ \A h \in Calls :
            errand'[h].bot = 1 /\ errand'[h].op \notin {"rotate", "verify"}

\* The first zone is of the north.
Ordered ==
  zone[1] # zone'[1] /\ zone[1] = Unborn => zone'[1].path = Branch

MCNext ==
  /\ UNCHANGED <<world, story>>
  /\ \/ world = "payments" /\ Next
        /\ UNCHANGED <<pixVars, photoVars, accessVars, botVars, orgVars>>
     \/ /\ world = "charges" /\ PixNext /\ Conversing
        /\ UNCHANGED <<vars, photoVars, accessVars, botVars, orgVars>>
     \/ /\ world = "photograph" /\ PhotoNext /\ Photographed
        /\ UNCHANGED <<vars, pixVars, accessVars, botVars, orgVars>>
     \/ /\ world = "access" /\ AccessNext /\ Admitted
        /\ UNCHANGED <<vars, pixVars, photoVars, botVars, orgVars>>
     \/ /\ world = "bots" /\ BotsNext /\ Bound
        /\ UNCHANGED <<vars, pixVars, photoVars, accessVars, orgVars>>
     \/ /\ \/ world = "zones" /\ ZonesNext
           \/ world = "portfolio" /\ PortfolioNext
        /\ Ordered
        /\ UNCHANGED <<vars, pixVars, photoVars, accessVars, botVars>>

\* No handler differs from another, in any world.
Symmetry == Permutations(Requests)

MCSpec ==
  MCInit /\ [][MCNext]_<<vars, pixVars, photoVars, accessVars, botVars, orgVars, world, story>>
=============================================================================
