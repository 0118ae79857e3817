---------------------------- MODULE MCCashLedger ----------------------------
(***************************************************************************)
(* Three small worlds for module CashLedger; a behaviour is one of them.   *)
(* "treasury": route box 2 and bank box 4, transfers between them that     *)
(* cross, PIX entries and the adjustment of a count.  "views": the         *)
(* collector opens his box, which locks nothing, while it is paid into and *)
(* given to another.  "remittances": route box 2 and office box 3, with    *)
(* the two remittances 11 and 12 of a collector.                           *)
(***************************************************************************)
EXTENDS CashLedger

VARIABLE world

OpsOf ==
  [treasury    |-> {"pix", "transfer", "adjust"},
   views       |-> {"pay", "mine"},
   remittances |-> {"pay", "out", "submit", "receive", "close"}]

\* The requests of this world.  Of "remittances" two are bounds: money other than
\* deliveries moves at the route box, and no more when both remittances are received.
Belongs(j) ==
  /\ j.op \in OpsOf[world]
  /\ world = "treasury" => j.box \in {2, 4}
  /\ j.op \in {"pay", "out"} => j.box = 2
  /\ world = "remittances" /\ j.op \in {"pay", "out"} =>
       \E r \in Remittances : remit[r].status # "RECEIVED"

MCInit ==
  /\ Init
  /\ world \in DOMAIN OpsOf
  /\ world # "views" => owner = [b \in RouteBoxes |-> CHOOSE c \in Collectors : TRUE]

\* A bound: there is a remittance left for each declaration in flight.
RemittancesLeft ==
  Cardinality({w \in Workers : job[w].op = "submit"})
    <= Cardinality({r \in Remittances : remit[r].status = "NONE"})

MCNext ==
  /\ Next
  /\ \A w \in Workers : job[w] = Idle => job'[w] = Idle \/ Belongs(job'[w])
  /\ world # "treasury" => count' = count
  /\ world # "views" => owner' = owner
  /\ RemittancesLeft'
  /\ UNCHANGED world

MCSpec == MCInit /\ [][MCNext]_<<vars, world>> /\ Fairness
=============================================================================
