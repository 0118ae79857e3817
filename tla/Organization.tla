---------------------------- MODULE Organization ----------------------------
(***************************************************************************)
(* The tree of the zones of a company, the coordinators of each, and the   *)
(* clients of a collector (zones.ts, collectors.ts, zone-path.ts and their *)
(* repositories).  What a coordinator may see is decided on the paths of   *)
(* the zones, which are written when a zone is created and never again;    *)
(* the parent of a zone is kept beside its path.                           *)
(*                                                                         *)
(* A handler is several transactions, and the statements of one may see    *)
(* what others committed in between.                                       *)
(***************************************************************************)
EXTENDS ZonePath, FiniteSets

CONSTANTS
  Zones,         \* ids, numbered in the order of their creation
  Labels,        \* toLabel of the names
  Root,          \* no parent
  Heads,
  Clients,       \* of the borrowers, for one collector
  Tasks,      \* requests in flight
  MaxNames, MaxAssigned,          \* bounds of the changes
  MaxReplaced

VARIABLES
  zone,          \* zone[z]: its row
  assigned,      \* zone_coordinator: pairs of a zone and a coordinator
  portfolio,     \* collector_client: the clients of the collector
  work,          \* work[h]: what h goes on with
  names, assignments, replaced,   \* counters of the changes
  raced,         \* history: zones whose creation, assignment or removal overlapped a removal
  asked, burst   \* history: the clients last asked for, and the others it may find

orgVars == <<zone, assigned, portfolio, work, names, assignments, replaced, raced,
             asked, burst>>

Unborn == [state |-> "unborn"]
Live(z) == zone[z].state = "live"
Resting == [at |-> "idle"]
AtHand(h) == work[h].at = "idle"
Continue(h, record) == work' = [work EXCEPT ![h] = record]

PathBelow(parent) == IF parent = Root THEN <<>> ELSE zone[parent].path

\* What zoneScopePredicate shows to a coordinator.
Seen(c) ==
  {z \in Zones : Live(z) /\ \E w \in Zones : Live(w) /\ <<w, c>> \in assigned
                                             /\ Within(zone[z].path, zone[w].path)}
-----------------------------------------------------------------------------
OrgInit ==
  /\ zone = [z \in Zones |-> Unborn]
  /\ assigned = {} /\ portfolio = {} /\ raced = {} /\ asked = {} /\ burst = {}
  /\ work = [h \in Tasks |-> Resting]
  /\ names = 0 /\ assignments = 0 /\ replaced = 0

\* CreateZoneHandler reads the parent...
ReadParent(h, p, l) ==
  /\ AtHand(h)
  /\ p # Root => Live(p)
  /\ Continue(h, [at |-> "insert", parent |-> p, path |-> Append(PathBelow(p), l)])
  /\ UNCHANGED <<zone, assigned, portfolio, names, assignments, replaced, raced, asked, burst>>

\* ... and inserts its child in another transaction.
InsertZone(h) ==
  \E z \in Zones :
    LET p == work[h].parent IN
    /\ work[h].at = "insert"
    /\ zone[z] = Unborn /\ \A w \in Zones : w < z => zone[w] # Unborn
    /\ zone' = [zone EXCEPT ![z] = [state |-> "live", parent |-> p, path |-> work[h].path]]
    /\ raced' = IF \/ p # Root /\ ~ Live(p)
                   \/ \E g \in Tasks : work[g].at = "erase" /\ work[g].zone = p
                THEN raced \cup {z} ELSE raced
    /\ Continue(h, Resting)
    /\ UNCHANGED <<assigned, portfolio, names, assignments, replaced, asked, burst>>

\* The path follows the name.
RenamePath(z, l) ==
  /\ Live(z) /\ names < MaxNames
  /\ zone' = [zone EXCEPT ![z].path = Append(SubSeq(@, 1, Len(@) - 1), l)]
  /\ names' = names + 1
  /\ UNCHANGED <<assigned, portfolio, work, assignments, replaced, raced, asked, burst>>

\* UpdateZoneHandler: the name, which nothing reads, changes; the path does not.
Rename(z, l) ==
  /\ Live(z) /\ names < MaxNames
  /\ names' = names + 1
  /\ UNCHANGED <<zone, assigned, portfolio, work, assignments, replaced, raced, asked, burst>>

\* Nothing is counted.
ChildlessAlways(z) == Live(z)

\* Whether the count of the zones below a path, which includes those of a twin, is none.
Childless(z) ==
  Live(z) /\ \A w \in Zones \ {z} : Live(w) => ~ Within(zone[w].path, zone[z].path)

\* DeleteZoneHandler: it counts...
CountBelow(h, z) ==
  /\ AtHand(h) /\ Childless(z)
  /\ Continue(h, [at |-> "erase", zone |-> z])
  /\ UNCHANGED <<zone, assigned, portfolio, names, assignments, replaced, raced, asked, burst>>

\* The assignments of the zone are left.
EraseZoneOnly(h) ==
  /\ work[h].at = "erase"
  /\ zone' = [zone EXCEPT ![work[h].zone] = [state |-> "gone"]]
  /\ Continue(h, Resting)
  /\ UNCHANGED <<assigned, portfolio, names, assignments, replaced, raced, asked, burst>>

\* ... and erases the assignments and the zone, all in one transaction.
EraseZone(h) ==
  LET z == work[h].zone IN
  /\ work[h].at = "erase"
  /\ assigned' = {a \in assigned : a[1] # z}
  /\ zone' = [zone EXCEPT ![z] = [state |-> "gone"]]
  /\ Continue(h, Resting)
  /\ UNCHANGED <<portfolio, names, assignments, replaced, raced, asked, burst>>

\* AssignCoordinatorHandler reads the zone and the user...
ReadZone(h, z, c) ==
  /\ AtHand(h) /\ Live(z) /\ assignments < MaxAssigned
  /\ assignments' = assignments + 1
  /\ Continue(h, [at |-> "assign", zone |-> z, coordinator |-> c])
  /\ UNCHANGED <<zone, assigned, portfolio, names, replaced, raced, asked, burst>>

\* ... and inserts the pair in another transaction.
Assign(h) ==
  LET z == work[h].zone IN
  /\ work[h].at = "assign"
  /\ assigned' = assigned \cup {<<z, work[h].coordinator>>}
  /\ raced' = IF Live(z) THEN raced ELSE raced \cup {z}
  /\ Continue(h, Resting)
  /\ UNCHANGED <<zone, portfolio, names, assignments, replaced, asked, burst>>

Replacing == {h \in Tasks : work[h].at \in {"delete", "fill"}}

\* AssignCollectorClientsHandler: its delete sees the rows that are committed...
Replace(h, clients) ==
  /\ AtHand(h) /\ replaced < MaxReplaced /\ replaced' = replaced + 1
  /\ work' = [g \in Tasks |->
                IF g = h THEN [at |-> "delete", clients |-> clients, rows |-> portfolio,
                               alone |-> Replacing = {}]
                ELSE IF g \in Replacing THEN [work[g] EXCEPT !.alone = FALSE]
                ELSE work[g]]
  /\ burst' = clients \cup IF Replacing = {} THEN portfolio ELSE burst
  /\ UNCHANGED <<zone, assigned, portfolio, names, assignments, raced, asked>>

\* ... waits for whoever deletes one of them, and passes over those that are gone;
DeleteRows(h) ==
  /\ work[h].at = "delete"
  /\ \A g \in Tasks : work[g].at = "fill" => work[g].rows \cap work[h].rows = {}
  /\ Continue(h, [work[h] EXCEPT !.at = "fill", !.rows = @ \cap portfolio])
  /\ UNCHANGED <<zone, assigned, portfolio, names, assignments, replaced, raced, asked, burst>>

\* The new clients are added to those there are.
FillBeside(h) ==
  /\ work[h].at = "fill"
  /\ portfolio' = portfolio \cup work[h].clients /\ asked' = work[h].clients
  /\ burst' = IF work[h].alone THEN asked' ELSE burst
  /\ Continue(h, Resting)
  /\ UNCHANGED <<zone, assigned, names, assignments, replaced, raced>>

\* ... then inserts, unless another committed one of its rows meanwhile.
Fill(h) ==
  LET kept == portfolio \ work[h].rows
      ends == work[h].clients \cap kept = {}
  IN /\ work[h].at = "fill"
     /\ portfolio' = IF ends THEN kept \cup work[h].clients ELSE portfolio
     /\ asked' = IF ends THEN work[h].clients ELSE asked
     /\ burst' = IF work[h].alone THEN asked' ELSE burst
     /\ Continue(h, Resting)
     /\ UNCHANGED <<zone, assigned, names, assignments, replaced, raced>>

ZonesNext ==
  \/ \E h \in Tasks :
       \/ InsertZone(h) \/ EraseZone(h) \/ Assign(h)
       \/ \E p \in Zones \cup {Root}, l \in Labels : ReadParent(h, p, l)
       \/ \E z \in Zones : CountBelow(h, z) \/ \E c \in Heads : ReadZone(h, z, c)
  \/ \E z \in Zones, l \in Labels : Rename(z, l)

PortfolioNext ==
  \E h \in Tasks :
    DeleteRows(h) \/ Fill(h) \/ \E clients \in SUBSET Clients : Replace(h, clients)

OrgNext == ZonesNext \/ PortfolioNext

OrgSpec == OrgInit /\ [][OrgNext]_orgVars
-----------------------------------------------------------------------------
\* A zone and those above it by their parents: what belongs to every set of zones that
\* has z and, with a zone, its parent.
Upward(S) == \A w \in S : Live(w) /\ zone[w].parent # Root => zone[w].parent \in S
Above(z) == {w \in Zones : \A S \in SUBSET Zones : z \in S /\ Upward(S) => w \in S}

\* A coordinator sees the zones he is assigned, those below them, and no other: the
\* paths tell what the parents tell, whatever is renamed or removed.  The one exception
\* is a twin: zones of one parent may share a label, and so whatever is seen of one
\* (zone-path.ts lines 22-25 leave that to the repository).
ScopeIsSubtree ==
  \A c \in Heads, z \in Zones :
    Live(z) /\ Above(z) \cap raced = {} =>
      (z \in Seen(c) <=>
         \E w, u \in Zones : /\ Live(w) /\ <<w, c>> \in assigned
                             /\ Live(u) /\ zone[u].path = zone[w].path /\ u \in Above(z))

\* A zone that is removed leaves no subzone and no coordinator behind (zones.ts line
\* 82), except to who was creating or assigning at that moment.
NothingIsOrphaned ==
  /\ \A z \in Zones :
       Live(z) /\ zone[z].parent # Root /\ z \notin raced => Live(zone[z].parent)
  /\ \A a \in assigned : Live(a[1]) \/ a[1] \in raced

\* A collector has all the clients last assigned to him, and others only if they were
\* assigned at the same time (collectors.ts lines 12-14).
PortfolioAsAsked == asked \subseteq portfolio /\ portfolio \subseteq burst

-----------------------------------------------------------------------------
(* Why they hold: what a request in flight can rely on.                     *)

Records == {Unborn, [state |-> "gone"]}
             \cup [state : {"live"}, parent : Zones \cup {Root}, path : Seq(Labels)]

Intents ==
  {Resting} \cup [at : {"insert"}, parent : Zones \cup {Root}, path : Seq(Labels)]
    \cup [at : {"erase"}, zone : Zones]
    \cup [at : {"assign"}, zone : Zones, coordinator : Heads]
    \cup [at : {"delete", "fill"}, clients : SUBSET Clients, rows : SUBSET Clients,
          alone : BOOLEAN]

OrgTypeOK ==
  /\ zone \in [Zones -> Records] /\ work \in [Tasks -> Intents]
  /\ assigned \subseteq Zones \X Heads /\ raced \subseteq Zones
  /\ portfolio \subseteq Clients /\ asked \subseteq Clients /\ burst \subseteq Clients

\* The path is one label, or one more than that of the parent, which was there first
\* and whose path never changed since.
Follows(path, parent) ==
  IF parent = Root THEN Len(path) = 1
  ELSE /\ Len(path) > 1 /\ zone[parent] # Unborn
       /\ Live(parent) => Len(path) = Len(zone[parent].path) + 1 /\ Within(path, zone[parent].path)

PathsFollow ==
  /\ \A z \in Zones : Live(z) => Follows(zone[z].path, zone[z].parent)
  /\ \A h \in Tasks : work[h].at = "insert" => Follows(work[h].path, work[h].parent)

\* Who erases a zone counted those below it, and who came since is known to have raced.
EraserKnows ==
  \A h \in Tasks : work[h].at = "erase" =>
    /\ zone[work[h].zone] # Unborn
    /\ \A z \in Zones : Live(z) /\ zone[z].parent = work[h].zone => z \in raced

\* Who replaces the clients alone has all the rows there are.
ReplacerKnows ==
  \A h \in Replacing :
    /\ work[h].clients \subseteq burst
    /\ work[h].alone => Replacing = {h} /\ portfolio \subseteq work[h].rows

OrgTerms == Zones \subseteq Nat /\ Root \notin Zones

OrgInv ==
  /\ OrgTypeOK /\ PathsFollow /\ EraserKnows /\ ReplacerKnows
  /\ NothingIsOrphaned /\ PortfolioAsAsked

OrganizationSafe ==
  ScopeIsSubtree /\ NothingIsOrphaned /\ PortfolioAsAsked /\ OrgTerms /\ OrgInv
=============================================================================
