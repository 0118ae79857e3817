------------------------------- MODULE Access -------------------------------
(***************************************************************************)
(* Who may act in a company: the login and the renewal of a session        *)
(* (auth.controller.ts), the guard of every request (jwt.guard.ts,         *)
(* require-role.ts) with the status of the company that each instance of   *)
(* the server remembers for a while (tenant-status.ts), the platform that  *)
(* suspends the company (tenants.repository.ts, tenants.ts) and the users, *)
(* created and changed by requests that are guarded in the same way        *)
(* (users.ts, users.repository.ts).                                        *)
(*                                                                         *)
(* One company.  A pair of tokens is the record of what it was signed      *)
(* with: nobody forges one.  A wrong password changes nothing and is left  *)
(* out.  Between two awaits of a handler the clock and the others move.    *)
(***************************************************************************)
EXTENDS Naturals, Sequences, FiniteSets

CONSTANTS
  Admins, Coordinators, Agents,   \* the users, by their role (never changed)
  Hired,       \* those of them that exist from the beginning
  SignedIn,        \* those of them that have a session from the beginning
  Instances,   \* the processes of the server
  Requests,       \* requests in flight
  ZoneSets,    \* the sets of zone paths a user may be given
  StatusTTL,   \* STATUS_CACHE_MS
  AccessTTL,   \* TOKEN_TTL.access
  RefreshTTL,  \* TOKEN_TTL.refresh
  MaxClock, MaxPairs, MaxChanges, MaxCalls

VARIABLES
  clock,
  status,      \* tenant.status; "NONE" once the company is deleted
  change,      \* the change of the status in a transaction not yet committed
  cache,       \* cache[i]: what instance i remembers of the status, and until when
  hired,       \* the users that have a row
  row,         \* row[u]: the row of app_user
  provision,   \* the administrators that the platform is creating
  pairs,       \* the pairs of tokens issued
  call,        \* call[h]: the request in h
  stopped,     \* when the company was last active, if it is not
  left,        \* left[u][r]: when r last was the row of u, if it is not
  changes, calls

accessVars == <<clock, status, change, cache, hired, row, provision, pairs, call,
                stopped, left, changes, calls>>

Users == Admins \cup Coordinators \cup Agents

RoleOf(u) == CASE u \in Admins -> "ADMIN"
               [] u \in Coordinators -> "COORDINATOR"
               [] OTHER -> "COLLECTOR"

Rows == [active : BOOLEAN, zones : ZoneSets]

\* CREATABLE_ROLES, within what the contract of the request accepts.
CanCreate(actor, role) ==
  \/ actor = "ADMIN" /\ role \in {"COORDINATOR", "COLLECTOR"}
  \/ actor = "COORDINATOR" /\ role = "COLLECTOR"

\* isWithinScope: the scope itself or a descendant of it.
IsWithinScope(path, scopes) ==
  \E s \in scopes : Len(s) <= Len(path) /\ SubSeq(path, 1, Len(s)) = s

\* What a request past the guard asks for.
Guarded == {"create", "update", "other"}

NoChange == [to |-> "NONE", pending |-> FALSE]

NoPair == [user |-> CHOOSE u \in Users : TRUE, zones |-> {}, asked |-> 0, iat |-> 0]

NoCall == [at |-> "idle", op |-> "none", on |-> CHOOSE i \in Instances : TRUE,
           asked |-> 0, since |-> 0, got |-> "NONE", pair |-> NoPair]

AccessInit ==
  /\ clock = 1
  /\ status = "ACTIVE" /\ change = NoChange
  /\ cache = [i \in Instances |-> [status |-> "NONE", until |-> 0]]
  /\ hired = Hired
  /\ row \in [Users -> {r \in Rows : r.active}]
  /\ provision = {}
  /\ pairs = {[user |-> u, zones |-> row[u].zones, asked |-> 1, iat |-> 1] : u \in SignedIn}
  /\ call = [h \in Requests |-> NoCall]
  /\ stopped = 0 /\ left = [u \in Users |-> [r \in Rows |-> 0]]
  /\ changes = 0 /\ calls = 0

Fresh(pair, ttl) == clock < pair.iat + ttl

\* tenantStatusOf without `fresh'.
Remembers(i) == cache[i].until > clock

Proceed(h, at) == call' = [call EXCEPT ![h].at = at]
Finish(h) == call' = [call EXCEPT ![h] = NoCall]

Standing == UNCHANGED <<clock, status, change, hired, row, provision, stopped, left,
                        changes>>

Start(h, c) ==
  /\ call[h].at = "idle" /\ calls < MaxCalls
  /\ call' = [call EXCEPT ![h] = c] /\ calls' = calls + 1
  /\ Standing /\ UNCHANGED <<cache, pairs>>
-----------------------------------------------------------------------------
(* Sessions.                                                                *)

\* findAppUserForLogin and the check of `active'; the password comes next.
Login(h, i, u) ==
  /\ u \in hired /\ row[u].active
  /\ Start(h, [NoCall EXCEPT !.at = "password", !.op = "login", !.on = i, !.asked = clock,
                             !.pair = [NoPair EXCEPT !.user = u, !.zones = row[u].zones,
                                                     !.asked = clock]])

\* The password is right: the status is read, whatever is remembered.
Password(h) ==
  /\ call[h].at = "password"
  /\ call' = [call EXCEPT ![h].at = "reading", ![h].since = clock]
  /\ Standing /\ UNCHANGED <<cache, pairs, calls>>

\* A renewal that trusts what the instance remembers of the status.
RenewFromCache(h, i, p) ==
  /\ Fresh(p, RefreshTTL)
  /\ Start(h, [NoCall EXCEPT !.at = IF Remembers(i) THEN "subject" ELSE "reading",
                             !.op = "renew", !.on = i, !.asked = clock,
                             !.since = clock, !.pair = [p EXCEPT !.asked = clock]])

Renew(h, i, p) ==
  /\ Fresh(p, RefreshTTL)
  /\ Start(h, [NoCall EXCEPT !.at = "reading", !.op = "renew", !.on = i, !.asked = clock,
                             !.since = clock, !.pair = [p EXCEPT !.asked = clock]])

\* JwtGuard: what the instance remembers of the status is enough while it lasts.
Request(h, i, p, op) ==
  LET c == [NoCall EXCEPT !.op = op, !.on = i, !.asked = clock, !.since = clock, !.pair = p]
  IN /\ Fresh(p, AccessTTL)
     /\ IF Remembers(i)
          THEN cache[i].status = "ACTIVE" /\ Start(h, [c EXCEPT !.at = "admitted"])
          ELSE Start(h, [c EXCEPT !.at = "reading"])

ReadStatus(h) ==
  /\ call[h].at = "reading"
  /\ call' = [call EXCEPT ![h].at = "answered", ![h].got = status]
  /\ Standing /\ UNCHANGED <<cache, pairs, calls>>

Issue(h, zones) ==
  /\ pairs' = pairs \cup {[call[h].pair EXCEPT !.zones = zones, !.iat = clock]}
  /\ Finish(h)

\* It is remembered for StatusTTL from the time the answer comes.
RememberFromNow(h) ==
  LET c == call[h]
  IN /\ c.at = "answered"
     /\ cache' = [cache EXCEPT ![c.on] = [status |-> c.got, until |-> clock + StatusTTL]]
     /\ IF c.got # "ACTIVE" THEN Finish(h) /\ UNCHANGED pairs
        ELSE CASE c.op = "login" -> Issue(h, c.pair.zones)
               [] c.op = "renew" -> Proceed(h, "subject") /\ UNCHANGED pairs
               [] OTHER -> Proceed(h, "admitted") /\ UNCHANGED pairs
     /\ Standing /\ UNCHANGED calls

\* The status is remembered from the time the reading began; whoever waited for
\* it goes on if the company operates (isTenantOperating).
Remember(h) ==
  LET c == call[h]
  IN /\ c.at = "answered"
     /\ cache' = [cache EXCEPT ![c.on] = [status |-> c.got, until |-> c.since + StatusTTL]]
     /\ IF c.got # "ACTIVE" THEN Finish(h) /\ UNCHANGED pairs
        ELSE CASE c.op = "login" -> Issue(h, c.pair.zones)
               [] c.op = "renew" -> Proceed(h, "subject") /\ UNCHANGED pairs
               [] OTHER -> Proceed(h, "admitted") /\ UNCHANGED pairs
     /\ Standing /\ UNCHANGED calls

\* The claims of the old token are signed again.
ReadClaims(h) ==
  /\ call[h].at = "subject" /\ Proceed(h, "signing")
  /\ Standing /\ UNCHANGED <<cache, pairs, calls>>

\* loadSessionSubject: the role and the zones of now, of a user still active.
ReadSubject(h) ==
  LET u == call[h].pair.user
  IN /\ call[h].at = "subject"
     /\ IF row[u].active
          THEN call' = [call EXCEPT ![h].at = "signing", ![h].pair.zones = row[u].zones]
          ELSE Finish(h)
     /\ Standing /\ UNCHANGED <<cache, pairs, calls>>

Sign(h) ==
  /\ call[h].at = "signing" /\ Issue(h, call[h].pair.zones)
  /\ Standing /\ UNCHANGED <<cache, calls>>
-----------------------------------------------------------------------------
(* Users, changed by a request once it is admitted: requireRole verifies   *)
(* the token again, and the use case acts on its claims.                   *)

SetRow(u, r) ==
  /\ row' = [row EXCEPT ![u] = r]
  /\ left' = IF r = row[u] THEN left ELSE [left EXCEPT ![u][row[u]] = clock]

Valid(h, op) == call[h].at = "admitted" /\ call[h].op = op /\ Fresh(call[h].pair, AccessTTL)

CreateUser(h, u, zones) ==
  LET p == call[h].pair
  IN /\ Valid(h, "create") /\ u \notin hired
     /\ CanCreate(RoleOf(p.user), RoleOf(u))
     /\ RoleOf(p.user) # "ADMIN" => \A z \in zones : IsWithinScope(z, p.zones)
     /\ hired' = hired \cup {u}
     /\ row' = [row EXCEPT ![u] = [active |-> TRUE, zones |-> zones]]
     /\ Finish(h)
     /\ UNCHANGED <<clock, status, change, cache, provision, pairs, stopped, left,
                    changes, calls>>

\* UpdateUserHandler and DeactivateUserHandler, of the administrator alone.
UpdateUser(h, u, r) ==
  /\ Valid(h, "update") /\ u \in hired
  /\ RoleOf(call[h].pair.user) = "ADMIN"
  /\ SetRow(u, r) /\ Finish(h)
  /\ UNCHANGED <<clock, status, change, cache, hired, provision, pairs, stopped,
                 changes, calls>>

\* Whatever else was asked for, or what the handler refused.
Answer(h) ==
  /\ call[h].at = "admitted" /\ Finish(h)
  /\ Standing /\ UNCHANGED <<cache, pairs, calls>>
-----------------------------------------------------------------------------
(* The platform.                                                            *)

\* The row is written and this instance forgets the status, in a transaction that
\* commits later; a company that was deleted is not found.
ChangeStatus(i, to) ==
  /\ ~ change.pending /\ changes < MaxChanges
  /\ status # "NONE"
  /\ change' = [to |-> to, pending |-> TRUE]
  /\ cache' = [cache EXCEPT ![i].until = 0]
  /\ changes' = changes + 1
  /\ UNCHANGED <<clock, status, hired, row, provision, pairs, call, stopped, left, calls>>

Commit ==
  /\ change.pending
  /\ status' = change.to /\ change' = NoChange
  /\ stopped' = IF status = "ACTIVE" THEN clock ELSE stopped
  /\ UNCHANGED <<clock, cache, hired, row, provision, pairs, call, left, changes, calls>>

\* CreateTenantAdminHandler: the status, and in another transaction the user.
ProvisionAdmin(u) ==
  /\ u \in Admins \ (hired \cup provision) /\ status = "ACTIVE"
  /\ provision' = provision \cup {u}
  /\ UNCHANGED <<clock, status, change, cache, hired, row, pairs, call, stopped, left,
                 changes, calls>>

InsertAdmin(u) ==
  /\ u \in provision /\ provision' = provision \ {u}
  /\ hired' = hired \cup {u}
  /\ row' = [row EXCEPT ![u] = [active |-> TRUE, zones |-> {}]]
  /\ UNCHANGED <<clock, status, change, cache, pairs, call, stopped, left, changes, calls>>

\* UpdateTenantAdminHandler.
UpdateAdmin(u, active) ==
  /\ u \in Admins \cap hired /\ status # "NONE" /\ changes < MaxChanges
  /\ SetRow(u, [row[u] EXCEPT !.active = active])
  /\ changes' = changes + 1
  /\ UNCHANGED <<clock, status, change, cache, hired, provision, pairs, call, stopped,
                 calls>>

Tick ==
  /\ clock < MaxClock /\ clock' = clock + 1
  /\ UNCHANGED <<status, change, cache, hired, row, provision, pairs, call, stopped,
                 left, changes, calls>>

AccessNext ==
  \/ \E h \in Requests :
       \/ \E i \in Instances :
            \/ \E u \in Users : Cardinality(pairs) < MaxPairs /\ Login(h, i, u)
            \/ \E p \in pairs : Cardinality(pairs) < MaxPairs /\ Renew(h, i, p)
            \/ \E p \in pairs, op \in Guarded : Request(h, i, p, op)
       \/ Password(h) \/ ReadStatus(h) \/ Remember(h) \/ ReadSubject(h) \/ Sign(h)
       \/ \E u \in Users, z \in ZoneSets : CreateUser(h, u, z)
       \/ \E u \in Users, r \in Rows : UpdateUser(h, u, r)
       \/ Answer(h)
  \/ \E i \in Instances, to \in {"ACTIVE", "SUSPENDED", "NONE"} : ChangeStatus(i, to)
  \/ Commit
  \/ \E u \in Users : ProvisionAdmin(u) \/ InsertAdmin(u)
  \/ \E u \in Users, a \in BOOLEAN : UpdateAdmin(u, a)
  \/ Tick

AccessSpec == AccessInit /\ [][AccessNext]_accessVars
-----------------------------------------------------------------------------
TenantStatuses == {"ACTIVE", "SUSPENDED", "NONE"}
Pairs == [user : Users, zones : ZoneSets, asked : 0..MaxClock, iat : 0..MaxClock]

CallRecords ==
  [at : {"idle", "password", "reading", "answered", "subject", "signing", "admitted"},
   op : {"none", "login", "renew"} \cup Guarded, on : Instances,
   asked : 0..MaxClock, since : 0..MaxClock, got : TenantStatuses, pair : Pairs]

AccessTypeOK ==
  /\ clock \in 1..MaxClock /\ stopped \in 0..MaxClock
  /\ status \in TenantStatuses /\ change \in [to : TenantStatuses, pending : BOOLEAN]
  /\ cache \in [Instances -> [status : TenantStatuses, until : 0..(MaxClock + StatusTTL)]]
  /\ hired \subseteq Users /\ provision \subseteq Admins \ hired
  /\ row \in [Users -> Rows]
  /\ left \in [Users -> [Rows -> 0..MaxClock]]
  /\ pairs \subseteq Pairs
  /\ call \in [Requests -> CallRecords]

\* A user was active with these zones at t or later.
Held(u, zones, t) ==
  LET r == [active |-> TRUE, zones |-> zones]
  IN u \in hired /\ (row[u] = r \/ left[u][r] >= t)

\* A request that arrives when the company has not been active for StatusTTL is never
\* let in, by whatever instance and however the readings of the status, the change
\* and what is remembered interleave ("tiempo maximo que una suspension tarda en
\* cortar las sesiones vigentes", tenant-status.ts line 8).
SuspensionCuts ==
  \A h \in Requests : call[h].at = "admitted" =>
    status = "ACTIVE" \/ call[h].asked < stopped + StatusTTL

\* A session is of a company and of a user that were active, with the zones it
\* carries, when it was asked for or after: neither a login nor a renewal outlives a
\* suspension, a deactivation or a change of zones that came before it
\* (auth.controller.ts lines 51-54).
SessionsAreFresh ==
  \A p \in pairs :
    /\ status = "ACTIVE" \/ stopped >= p.asked
    /\ Held(p.user, p.zones, p.asked)

\* A user who is deactivated, or loses zones, acts with what he had for AccessTTL at
\* most, and as much longer as the login or the renewal took that he had begun.
ClaimsAreRecent ==
  \A h \in Requests : call[h].at = "admitted" =>
    LET p == call[h].pair
        r == [active |-> TRUE, zones |-> p.zones]
    IN row[p.user] = r \/ call[h].asked < left[p.user][r] + AccessTTL + (p.iat - p.asked)

-----------------------------------------------------------------------------
(* Why they hold: what a request in flight, and an instance that remembers, *)
(* know of the status, of the rows and of the clock.                        *)

\* Nothing is of a time to come, and no pair was asked for after it was issued.
OfThePast ==
  /\ stopped <= clock
  /\ \A u \in Users, r \in Rows : left[u][r] <= clock
  /\ \A i \in Instances : cache[i].until <= clock + StatusTTL
  /\ \A p \in pairs : p.asked <= p.iat /\ p.iat <= clock
  /\ \A h \in Requests :
       call[h].asked <= clock /\ call[h].since <= clock /\ call[h].pair.asked <= clock

\* Whoever remembers that the company is active forgets it in time.
RemembersInTime ==
  \A i \in Instances : cache[i].status = "ACTIVE" =>
    status = "ACTIVE" \/ cache[i].until <= stopped + StatusTTL

Operated(t) == status = "ACTIVE" \/ t <= stopped

LoginKnows(c) ==
  /\ c.at \in {"password", "reading", "answered"}
  /\ c.pair.asked = c.asked
  /\ Held(c.pair.user, c.pair.zones, c.asked)

RenewalKnows(c) ==
  /\ c.at \in {"reading", "answered", "subject", "signing"}
  /\ c.pair.asked = c.asked /\ c.pair.user \in hired
  /\ c.at \in {"subject", "signing"} => Operated(c.asked)
  /\ c.at = "signing" => Held(c.pair.user, c.pair.zones, c.asked)

GuardKnows(c) ==
  /\ c.at \in {"reading", "answered", "admitted"}
  /\ c.pair \in pairs /\ c.asked = c.since /\ c.asked < c.pair.iat + AccessTTL
  /\ c.at = "admitted" => status = "ACTIVE" \/ c.asked < stopped + StatusTTL

\* What the handler of a request can rely on.
Knows(c) ==
  \/ c.at = "idle"
  \/ /\ \/ c.op = "login" /\ LoginKnows(c)
        \/ c.op = "renew" /\ RenewalKnows(c)
        \/ c.op \in Guarded /\ GuardKnows(c)
     /\ c.at \in {"reading", "answered"} => c.asked <= c.since
     /\ c.at = "answered" /\ c.got = "ACTIVE" => Operated(c.since)

\* Times are positive, a user has one role, whoever has a session is one of them, and
\* the zones of a user may be none.
AccessTerms ==
  /\ StatusTTL \in Nat \ {0} /\ AccessTTL \in Nat /\ RefreshTTL \in Nat
  /\ MaxClock \in Nat \ {0}
  /\ SignedIn \subseteq Hired /\ Hired \subseteq Users /\ {} \in ZoneSets
  /\ Admins \cap (Coordinators \cup Agents) = {} /\ Users # {} /\ Instances # {}

AccessInv ==
  /\ AccessTypeOK /\ OfThePast /\ RemembersInTime /\ SessionsAreFresh
  /\ \A h \in Requests : Knows(call[h])

AccessSafe ==
  /\ AccessTypeOK /\ SuspensionCuts /\ SessionsAreFresh /\ ClaimsAreRecent
  /\ AccessTerms /\ AccessInv
=============================================================================
