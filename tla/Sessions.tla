-------------------------------- MODULE Sessions --------------------------------
(***************************************************************************)
(* The console's sessions and the roles they act under                     *)
(* (server/internal/auth).  A login creates a session row; every request   *)
(* reads it, refuses it when it is revoked, past its absolute limit or     *)
(* idle, touches it otherwise, and takes the user's role from a cache that *)
(* the database fills.  Changing a role or deleting a user writes the      *)
(* database and drops the cache entry.  A minute's scan revokes what timed *)
(* out.                                                                    *)
(*                                                                         *)
(* Passwords, tokens and permissions are left out: a request here carries  *)
(* a valid token of its session.  Time is what has run out: a session's    *)
(* age and the life of a cache entry.                                      *)
(***************************************************************************)
EXTENDS Integers, FiniteSets

CONSTANTS
  Users,        \* user ids; a deleted id is never used again
  SessionIds,   \* one per login
  Requests,     \* requests at work at the same time
  Roles,        \* admin, operator, viewer
  None,
  MaxChanges    \* bound: changes of roles and deletions of users

ASSUME SessionsAssumption ==
  /\ None \notin Users /\ None \notin SessionIds /\ None \notin Roles
  /\ MaxChanges \in Nat

VARIABLES
  role,       \* users.role, None once the user is deleted
  cache,      \* roleCache: the entry's role while it is younger than the TTL
  pending,    \* invalidations still to come, per user
  session,    \* the sessions table
  login,      \* a login between the password check and the insertion
  req,        \* the requests
  changes,    \* changes so far
  shut,       \* history: sessions whose end is recorded, and seen or told
  claimed     \* history: sessions told to have ended though it was not recorded

vars == <<role, cache, pending, session, login, req, changes, shut, claimed>>

Row    == [user : Users \cup {None}, revoked : BOOLEAN,
           age : {"recent", "idle", "over"}]
NoRow  == [user |-> None, revoked |-> FALSE, age |-> "recent"]
Request == [pc : {"free", "revoke", "touch", "role", "fill", "passed"},
            id : SessionIds \cup {None},
            user : Users \cup {None},
            role : Roles \cup {None},      \* read from the database
            expect : Roles \cup {None},    \* history: settled when it began
            tardy : BOOLEAN]               \* history: it began after the end
Free == [pc |-> "free", id |-> None, user |-> None, role |-> None,
         expect |-> None, tardy |-> FALSE]

TypeOK ==
  /\ role \in [Users -> Roles \cup {None}]
  /\ cache \in [Users -> Roles \cup {None}]
  /\ pending \in [Users -> Nat]
  /\ session \in [SessionIds -> Row]
  /\ login \in [SessionIds -> Users \cup {None}]
  /\ req \in [Requests -> Request]
  /\ changes \in 0 .. MaxChanges
  /\ shut \subseteq SessionIds /\ claimed \subseteq SessionIds

Init ==
  /\ role \in [Users -> Roles]
  /\ cache = [u \in Users |-> None]
  /\ pending = [u \in Users |-> 0]
  /\ session = [s \in SessionIds |-> NoRow]
  /\ login = [s \in SessionIds |-> None]
  /\ req = [r \in Requests |-> Free]
  /\ changes = 0
  /\ shut = {} /\ claimed = {}

-----------------------------------------------------------------------------
(* Sessions begin.                                                         *)

VerifyPassword(u, s) ==
  /\ role[u] # None
  /\ session[s] = NoRow /\ login[s] = None /\ s \notin shut
  /\ login' = [login EXCEPT ![s] = u]
  /\ UNCHANGED <<role, cache, pending, session, req, changes, shut, claimed>>

\* The insertion fails when the user has gone: user_id is a foreign key.  The
\* id of a login that failed is used up.
CreateSession(s) ==
  /\ login[s] # None
  /\ session' = IF role[login[s]] = None THEN session
                ELSE [session EXCEPT ![s] = [NoRow EXCEPT !.user = login[s]]]
  /\ login' = [login EXCEPT ![s] = None]
  /\ shut' = IF role[login[s]] = None THEN shut \cup {s} ELSE shut
  /\ UNCHANGED <<role, cache, pending, req, changes, claimed>>

\* The idle limit or the absolute limit runs out.
TimesOut(s) ==
  /\ session[s].user # None /\ session[s].age # "over"
  /\ \E age \in {"idle", "over"} :
       session' = [session EXCEPT ![s].age = age]
  /\ UNCHANGED <<role, cache, pending, login, req, changes, shut, claimed>>

\* startSessionTimeoutScanner: one UPDATE over the table.
ScanTimeoutSessions ==
  /\ session' = [s \in SessionIds |->
                   IF session[s].user # None /\ session[s].age # "recent"
                     THEN [session[s] EXCEPT !.revoked = TRUE] ELSE session[s]]
  /\ UNCHANGED <<role, cache, pending, login, req, changes, shut, claimed>>

-----------------------------------------------------------------------------
(* ValidateAndTouch.                                                       *)

unread == <<role, pending, login, changes>>

Settled(u) == IF pending[u] = 0 THEN role[u] ELSE None

\* GetByIDHash and the three checks.  A session that is missing or revoked is
\* refused at once, one that timed out is revoked first.  When the query fails
\* the answer is that of a missing session, and nothing is known of it.
Check(r, s) ==
  /\ req[r] = Free
  /\ login[s] = None /\ (session[s].user # None \/ s \in shut)
  /\ LET row == session[s]
         begun(pc) == [pc |-> pc, id |-> s, user |-> row.user, role |-> None,
                       expect |-> Settled(row.user), tardy |-> s \in shut]
     IN IF row.user = None \/ row.revoked
          THEN shut' = shut \cup {s} /\ UNCHANGED req
          ELSE /\ req' = [req EXCEPT ![r] =
                            begun(IF row.age = "recent" THEN "touch" ELSE "revoke")]
               /\ UNCHANGED shut
  /\ UNCHANGED <<unread, session, cache, claimed>>

QueryFails(r, s) ==
  /\ req[r] = Free
  /\ login[s] = None /\ (session[s].user # None \/ s \in shut)
  /\ UNCHANGED vars

\* Mutant: the update spares a session that was touched in the meantime.
RevokedIfIdle(s) ==
  [session EXCEPT ![s].revoked = @ \/ session[s].age # "recent"]
Revoked(s) == [session EXCEPT ![s].revoked = session[s].user # None]

\* Revoke and the refusal; an error of the database is logged, the refusal
\* stands.
RevokeTimedOut(r) ==
  /\ req[r].pc = "revoke"
  /\ \/ /\ session' = Revoked(req[r].id) /\ shut' = shut \cup {req[r].id}
        /\ UNCHANGED claimed
     \/ claimed' = claimed \cup {req[r].id} /\ UNCHANGED <<session, shut>>
  /\ req' = [req EXCEPT ![r] = Free]
  /\ UNCHANGED <<unread, cache>>

\* UPDATE ... last_activity_at, revoked or not; it may fail, and the request
\* goes on.
Touch(r) ==
  /\ req[r].pc = "touch"
  /\ LET s == req[r].id
     IN \/ /\ session[s].user # None /\ session[s].age = "idle"
           /\ session' = [session EXCEPT ![s].age = "recent"]
        \/ UNCHANGED session
  /\ req' = [req EXCEPT ![r].pc = "role"]
  /\ UNCHANGED <<unread, cache, shut, claimed>>

\* getRoleCached: a live entry decides.
CacheHit(r) ==
  /\ req[r].pc = "role" /\ cache[req[r].user] # None
  /\ req' = [req EXCEPT ![r].pc = "passed", ![r].role = cache[req[r].user]]
  /\ UNCHANGED <<unread, session, cache, shut, claimed>>

\* Without one the users table does; a user who has gone is refused, and so is
\* everybody when the query fails.
ReadRole(r) ==
  /\ req[r].pc = "role" /\ cache[req[r].user] = None
  /\ \/ req' = [req EXCEPT ![r] = Free]
     \/ /\ role[req[r].user] # None
        /\ req' = [req EXCEPT ![r].pc = "fill", ![r].role = role[req[r].user]]
  /\ UNCHANGED <<unread, session, cache, shut, claimed>>

StoreRole(r) ==
  /\ req[r].pc = "fill"
  /\ cache' = [cache EXCEPT ![req[r].user] = req[r].role]
  /\ req' = [req EXCEPT ![r].pc = "passed"]
  /\ UNCHANGED <<unread, session, shut, claimed>>

\* The handler runs under the role, and ends.
Finish(r) ==
  /\ req[r].pc = "passed"
  /\ req' = [req EXCEPT ![r] = Free]
  /\ UNCHANGED <<unread, session, cache, shut, claimed>>

\* SessionClose: the handler revokes its own session; it answers success either
\* way.
CloseSession(r) ==
  /\ req[r].pc = "passed"
  /\ \/ /\ session' = Revoked(req[r].id) /\ shut' = shut \cup {req[r].id}
        /\ UNCHANGED claimed
     \/ claimed' = claimed \cup {req[r].id} /\ UNCHANGED <<session, shut>>
  /\ req' = [req EXCEPT ![r] = Free]
  /\ UNCHANGED <<unread, cache>>

\* Mutant: the entry's age is never looked at.
RoleStays(u) == cache[u] # None /\ UNCHANGED vars
\* roleCacheTTL runs out: the entry no longer counts.
RoleExpires(u) ==
  /\ cache[u] # None
  /\ cache' = [cache EXCEPT ![u] = None]
  /\ UNCHANGED <<unread, session, req, shut, claimed>>

-----------------------------------------------------------------------------
(* User administration.                                                    *)

\* history: what a request in flight could expect of this user is undone
Unsettle(u) ==
  req' = [r \in Requests |-> IF req[r].user = u
                               THEN [req[r] EXCEPT !.expect = None] ELSE req[r]]

Change(u) ==
  /\ changes < MaxChanges
  /\ changes' = changes + 1
  /\ pending' = [pending EXCEPT ![u] = @ + 1]
  /\ Unsettle(u)

UpdateUserRole(u) ==
  /\ role[u] # None
  /\ \E new \in Roles \ {role[u]} : role' = [role EXCEPT ![u] = new]
  /\ Change(u)
  /\ UNCHANGED <<cache, session, login, shut, claimed>>

\* The user's sessions go with the row (ON DELETE CASCADE).
DeleteUser(u) ==
  /\ role[u] # None
  /\ role' = [role EXCEPT ![u] = None]
  /\ session' = [s \in SessionIds |->
                   IF session[s].user = u THEN NoRow ELSE session[s]]
  /\ shut' = shut \cup {s \in SessionIds : session[s].user = u}
  /\ Change(u)
  /\ UNCHANGED <<cache, login, claimed>>

\* invalidateRoleCache; RevokeByUserID finds no row left.
InvalidateRoleCache(u) ==
  /\ pending[u] > 0
  /\ pending' = [pending EXCEPT ![u] = @ - 1]
  /\ cache' = [cache EXCEPT ![u] = None]
  /\ UNCHANGED <<role, session, login, req, changes, shut, claimed>>

-----------------------------------------------------------------------------
Serve(r) ==
  \/ RevokeTimedOut(r) \/ Touch(r) \/ CacheHit(r) \/ ReadRole(r) \/ StoreRole(r)
  \/ Finish(r) \/ CloseSession(r)

Next ==
  \/ \E s \in SessionIds : TimesOut(s) \/ CreateSession(s)
  \/ \E u \in Users, s \in SessionIds : VerifyPassword(u, s)
  \/ ScanTimeoutSessions
  \/ \E r \in Requests : Serve(r) \/ \E s \in SessionIds : Check(r, s) \/ QueryFails(r, s)
  \/ \E u \in Users : UpdateUserRole(u) \/ DeleteUser(u) \/ InvalidateRoleCache(u)
  \/ \E u \in Users : RoleExpires(u)

Spec == Init /\ [][Next]_vars

\* Handlers run and the cache's clock does.
Fairness ==
  /\ \A r \in Requests : WF_vars(Serve(r))
  /\ \A u \in Users : WF_vars(InvalidateRoleCache(u))
  /\ \A u \in Users : WF_vars(RoleExpires(u))

FairSpec == Spec /\ Fairness

-----------------------------------------------------------------------------
(* Once the end of a session is recorded - revoked, or its row deleted -   *)
(* and a request was refused for it, or the session was closed, or the     *)
(* user deleted, no request that begins later passes with it, even when an *)
(* older request that read the row in time touches it afterwards           *)
(* (session_lifecycle.go:117-148).                                         *)
EndedForGood ==
  \A r \in Requests : req[r].tardy => req[r].pc \in {"free", "revoke"}

(* Not so: whoever is told that a session has timed out or is closed can   *)
(* rely on it.  When the revocation fails it is only logged                *)
(* (session_lifecycle.go:129-142, session_handler.go:107-112): a session   *)
(* that is closed stays open, and one that is idle passes again once an    *)
(* older request has touched it.                                           *)
ToldForGood ==
  [][\A r \in Requests :
       req[r].pc = "free" /\ req'[r].pc = "touch" => req'[r].id \notin shut \cup claimed]_vars

(* When the administrators stop changing a user, the role in the cache is  *)
(* in the end the user's own, although a request that read the old role    *)
(* may store it after the invalidation (auth.go:238-252).                  *)
RolesSettle ==
  \A u \in Users : <>[](cache[u] \in {None, role[u]})

(* "role 变更立即生效（不等缓存过期）" (auth.go:289): a request that begins      *)
(* when every change is complete acts under the role the user then has.    *)
RoleChangeImmediate ==
  \A r \in Requests :
    req[r].pc = "passed" /\ req[r].expect # None => req[r].role = req[r].expect
=============================================================================
