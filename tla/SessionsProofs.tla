----------------------------- MODULE SessionsProofs -----------------------------
(***************************************************************************)
(* Proofs about Sessions, for any users, logins, requests and roles.       *)
(*                                                                         *)
(* EndedForGood holds because a session whose end is recorded and seen     *)
(* is gone or revoked (Whole), no login can bring its row back, and a      *)
(* request that is under way still knows a session that is there or is     *)
(* known to have ended (Begun): whatever it touches, it cannot create or   *)
(* restore one.                                                            *)
(***************************************************************************)
EXTENDS Sessions, TLAPS

Whole ==
  \A s \in SessionIds :
    /\ session[s].user = None => ~session[s].revoked
    /\ login[s] # None => session[s].user = None
    /\ s \in shut => login[s] = None /\ (session[s].user = None \/ session[s].revoked)

Begun ==
  \A r \in Requests : req[r].pc # "free" =>
    /\ req[r].id \in SessionIds /\ req[r].user \in Users
    /\ login[req[r].id] = None
    /\ session[req[r].id].user # None \/ req[r].id \in shut

IInv == TypeOK /\ Whole /\ Begun /\ EndedForGood

LEMMA InitIInv == Init => IInv
<1> SUFFICES ASSUME Init PROVE IInv
  OBVIOUS
<1>1. TypeOK
  BY SessionsAssumption DEF Init, TypeOK, Row, NoRow, Request, Free
<1>2. Whole /\ Begun /\ EndedForGood
  BY DEF Init, Whole, Begun, EndedForGood, Free, NoRow
<1> QED BY <1>1, <1>2 DEF IInv

-----------------------------------------------------------------------------
(* The types.                                                              *)

\* Ending a session keeps the table typed, and ends it when it is there.
LEMMA RevokedTyped ==
  ASSUME TypeOK, NEW s \in SessionIds
  PROVE  /\ Revoked(s) \in [SessionIds -> Row]
         /\ Revoked(s)[s].user = session[s].user
         /\ Revoked(s)[s].age = session[s].age
         /\ Revoked(s)[s].revoked <=> session[s].user # None
         /\ \A x \in SessionIds : x # s => Revoked(s)[x] = session[x]
  BY DEF TypeOK, Revoked, Row

\* What a change of a user takes from the requests leaves them in their type.
LEMMA UnsettleTyped ==
  ASSUME NEW u \in Users, req \in [Requests -> Request], Unsettle(u)
  PROVE  req' \in [Requests -> Request]
<1>1. ASSUME NEW r \in Requests PROVE [req[r] EXCEPT !.expect = None] \in Request
  <2>1. req[r] \in Request
    OBVIOUS
  <2> QED BY <2>1 DEF Request
<1> QED BY <1>1 DEF Unsettle

\* Every action keeps the type invariant.
LEMMA TypeStep == TypeOK /\ Begun /\ [Next]_vars => TypeOK'
<1> SUFFICES ASSUME TypeOK, Begun, [Next]_vars PROVE TypeOK'
  OBVIOUS
<1> USE SessionsAssumption
<1>1. ASSUME NEW s \in SessionIds, TimesOut(s)
      PROVE  TypeOK'
  BY <1>1 DEF TimesOut, TypeOK, Row
<1>2. ASSUME NEW s \in SessionIds, CreateSession(s)
      PROVE  TypeOK'
  BY <1>2 DEF CreateSession, TypeOK, Row, NoRow
<1>3. ASSUME NEW u \in Users, NEW s \in SessionIds, VerifyPassword(u, s)
      PROVE  TypeOK'
  BY <1>3 DEF VerifyPassword, TypeOK
<1>4. CASE ScanTimeoutSessions
  BY <1>4 DEF ScanTimeoutSessions, TypeOK, Row
<1>5. ASSUME NEW r \in Requests, RevokeTimedOut(r)
      PROVE  TypeOK'
  <2>1. req[r].id \in SessionIds
    BY <1>5 DEF RevokeTimedOut, Begun
  <2>2. req' \in [Requests -> Request]
    BY <1>5 DEF RevokeTimedOut, TypeOK, Request, Free
  <2> QED BY <1>5, <2>1, <2>2, RevokedTyped DEF RevokeTimedOut, TypeOK, unread
<1>6. ASSUME NEW r \in Requests, Touch(r)
      PROVE  TypeOK'
  <2>1. req[r].id \in SessionIds
    BY <1>6 DEF Touch, Begun
  <2>2. req' \in [Requests -> Request]
    BY <1>6 DEF Touch, TypeOK, Request
  <2>3. session' \in [SessionIds -> Row]
    BY <1>6, <2>1 DEF Touch, TypeOK, Row
  <2> QED BY <1>6, <2>2, <2>3 DEF Touch, TypeOK, unread
<1>7. ASSUME NEW r \in Requests, CacheHit(r)
      PROVE  TypeOK'
  <2>1. req[r].user \in Users
    BY <1>7 DEF CacheHit, Begun
  <2>2. cache[req[r].user] \in Roles
    BY <1>7, <2>1 DEF CacheHit, TypeOK
  <2> DEFINE new == [req[r] EXCEPT !.pc = "passed", !.role = cache[req[r].user]]
  <2>3. new \in Request
    BY <2>2 DEF TypeOK, Request
  <2>4. req' = [req EXCEPT ![r] = new]
    BY <1>7 DEF CacheHit, TypeOK, Request
  <2> QED BY <1>7, <2>3, <2>4 DEF CacheHit, TypeOK, unread
<1>8. ASSUME NEW r \in Requests, ReadRole(r)
      PROVE  TypeOK'
  <2>1. req[r].user \in Users
    BY <1>8 DEF ReadRole, Begun
  <2>2. role[req[r].user] \in Roles \cup {None}
    BY <2>1 DEF TypeOK
  <2>3. req' \in [Requests -> Request]
    <3> DEFINE new == [req[r] EXCEPT !.pc = "fill", !.role = role[req[r].user]]
    <3>1. CASE req' = [req EXCEPT ![r] = Free]
      BY <3>1 DEF TypeOK, Request, Free
    <3>2. CASE req' = [req EXCEPT ![r].pc = "fill", ![r].role = role[req[r].user]]
      <4>1. new \in Request
        BY <2>2 DEF TypeOK, Request
      <4>2. req' = [req EXCEPT ![r] = new]
        BY <3>2 DEF TypeOK, Request
      <4> QED BY <4>1, <4>2 DEF TypeOK
    <3> QED BY <1>8, <3>1, <3>2 DEF ReadRole
  <2> QED BY <1>8, <2>3 DEF ReadRole, TypeOK, unread
<1>9. ASSUME NEW r \in Requests, StoreRole(r)
      PROVE  TypeOK'
  <2>1. req[r].user \in Users /\ req[r].role \in Roles \cup {None}
    BY <1>9 DEF StoreRole, Begun, TypeOK, Request
  <2>2. req' \in [Requests -> Request]
    BY <1>9 DEF StoreRole, TypeOK, Request
  <2>3. cache' \in [Users -> Roles \cup {None}]
    BY <1>9, <2>1 DEF StoreRole, TypeOK
  <2> QED BY <1>9, <2>2, <2>3 DEF StoreRole, TypeOK, unread
<1>10. ASSUME NEW r \in Requests, Finish(r)
      PROVE  TypeOK'
  BY <1>10 DEF Finish, TypeOK, Request, Free, unread
<1>11. ASSUME NEW r \in Requests, CloseSession(r)
      PROVE  TypeOK'
  <2>1. req[r].id \in SessionIds
    BY <1>11 DEF CloseSession, Begun
  <2>2. req' \in [Requests -> Request]
    BY <1>11 DEF CloseSession, TypeOK, Request, Free
  <2> QED BY <1>11, <2>1, <2>2, RevokedTyped DEF CloseSession, TypeOK, unread
<1>12. ASSUME NEW r \in Requests, NEW s \in SessionIds, Check(r, s)
      PROVE  TypeOK'
  <2>1. session[s] \in Row
    BY DEF TypeOK
  <2>2. CASE session[s].user = None \/ session[s].revoked
    BY <1>12, <2>2 DEF Check, TypeOK, unread
  <2>3. CASE ~(session[s].user = None \/ session[s].revoked)
    <3>1. session[s].user \in Users
      BY <2>1, <2>3 DEF Row
    <3>2. Settled(session[s].user) \in Roles \cup {None}
      BY <3>1 DEF Settled, TypeOK
    <3>3. PICK new \in Request : req' = [req EXCEPT ![r] = new]
      <4>1. \A pc \in {"touch", "revoke"} :
              [pc |-> pc, id |-> s, user |-> session[s].user, role |-> None,
               expect |-> Settled(session[s].user), tardy |-> s \in shut] \in Request
        BY <3>1, <3>2 DEF Request
      <4> QED BY <1>12, <2>3, <4>1 DEF Check
    <3>4. req' \in [Requests -> Request]
      BY <3>3 DEF TypeOK
    <3> QED BY <1>12, <2>3, <3>4 DEF Check, TypeOK, unread
  <2> QED BY <2>2, <2>3
<1>13. ASSUME NEW u \in Users, UpdateUserRole(u)
      PROVE  TypeOK'
  <2>1. changes' \in 0 .. MaxChanges /\ pending' \in [Users -> Nat]
    BY <1>13 DEF UpdateUserRole, Change, TypeOK
  <2>2. req' \in [Requests -> Request]
    BY <1>13, UnsettleTyped DEF UpdateUserRole, Change, TypeOK
  <2>3. role' \in [Users -> Roles \cup {None}]
    BY <1>13 DEF UpdateUserRole, TypeOK
  <2> QED BY <1>13, <2>1, <2>2, <2>3 DEF UpdateUserRole, TypeOK
<1>14. ASSUME NEW u \in Users, DeleteUser(u)
      PROVE  TypeOK'
  <2>1. changes' \in 0 .. MaxChanges /\ pending' \in [Users -> Nat]
    BY <1>14 DEF DeleteUser, Change, TypeOK
  <2>2. req' \in [Requests -> Request]
    BY <1>14, UnsettleTyped DEF DeleteUser, Change, TypeOK
  <2>3. /\ role' \in [Users -> Roles \cup {None}]
        /\ session' \in [SessionIds -> Row] /\ shut' \subseteq SessionIds
    BY <1>14 DEF DeleteUser, TypeOK, Row, NoRow
  <2> QED BY <1>14, <2>1, <2>2, <2>3 DEF DeleteUser, TypeOK
<1>15. ASSUME NEW u \in Users, InvalidateRoleCache(u)
      PROVE  TypeOK'
  BY <1>15 DEF InvalidateRoleCache, TypeOK
<1>16. ASSUME NEW u \in Users, RoleExpires(u)
      PROVE  TypeOK'
  BY <1>16 DEF RoleExpires, TypeOK, unread
<1>17. CASE UNCHANGED vars
  BY <1>17 DEF vars, TypeOK
<1> QED
  BY <1>1, <1>2, <1>3, <1>4, <1>5, <1>6, <1>7, <1>8, <1>9, <1>10,
     <1>11, <1>12, <1>13, <1>14, <1>15, <1>16, <1>17 DEF Next, Serve, QueryFails

-----------------------------------------------------------------------------
(* What has ended stays ended.                                             *)

\* No action brings back a session that has ended, nor takes away one that
\* is not known to have ended.
LEMMA WholeStep == TypeOK /\ Whole /\ Begun /\ [Next]_vars => Whole'
<1> SUFFICES ASSUME TypeOK, Whole, Begun, [Next]_vars PROVE Whole'
  OBVIOUS
<1> USE SessionsAssumption DEF Whole
<1>1. ASSUME NEW s \in SessionIds, TimesOut(s)
      PROVE  Whole'
  <2>1. /\ session[s].user # None
        /\ session'[s].user = session[s].user
        /\ session'[s].revoked = session[s].revoked
        /\ \A x \in SessionIds : x # s => session'[x] = session[x]
    BY <1>1 DEF TimesOut, TypeOK, Row
  <2>2. UNCHANGED <<login, shut>>
    BY <1>1 DEF TimesOut
  <2> QED BY <2>1, <2>2
<1>2. ASSUME NEW s \in SessionIds, CreateSession(s)
      PROVE  Whole'
  BY <1>2 DEF CreateSession, TypeOK, Row, NoRow
<1>3. ASSUME NEW u \in Users, NEW s \in SessionIds, VerifyPassword(u, s)
      PROVE  Whole'
  <2>1. /\ session[s] = NoRow /\ s \notin shut
        /\ \A x \in SessionIds : x # s => login'[x] = login[x]
    BY <1>3 DEF VerifyPassword, TypeOK
  <2>2. login[s] = None /\ session[s].user = None /\ UNCHANGED <<session, shut>>
    BY <1>3, <2>1 DEF VerifyPassword, NoRow
  <2> QED BY <2>1, <2>2
<1>4. CASE ScanTimeoutSessions
  BY <1>4 DEF ScanTimeoutSessions, TypeOK, Row, NoRow
<1>5. ASSUME NEW r \in Requests, RevokeTimedOut(r)
      PROVE  Whole'
  <2> DEFINE x == req[r].id
  <2>1. x \in SessionIds /\ login[x] = None
    BY <1>5 DEF RevokeTimedOut, Begun
  <2>2. CASE UNCHANGED <<session, shut>>
    BY <1>5, <2>2 DEF RevokeTimedOut, unread
  <2>3. CASE session' = Revoked(x) /\ shut' = shut \cup {x}
    <3>1. \A s \in SessionIds : s # x => session'[s] = session[s]
      BY <2>1, <2>3, RevokedTyped
    <3>2. /\ session'[x].user = session[x].user
          /\ session'[x].revoked <=> session[x].user # None
      BY <2>1, <2>3, RevokedTyped
    <3> QED BY <1>5, <2>1, <2>3, <3>1, <3>2 DEF RevokeTimedOut, unread
  <2> QED BY <1>5, <2>2, <2>3 DEF RevokeTimedOut
<1>6. ASSUME NEW r \in Requests, Touch(r)
      PROVE  Whole'
  <2> DEFINE s == req[r].id
  <2>1. s \in SessionIds
    BY <1>6 DEF Touch, Begun
  <2>2. CASE UNCHANGED session
    BY <1>6, <2>2 DEF Touch, unread
  <2>3. CASE /\ session[s].user # None
             /\ session' = [session EXCEPT ![s].age = "recent"]
    <3>1. /\ session'[s].user = session[s].user
          /\ session'[s].revoked = session[s].revoked
          /\ \A x \in SessionIds : x # s => session'[x] = session[x]
      BY <2>1, <2>3 DEF TypeOK, Row
    <3> QED BY <1>6, <2>1, <2>3, <3>1 DEF Touch, unread
  <2> QED BY <1>6, <2>2, <2>3 DEF Touch
<1>7. ASSUME NEW r \in Requests, CacheHit(r)
      PROVE  Whole'
  BY <1>7 DEF CacheHit, unread
<1>8. ASSUME NEW r \in Requests, ReadRole(r)
      PROVE  Whole'
  BY <1>8 DEF ReadRole, unread
<1>9. ASSUME NEW r \in Requests, StoreRole(r)
      PROVE  Whole'
  BY <1>9 DEF StoreRole, unread
<1>10. ASSUME NEW r \in Requests, Finish(r)
      PROVE  Whole'
  BY <1>10 DEF Finish, unread
<1>11. ASSUME NEW r \in Requests, CloseSession(r)
      PROVE  Whole'
  <2> DEFINE x == req[r].id
  <2>1. x \in SessionIds /\ login[x] = None
    BY <1>11 DEF CloseSession, Begun
  <2>2. CASE UNCHANGED <<session, shut>>
    BY <1>11, <2>2 DEF CloseSession, unread
  <2>3. CASE session' = Revoked(x) /\ shut' = shut \cup {x}
    <3>1. \A s \in SessionIds : s # x => session'[s] = session[s]
      BY <2>1, <2>3, RevokedTyped
    <3>2. /\ session'[x].user = session[x].user
          /\ session'[x].revoked <=> session[x].user # None
      BY <2>1, <2>3, RevokedTyped
    <3> QED BY <1>11, <2>1, <2>3, <3>1, <3>2 DEF CloseSession, unread
  <2> QED BY <1>11, <2>2, <2>3 DEF CloseSession
<1>12. ASSUME NEW r \in Requests, NEW s \in SessionIds, Check(r, s)
      PROVE  Whole'
  <2>1. CASE session[s].user = None \/ session[s].revoked
    BY <1>12, <2>1 DEF Check, unread
  <2>2. CASE ~(session[s].user = None \/ session[s].revoked)
    BY <1>12, <2>2 DEF Check, unread
  <2> QED BY <2>1, <2>2
<1>13. ASSUME NEW u \in Users, UpdateUserRole(u)
      PROVE  Whole'
  BY <1>13 DEF UpdateUserRole, unread
<1>14. ASSUME NEW u \in Users, DeleteUser(u)
      PROVE  Whole'
  <2>1. ASSUME NEW s \in SessionIds, session[s].user = u
        PROVE  login[s] = None /\ session'[s].user = None /\ ~session'[s].revoked
    BY <1>14, <2>1 DEF DeleteUser, NoRow
  <2>2. ASSUME NEW s \in SessionIds, session[s].user # u
        PROVE  session'[s] = session[s] /\ (s \in shut' <=> s \in shut)
    BY <1>14, <2>2 DEF DeleteUser
  <2>3. login' = login
    BY <1>14 DEF DeleteUser
  <2> QED BY <2>1, <2>2, <2>3
<1>15. ASSUME NEW u \in Users, InvalidateRoleCache(u)
      PROVE  Whole'
  BY <1>15 DEF InvalidateRoleCache, unread
<1>16. ASSUME NEW u \in Users, RoleExpires(u)
      PROVE  Whole'
  BY <1>16 DEF RoleExpires, unread
<1>17. CASE UNCHANGED vars
  BY <1>17 DEF vars
<1> QED
  BY <1>1, <1>2, <1>3, <1>4, <1>5, <1>6, <1>7, <1>8, <1>9, <1>10,
     <1>11, <1>12, <1>13, <1>14, <1>15, <1>16, <1>17 DEF Next, Serve, QueryFails

\* A request under way knows a session that is there or known to have ended.
LEMMA BegunStep == TypeOK /\ Whole /\ Begun /\ [Next]_vars => Begun'
<1> SUFFICES ASSUME TypeOK, Whole, Begun, [Next]_vars PROVE Begun'
  OBVIOUS
<1> USE SessionsAssumption DEF Begun
<1>1. ASSUME NEW s \in SessionIds, TimesOut(s)
      PROVE  Begun'
  BY <1>1 DEF TimesOut, TypeOK, Row
<1>2. ASSUME NEW s \in SessionIds, CreateSession(s)
      PROVE  Begun'
  BY <1>2 DEF CreateSession, TypeOK, Row, NoRow, Whole
<1>3. ASSUME NEW u \in Users, NEW s \in SessionIds, VerifyPassword(u, s)
      PROVE  Begun'
  BY <1>3 DEF VerifyPassword, TypeOK, NoRow, Whole
<1>4. CASE ScanTimeoutSessions
  BY <1>4 DEF ScanTimeoutSessions, TypeOK, Row
<1>5. ASSUME NEW r \in Requests, RevokeTimedOut(r)
      PROVE  Begun'
  <2> DEFINE x == req[r].id
  <2>1. x \in SessionIds /\ login[x] = None
    BY <1>5 DEF RevokeTimedOut
  <2>2. \A s \in SessionIds : session'[s].user = session[s].user
    BY <1>5, <2>1, RevokedTyped DEF RevokeTimedOut
  <2> QED BY <1>5, <2>2 DEF RevokeTimedOut, TypeOK, Request, Free, unread
<1>6. ASSUME NEW r \in Requests, Touch(r)
      PROVE  Begun'
  <2>1. req[r].id \in SessionIds
    BY <1>6 DEF Touch
  <2>2. \A s \in SessionIds : session'[s].user = session[s].user
    BY <1>6, <2>1 DEF Touch, TypeOK, Row
  <2> QED BY <1>6, <2>2 DEF Touch, TypeOK, Request, unread
<1>7. ASSUME NEW r \in Requests, CacheHit(r)
      PROVE  Begun'
  BY <1>7 DEF CacheHit, TypeOK, Request, unread
<1>8. ASSUME NEW r \in Requests, ReadRole(r)
      PROVE  Begun'
  <2>1. UNCHANGED <<session, login, shut>>
    BY <1>8 DEF ReadRole, unread
  <2>2. \A q \in Requests : req'[q].pc # "free" =>
          req[q].pc # "free" /\ req'[q].id = req[q].id /\ req'[q].user = req[q].user
    BY <1>8 DEF ReadRole, TypeOK, Request, Free
  <2> QED BY <2>1, <2>2
<1>9. ASSUME NEW r \in Requests, StoreRole(r)
      PROVE  Begun'
  BY <1>9 DEF StoreRole, TypeOK, Request, unread
<1>10. ASSUME NEW r \in Requests, Finish(r)
      PROVE  Begun'
  BY <1>10 DEF Finish, TypeOK, Free, unread
<1>11. ASSUME NEW r \in Requests, CloseSession(r)
      PROVE  Begun'
  <2> DEFINE x == req[r].id
  <2>1. x \in SessionIds /\ login[x] = None
    BY <1>11 DEF CloseSession
  <2>2. \A s \in SessionIds : session'[s].user = session[s].user
    BY <1>11, <2>1, RevokedTyped DEF CloseSession
  <2> QED BY <1>11, <2>2 DEF CloseSession, TypeOK, Request, Free, unread
<1>12. ASSUME NEW r \in Requests, NEW s \in SessionIds, Check(r, s)
      PROVE  Begun'
  <2>1. CASE session[s].user = None \/ session[s].revoked
    BY <1>12, <2>1 DEF Check, unread
  <2>2. CASE ~(session[s].user = None \/ session[s].revoked)
    <3>1. session[s].user \in Users
      BY <2>2 DEF TypeOK, Row
    <3>2. req'[r].id = s /\ req'[r].user = session[s].user
      BY <1>12, <2>2 DEF Check, TypeOK
    <3>3. \A x \in Requests : x # r => req'[x] = req[x]
      BY <1>12, <2>2 DEF Check, TypeOK
    <3> QED BY <1>12, <2>2, <3>1, <3>2, <3>3 DEF Check, unread
  <2> QED BY <2>1, <2>2
<1>13. ASSUME NEW u \in Users, UpdateUserRole(u)
      PROVE  Begun'
  BY <1>13 DEF UpdateUserRole, Change, Unsettle, TypeOK, Request
<1>14. ASSUME NEW u \in Users, DeleteUser(u)
      PROVE  Begun'
  BY <1>14 DEF DeleteUser, Change, Unsettle, TypeOK, Row, NoRow, Request
<1>15. ASSUME NEW u \in Users, InvalidateRoleCache(u)
      PROVE  Begun'
  BY <1>15 DEF InvalidateRoleCache, TypeOK, Request, unread
<1>16. ASSUME NEW u \in Users, RoleExpires(u)
      PROVE  Begun'
  BY <1>16 DEF RoleExpires, TypeOK, Request, unread
<1>17. CASE UNCHANGED vars
  BY <1>17 DEF vars
<1> QED
  BY <1>1, <1>2, <1>3, <1>4, <1>5, <1>6, <1>7, <1>8, <1>9, <1>10,
     <1>11, <1>12, <1>13, <1>14, <1>15, <1>16, <1>17 DEF Next, Serve, QueryFails

\* A request that begins after the end does not pass.
LEMMA EndedStep == TypeOK /\ Whole /\ EndedForGood /\ [Next]_vars => EndedForGood'
<1> SUFFICES ASSUME TypeOK, Whole, EndedForGood, [Next]_vars PROVE EndedForGood'
  OBVIOUS
<1> USE DEF EndedForGood
<1>1. ASSUME NEW s \in SessionIds, TimesOut(s)
      PROVE  EndedForGood'
  BY <1>1 DEF TimesOut, TypeOK, Request
<1>2. ASSUME NEW s \in SessionIds, CreateSession(s)
      PROVE  EndedForGood'
  BY <1>2 DEF CreateSession, TypeOK, Request
<1>3. ASSUME NEW u \in Users, NEW s \in SessionIds, VerifyPassword(u, s)
      PROVE  EndedForGood'
  BY <1>3 DEF VerifyPassword, TypeOK, Request
<1>4. CASE ScanTimeoutSessions
  BY <1>4 DEF ScanTimeoutSessions, TypeOK, Request
<1>5. ASSUME NEW r \in Requests, RevokeTimedOut(r)
      PROVE  EndedForGood'
  BY <1>5 DEF RevokeTimedOut, TypeOK, Request, Free
<1>6. ASSUME NEW r \in Requests, Touch(r)
      PROVE  EndedForGood'
  BY <1>6 DEF Touch, TypeOK, Request
<1>7. ASSUME NEW r \in Requests, CacheHit(r)
      PROVE  EndedForGood'
  BY <1>7 DEF CacheHit, TypeOK, Request
<1>8. ASSUME NEW r \in Requests, ReadRole(r)
      PROVE  EndedForGood'
  BY <1>8 DEF ReadRole, TypeOK, Request, Free
<1>9. ASSUME NEW r \in Requests, StoreRole(r)
      PROVE  EndedForGood'
  BY <1>9 DEF StoreRole, TypeOK, Request
<1>10. ASSUME NEW r \in Requests, Finish(r)
      PROVE  EndedForGood'
  BY <1>10 DEF Finish, TypeOK, Request, Free
<1>11. ASSUME NEW r \in Requests, CloseSession(r)
      PROVE  EndedForGood'
  BY <1>11 DEF CloseSession, TypeOK, Request, Free
<1>12. ASSUME NEW r \in Requests, NEW s \in SessionIds, Check(r, s)
      PROVE  EndedForGood'
  <2>1. s \in shut => session[s].user = None \/ session[s].revoked
    BY DEF Whole, NoRow
  <2>2. CASE session[s].user = None \/ session[s].revoked
    BY <1>12, <2>2 DEF Check
  <2>3. CASE ~(session[s].user = None \/ session[s].revoked)
    <3>1. req'[r].tardy = (s \in shut)
      BY <1>12, <2>3 DEF Check, TypeOK
    <3>2. \A x \in Requests : x # r => req'[x] = req[x]
      BY <1>12, <2>3 DEF Check, TypeOK
    <3> QED BY <2>1, <2>3, <3>1, <3>2
  <2> QED BY <2>2, <2>3
<1>13. ASSUME NEW u \in Users, UpdateUserRole(u)
      PROVE  EndedForGood'
  BY <1>13 DEF UpdateUserRole, Change, Unsettle, TypeOK, Request
<1>14. ASSUME NEW u \in Users, DeleteUser(u)
      PROVE  EndedForGood'
  BY <1>14 DEF DeleteUser, Change, Unsettle, TypeOK, Request
<1>15. ASSUME NEW u \in Users, InvalidateRoleCache(u)
      PROVE  EndedForGood'
  BY <1>15 DEF InvalidateRoleCache, TypeOK, Request
<1>16. ASSUME NEW u \in Users, RoleExpires(u)
      PROVE  EndedForGood'
  BY <1>16 DEF RoleExpires, unread
<1>17. CASE UNCHANGED vars
  BY <1>17 DEF vars
<1> QED
  BY <1>1, <1>2, <1>3, <1>4, <1>5, <1>6, <1>7, <1>8, <1>9, <1>10,
     <1>11, <1>12, <1>13, <1>14, <1>15, <1>16, <1>17 DEF Next, Serve, QueryFails

-----------------------------------------------------------------------------
(* The invariant the other results rest on holds in every reachable state. *)
THEOREM Inductive == Spec => []IInv
<1>1. Init => IInv
  BY InitIInv
<1>2. IInv /\ [Next]_vars => IInv'
  BY TypeStep, WholeStep, BegunStep, EndedStep DEF IInv
<1> QED BY <1>1, <1>2, PTL DEF Spec

(* The tables, the cache, the logins and the requests keep their types.    *)
THEOREM TypeCorrect == Spec => []TypeOK
<1>1. IInv => TypeOK
  BY DEF IInv
<1> QED BY <1>1, Inductive, PTL

(* Once the end of a session is recorded and seen, no request that begins  *)
(* later passes with it, for any number of users, sessions and requests.   *)
(* An end that was told although its revocation failed is not among them:  *)
(* ToldForGood does not hold.                                              *)
THEOREM EndedCorrect == Spec => []EndedForGood
<1>1. IInv => EndedForGood
  BY DEF IInv
<1> QED BY <1>1, Inductive, PTL
=============================================================================
