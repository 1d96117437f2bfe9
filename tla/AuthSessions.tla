---------------------------- MODULE AuthSessions ----------------------------
(***************************************************************************)
(* Sign-in, refresh-token rotation with replay detection, authentication   *)
(* by access token, logout and the operator's revocation of all sessions   *)
(* of a user: AuthService, AuthTokenProvider, AuthSessionRepository,       *)
(* AuthenticationGuard, SessionAdministrationRepository.                   *)
(***************************************************************************)
EXTENDS IdentityStore

----------------------------------------------------------------------------
(* Sign-in *)

LoginState(pc, u, password, clock) ==
    [pc |-> pc, user |-> u, password |-> password, clock |-> clock]

\* findCredentials and the comparison of the password typed with the hash
\* read.  The handler goes on with the hash it read.
FindCredentials(r, u) ==
    /\ IsFree(r)
    /\ Active(u)
    /\ users[u].password # 0
    /\ Become(r, LoginState("recordLogin", u, users[u].password, now))
    /\ UNCHANGED <<now, storeVars>>

\* Broken form of CredentialStillValid: only the activity is checked again.
CredentialStillValid_NoHash(r) == Active(request[r].user)

\* The UPDATE that records the login matches the row only while the user is
\* active and the hash is the one that was checked.
CredentialStillValid(r) ==
    LET u == request[r].user
    IN Active(u) /\ users[u].password = request[r].password

\* The UPDATE takes the row lock; when it matches nothing the login fails.
\* The handler reads the clock between its two transactions.
RecordLogin(r) ==
    /\ At(r, "recordLogin")
    /\ CanLock(request[r].user)
    /\ IF CredentialStillValid(r)
       THEN \E issuedAt \in request[r].clock .. now :
              Become(r, LoginState("createSession", request[r].user,
                                   request[r].password, issuedAt))
       ELSE Finish(r, "refused")
    /\ UNCHANGED <<now, storeVars>>

\* The row issueLogin hands to the repository.
NewSession(u, token, password, issuedAt) ==
    [user |-> u, token |-> token, previous |-> None, revoked |-> FALSE,
     expiresAt |-> issuedAt + RefreshTtl,
     absoluteExpiresAt |-> issuedAt + AbsoluteTtl,
     password |-> password]

\* Broken form of CreateSession: the login does not write the user row.
CreateSession_NoUserWrite(r) ==
    /\ At(r, "createSession")
    /\ \E s \in Session, t \in FreshTokens :
         /\ ~SessionExists(s)
         /\ sessions' = [sessions EXCEPT ![s] =
                           NewSession(request[r].user, t, request[r].password,
                                      request[r].clock)]
    /\ Finish(r, "granted")
    /\ UNCHANGED <<now, users, consumed, resetTokens, mailed>>

\* The session is inserted and the transaction commits.
CreateSession(r) ==
    /\ At(r, "createSession")
    /\ LET u == request[r].user IN
       \E s \in Session, t \in FreshTokens :
         /\ ~SessionExists(s)
         /\ sessions' = [sessions EXCEPT ![s] =
                           NewSession(u, t, request[r].password,
                                      request[r].clock)]
         /\ users' = [users EXCEPT ![u] =
                        Rewritten(u, users[u].status, FALSE)]
    /\ Finish(r, "granted")
    /\ UNCHANGED <<now, consumed, resetTokens, mailed>>

----------------------------------------------------------------------------
(* Refresh *)

RefreshState(pc, token, session, clock) ==
    [pc |-> pc, token |-> token, session |-> session, clock |-> clock]

\* findValidSessionByTokenHash, for a token the store knows (an unknown one
\* resolves to no tenant and is refused before this).
FindValidSession(r, t) ==
    /\ IsFree(r)
    /\ t \in StoredTokens
    /\ \/ \E s \in Session :
             /\ Usable(s)
             /\ sessions[s].token = t
             /\ Become(r, RefreshState("findActiveUser", t, s, 0))
       \/ /\ \A s \in Session : ~(Usable(s) /\ sessions[s].token = t)
          /\ Become(r, [pc |-> "findConsumed", token |-> t])
    /\ UNCHANGED <<now, storeVars>>

\* Broken form of ConsumedBy: only the immediately previous token is kept.
ConsumedBy_PreviousOnly(t) ==
    {s \in Session : /\ SessionExists(s)
                     /\ ~sessions[s].revoked
                     /\ sessions[s].previous = t}

\* findSessionByConsumedTokenHash: a live session that has exchanged t before.
ConsumedBy(t) ==
    {s \in Session : /\ SessionExists(s)
                     /\ ~sessions[s].revoked
                     /\ (sessions[s].previous = t \/ t \in consumed[s])}

\* The request ends with a 401; its token is remembered as a history field.
Refuse(r) == Become(r, Ended("refused", request[r].token))

\* A token that is valid for no session: a replay names the session to revoke.
FindConsumed(r) ==
    /\ At(r, "findConsumed")
    /\ LET reused == ConsumedBy(request[r].token) IN
       \/ \E s \in reused :
            Become(r, RefreshState("revokeSession", request[r].token, s, 0))
       \/ /\ reused = {}
          /\ Refuse(r)
    /\ UNCHANGED <<now, storeVars>>

\* findActiveUser of the session's user; then the next expiry is computed.
FindActiveUser(r) ==
    /\ At(r, "findActiveUser")
    /\ IF Active(sessions[request[r].session].user)
       THEN Become(r, RefreshState("rotateSession", request[r].token,
                                   request[r].session, now))
       ELSE Goto(r, "revokeSession")
    /\ UNCHANGED <<now, storeVars>>

\* min(now + refreshTtl, session.absoluteExpiresAt)
NextExpiry(s, clock) ==
    IF clock + RefreshTtl < sessions[s].absoluteExpiresAt
    THEN clock + RefreshTtl
    ELSE sessions[s].absoluteExpiresAt

\* Broken form of RotationMatches: the revocation is not checked again.
RotationMatches_Revoked(s, t) ==
    /\ SessionExists(s)
    /\ sessions[s].expiresAt > now
    /\ sessions[s].absoluteExpiresAt > now
    /\ sessions[s].token = t

\* The compare-and-set of rotateSession finds the row it read ...
RotationMatches(s, t) == Usable(s) /\ sessions[s].token = t

\* ... and the consumed hash is unique within the tenant.
ConsumedIsUnique(t) == \A s \in Session : t \notin consumed[s]

\* Broken form of Rotated: the session id and the token hash, both strings,
\* are passed in the wrong order.
Rotated_Swapped(s, t, next, clock) ==
    [sessions[s] EXCEPT !.token = next, !.previous = s,
                        !.expiresAt = NextExpiry(s, clock)]

\* What the rotation writes.
Rotated(s, t, next, clock) ==
    [user |-> sessions[s].user, token |-> next, previous |-> t,
     revoked |-> sessions[s].revoked, expiresAt |-> NextExpiry(s, clock),
     absoluteExpiresAt |-> sessions[s].absoluteExpiresAt,
     password |-> sessions[s].password]

\* rotateSession: the update and the consumed token commit together; when the
\* row no longer matches, the session is revoked next.
RotateSession(r) ==
    /\ At(r, "rotateSession")
    /\ LET s == request[r].session
           t == request[r].token
       IN \/ /\ RotationMatches(s, t)
             /\ ConsumedIsUnique(t)
             /\ \E next \in FreshTokens :
                  sessions' = [sessions EXCEPT ![s] =
                                 Rotated(s, t, next, request[r].clock)]
             /\ consumed' = [consumed EXCEPT ![s] = @ \cup {t}]
             /\ Finish(r, "granted")
          \/ /\ ~RotationMatches(s, t)
             /\ Goto(r, "revokeSession")
             /\ UNCHANGED <<sessions, consumed>>
    /\ UNCHANGED <<now, users, resetTokens, mailed>>

\* UPDATE ... SET revoked_at WHERE id = s AND revoked_at IS NULL
SessionRevoked(s) ==
    [x \in Session |-> IF x = s /\ SessionExists(x)
                       THEN [sessions[x] EXCEPT !.revoked = TRUE]
                       ELSE sessions[x]]

\* The three places of rotate that revoke the session before they answer 401.
RevokeSession(r) ==
    /\ At(r, "revokeSession")
    /\ sessions' = SessionRevoked(request[r].session)
    /\ Refuse(r)
    /\ UNCHANGED <<now, users, consumed, resetTokens, mailed>>

----------------------------------------------------------------------------
(* Authentication.  An access token names its session and outlives it: the *)
(* guards look the session and the user up for every request.              *)

InForce(s) ==
    /\ Usable(s)
    /\ Active(sessions[s].user)
    /\ sessions[s].password = users[sessions[s].user].password

\* A request arrives with a verified access token of session s.
PresentAccessToken(r, s) ==
    /\ IsFree(r)
    /\ SessionExists(s)
    /\ Become(r, [pc |-> "isSessionActive", session |-> s, inForce |-> InForce(s)])
    /\ UNCHANGED <<now, storeVars>>

\* Broken form of SessionActive: a revoked session counts until it expires.
SessionActive_Revoked(s) ==
    SessionExists(s) /\ sessions[s].expiresAt > now /\ sessions[s].absoluteExpiresAt > now

SessionActive(s) == Usable(s)

\* One lookup of the guards, in a transaction of its own, and what follows it.
Lookup(r, from, found, to) ==
    /\ At(r, from)
    /\ IF found THEN Goto(r, to) ELSE Finish(r, "refused")
    /\ UNCHANGED <<now, storeVars>>

IsSessionActive(r) ==
    Lookup(r, "isSessionActive", SessionActive(request[r].session), "findUser")

FindUser(r) ==
    Lookup(r, "findUser", Active(sessions[request[r].session].user), "findActor")

\* Whether the user has an actor profile is not known here.
FindActor(r) == \E found \in BOOLEAN : Lookup(r, "findActor", found, "admitted")

\* The handler of an admitted request answers.
Answer(r) ==
    /\ At(r, "admitted")
    /\ Finish(r, "granted")
    /\ UNCHANGED <<now, storeVars>>

----------------------------------------------------------------------------
(* Revocation on request *)

\* POST /auth/logout revokes the session that the request was admitted with.
Logout(r) ==
    /\ At(r, "admitted")
    /\ sessions' = SessionRevoked(request[r].session)
    /\ Finish(r, "granted")
    /\ UNCHANGED <<now, users, consumed, resetTokens, mailed>>

\* An operator revokes all sessions of a user; FOR UPDATE takes the row lock.
LockForRevoke(r, u) ==
    /\ IsFree(r)
    /\ Exists(u)
    /\ RowFree(u)
    /\ Become(r, [pc |-> "revokeForUser", user |-> u])
    /\ UNCHANGED <<now, storeVars>>

RevokeForUser(r) ==
    /\ At(r, "revokeForUser")
    /\ sessions' = AllRevoked(request[r].user)
    /\ Finish(r, "granted")
    /\ UNCHANGED <<now, users, consumed, resetTokens, mailed>>
=============================================================================
