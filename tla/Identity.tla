------------------------------ MODULE Identity ------------------------------
(***************************************************************************)
(* The identity subsystem: sessions, user administration and password      *)
(* recovery run concurrently over the shared tables.                       *)
(***************************************************************************)
EXTENDS AuthSessions, UserAccounts, PasswordRecovery

SignIn(r) ==
    \/ \E u \in User : FindCredentials(r, u)
    \/ RecordLogin(r)
    \/ CreateSession(r)

Refresh(r) ==
    \/ \E t \in Token : FindValidSession(r, t)
    \/ FindConsumed(r)
    \/ FindActiveUser(r)
    \/ RotateSession(r)
    \/ RevokeSession(r)

Authenticate(r) ==
    \/ \E s \in Session : PresentAccessToken(r, s)
    \/ IsSessionActive(r)
    \/ FindUser(r)
    \/ FindActor(r)
    \/ Answer(r)
    \/ Logout(r)

RevokeAll(r) ==
    \/ \E u \in User : LockForRevoke(r, u)
    \/ RevokeForUser(r)

Administration(r) ==
    \/ \E u \in User, c \in SUBSET Change : BeginUpdate(r, u, c)
    \/ LockForUpdate(r)
    \/ CommitUpdate(r)

Recovery(r) ==
    \/ \E u \in User :
         FindActiveCredentials(r, u) \/ ProvisionContactUser(r, u) \/ RepeatGrant(r, u)
    \/ InitiateSetup(r)
    \/ LockForReplace(r)
    \/ CreateResetToken(r)
    \/ EnqueueMail(r)
    \/ RetireUndelivered(r)
    \/ \E k \in ResetToken : FindCandidate(r, k)
    \/ LockForReset(r)
    \/ ConsumeResetToken(r)

Next ==
    \/ Tick
    \/ \E u \in User : CreateUser(u) \/ DeleteUser(u)
    \/ \E r \in Request :
         \/ SignIn(r)
         \/ Refresh(r)
         \/ Authenticate(r)
         \/ RevokeAll(r)
         \/ Administration(r)
         \/ Recovery(r)
         \/ RequestLost(r)

Spec == Init /\ [][Next]_vars

----------------------------------------------------------------------------
(* Properties *)

\* Every row and every request in flight has the shape its table or its
\* handler gives it.
TypeOK ==
    /\ now \in Nat
    /\ users \in [User -> UserRow]
    /\ sessions \in [Session -> SessionRow \cup {None}]
    /\ consumed \in [Session -> SUBSET Token]
    /\ resetTokens \in [ResetToken -> ResetRow \cup {None}]
    /\ mailed \in SUBSET ResetToken
    /\ request \in [Request -> RequestRow]

\* A session that is not revoked belongs to an active user and was opened
\* with the password that user has now: whatever the order in which sign-in,
\* password reset, administration and revocation interleave, no session
\* survives a password change or a deactivation, and none is created from the
\* credentials of before.
LiveSessionsAreCurrent ==
    \A s \in Session :
        SessionExists(s) /\ ~sessions[s].revoked
            => /\ Active(sessions[s].user)
               /\ sessions[s].password = users[sessions[s].user].password

\* An administrator's update that is still able to commit has every live
\* session of its user in its snapshot: a sign-in that its second statement
\* could not see has written the user row, and so makes the first one fail.
SnapshotsSeeLiveSessions ==
    \A r \in Request :
        request[r].pc \in {"updateUser", "commitUpdate"} /\ ~ChangedSinceSnapshot(r)
            => \A s \in Session :
                 /\ SessionExists(s)
                 /\ ~sessions[s].revoked
                 /\ sessions[s].user = request[r].user
                 => s \in RevocableIn(r)

\* A refresh that is refused although its token was exchanged before leaves
\* the session of that token revoked, also when the exchange happened while
\* the refused request was already past its lookup.
ReplayRevokes ==
    \A r \in Request, s \in Session :
        At(r, "refused") /\ request[r].token \in consumed[s]
            => sessions[s].revoked

\* A request is admitted only if its session was in force when it arrived,
\* although the session, the user and the actor are looked up one by one: from
\* the moment a logout, a password change, a deactivation or a revocation has
\* committed, no access token issued before lets a request in.
AdmittedWasInForce == \A r \in Request : At(r, "admitted") => request[r].inForce

\* The mapping of a session row to the abstract life of a token family.
Stage == [s \in Session |-> IF ~SessionExists(s) THEN "none"
                            ELSE IF sessions[s].revoked THEN "dead" ELSE "live"]
Current == [s \in Session |-> IF SessionExists(s) THEN sessions[s].token ELSE None]
Lease == [s \in Session |-> IF SessionExists(s) THEN sessions[s].expiresAt ELSE 0]
Deadline == [s \in Session |-> IF SessionExists(s) THEN sessions[s].absoluteExpiresAt ELSE 0]

Family == INSTANCE RefreshTokenFamily WITH
    state <- Stage, current <- Current, spent <- consumed,
    lease <- Lease, deadline <- Deadline

\* Rotation, replay handling and revocation implement the token family: a
\* token is exchanged at most once, a revoked session never changes again, and
\* rotation never carries a session past its absolute expiry.
FamilySpec == Family!Spec

\* At most one reset token of a user is unused, however recovery requests
\* interleave: a later one retires what an earlier one issued.
AtMostOneUnusedResetToken ==
    \A u \in User : \A j, k \in UnusedOf(u) : j = k

\* The password of an existing login changes only through an administrator's
\* update or by using up one live reset token; either way no session of the
\* user is left unrevoked, and after a reset no token of the user is left.
PasswordChangeIsAuthorized ==
    [][\A u \in User :
         Exists(u) /\ users'[u].password # users[u].password
           => /\ \A s \in Session :
                   SessionExists(s) /\ sessions[s].user = u => sessions'[s].revoked
              /\ \/ \E r \in Request : /\ At(r, "commitUpdate")
                                       /\ request[r].user = u
                                       /\ "password" \in request[r].change
                                       /\ At(r, "granted")'
                 \/ /\ \E k \in UnusedOf(u) : resetTokens[k].expiresAt > now
                    /\ UnusedOf(u)' = {}]_vars

\* Setting up the login of a client contact that has no password yet goes on
\* to issue a reset token, as long as the process does not stop.
SetupIssuesToken ==
    [][\A r \in Request :
         At(r, "initiateSetup") /\ Active(request[r].user)
           => At(r, "initiateSetup")' \/ At(r, "lockForReplace")' \/ At(r, "idle")']_vars
=============================================================================
