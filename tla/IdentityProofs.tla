--------------------------- MODULE IdentityProofs ---------------------------
(***************************************************************************)
(* Proofs about Identity for every set of users, sessions, tokens and      *)
(* requests, every lifetime and every bound: its types, that no session    *)
(* outlives the credential it was opened with, that an access token admits *)
(* a request only if its session was in force when it arrived, that        *)
(* rotation is a token family and a replay ends it, that a user has one    *)
(* reset token, and that a password changes only by whoever may.           *)
(***************************************************************************)
EXTENDS Identity, TLAPS

USE NoneAssumption, TtlAssumption, BoundAssumption

----------------------------------------------------------------------------
(* Types *)

\* A request that moves on to a well-formed state is well formed.
LEMMA BecomeType ==
    ASSUME request \in [Request -> RequestRow], NEW r \in Request,
           NEW row \in RequestRow, Become(r, row)
    PROVE  request' \in [Request -> RequestRow]
BY DEF Become

\* A request that has ended is well formed.
LEMMA EndedType ==
    ASSUME NEW outcome \in Free, NEW token \in Token \cup {None}
    PROVE  Ended(outcome, token) \in RequestRow
BY DEF Ended, RequestRow, EndedRow

\* Ending a request keeps the type of the requests.
LEMMA FinishType ==
    ASSUME request \in [Request -> RequestRow], NEW r \in Request,
           NEW outcome \in Free, Finish(r, outcome)
    PROVE  request' \in [Request -> RequestRow]
BY EndedType, BecomeType DEF Finish

\* What a request at a given step holds.
LEMMA RequestFields ==
    ASSUME NEW q \in RequestRow
    PROVE  /\ q.pc \in {"recordLogin", "createSession"} => q \in LoginRow
           /\ q.pc = "findConsumed" => q \in ReplayRow
           /\ q.pc \in {"findActiveUser", "rotateSession", "revokeSession"}
                => q \in RefreshRow
           /\ q.pc \in Authenticating => q \in BearerRow
           /\ q.pc = "revokeForUser" => q \in RevokeRow
           /\ q.pc \in {"updateUser", "commitUpdate"} => q \in UpdateRow
           /\ q.pc \in {"initiateSetup", "lockForReplace"} => q \in RecoveryRow
           /\ q.pc \in Issuing => q \in IssueRow
           /\ q.pc \in {"lockForReset", "consumeResetToken"}
                => q \in ResetRequestRow
BY DEF RequestRow, EndedRow, LoginRow, ReplayRow, RefreshRow, BearerRow, RevokeRow,
       UpdateRow, RecoveryRow, IssueRow, ResetRequestRow, Free, Issuing, Authenticating

\* A row that an UPDATE rewrites is again a user row.
LEMMA RewrittenType ==
    ASSUME NEW u \in User, users[u] \in UserRow,
           NEW status \in {"absent", "active", "inactive", "deleted"},
           NEW setsPassword
    PROVE  Rewritten(u, status, setsPassword) \in UserRow
BY DEF Rewritten, UserRow

\* Revoking all the sessions of a user keeps the type of the session table.
LEMMA AllRevokedType ==
    ASSUME sessions \in [Session -> SessionRow \cup {None}], NEW u \in User
    PROVE  AllRevoked(u) \in [Session -> SessionRow \cup {None}]
BY DEF AllRevoked, SessionRow, SessionExists

\* A reset token marked used is again a row.
LEMMA MarkedUsedType ==
    ASSUME resetTokens \in [ResetToken -> ResetRow \cup {None}],
           NEW k \in ResetToken
    PROVE  MarkedUsed(k) \in ResetRow \cup {None}
BY DEF MarkedUsed, ResetRow

\* Revoking one session keeps the type of the session table.
LEMMA SessionRevokedType ==
    ASSUME sessions \in [Session -> SessionRow \cup {None}], NEW s \in Session
    PROVE  SessionRevoked(s) \in [Session -> SessionRow \cup {None}]
BY DEF SessionRevoked, SessionRow, SessionExists

\* The store starts well typed.
LEMMA InitType == Init => TypeOK
<1> SUFFICES ASSUME Init PROVE TypeOK
  OBVIOUS
<1>1. users \in [User -> UserRow]
  BY DEF Init, UserRow
<1>2. request \in [Request -> RequestRow]
  BY EndedType DEF Init, Free
<1> QED
  BY <1>1, <1>2 DEF Init, TypeOK

\* Sign-in.
LEMMA SignInType ==
    ASSUME TypeOK, NEW r \in Request, SignIn(r)
    PROVE  TypeOK'
<1> USE DEF storeVars
<1>1. ASSUME NEW u \in User, FindCredentials(r, u) PROVE TypeOK'
  <2>1. LoginState("recordLogin", u, users[u].password, now) \in RequestRow
    BY DEF LoginState, RequestRow, LoginRow, TypeOK, UserRow
  <2> QED BY <1>1, <2>1, BecomeType DEF FindCredentials, TypeOK
<1>2. CASE RecordLogin(r)
  <2>1. request[r] \in LoginRow
    BY <1>2, RequestFields DEF RecordLogin, At, TypeOK
  <2>2. ASSUME NEW issuedAt \in request[r].clock .. now
        PROVE  LoginState("createSession", request[r].user, request[r].password,
                          issuedAt) \in RequestRow
    BY <2>1 DEF LoginState, RequestRow, LoginRow, TypeOK
  <2>3. request' \in [Request -> RequestRow]
    BY <1>2, <2>2, BecomeType, FinishType DEF RecordLogin, TypeOK, Free
  <2> QED BY <1>2, <2>3 DEF RecordLogin, TypeOK
<1>3. CASE CreateSession(r)
  <2>1. request[r] \in LoginRow
    BY <1>3, RequestFields DEF CreateSession, At, TypeOK
  <2>2. PICK s \in Session, t \in FreshTokens :
          /\ sessions' = [sessions EXCEPT ![s] =
                NewSession(request[r].user, t, request[r].password, request[r].clock)]
          /\ users' = [users EXCEPT ![request[r].user] =
                Rewritten(request[r].user, users[request[r].user].status, FALSE)]
    BY <1>3 DEF CreateSession
  <2>3. NewSession(request[r].user, t, request[r].password, request[r].clock)
          \in SessionRow
    BY <2>1 DEF NewSession, SessionRow, LoginRow, FreshTokens
  <2>4. Rewritten(request[r].user, users[request[r].user].status, FALSE) \in UserRow
    BY <2>1, RewrittenType DEF LoginRow, TypeOK, UserRow
  <2>5. request' \in [Request -> RequestRow]
    BY <1>3, FinishType DEF CreateSession, TypeOK, Free
  <2> QED BY <1>3, <2>2, <2>3, <2>4, <2>5 DEF CreateSession, TypeOK
<1> QED BY <1>1, <1>2, <1>3 DEF SignIn

\* Refresh.
LEMMA RefreshType ==
    ASSUME TypeOK, NEW r \in Request, Refresh(r)
    PROVE  TypeOK'
<1> USE DEF storeVars
<1>1. ASSUME NEW t \in Token, FindValidSession(r, t) PROVE TypeOK'
  <2>1. ASSUME NEW s \in Session
        PROVE  RefreshState("findActiveUser", t, s, 0) \in RequestRow
    BY DEF RefreshState, RequestRow, RefreshRow
  <2>2. [pc |-> "findConsumed", token |-> t] \in RequestRow
    BY DEF RequestRow, ReplayRow
  <2>3. request' \in [Request -> RequestRow]
    BY <1>1, <2>1, <2>2, BecomeType DEF FindValidSession, TypeOK
  <2> QED BY <1>1, <2>3 DEF FindValidSession, TypeOK
<1>2. ASSUME At(r, "findActiveUser") \/ At(r, "rotateSession")
               \/ At(r, "revokeSession")
      PROVE  request[r] \in RefreshRow
  BY <1>2, RequestFields DEF At, TypeOK
<1>3. CASE FindConsumed(r)
  <2>1. request[r] \in ReplayRow
    BY <1>3, RequestFields DEF FindConsumed, At, TypeOK
  <2>2. ASSUME NEW s \in Session
        PROVE  RefreshState("revokeSession", request[r].token, s, 0) \in RequestRow
    BY <2>1 DEF RefreshState, RequestRow, RefreshRow, ReplayRow
  <2>3. Ended("refused", request[r].token) \in RequestRow
    BY <2>1, EndedType DEF ReplayRow, Free
  <2>4. ConsumedBy(request[r].token) \subseteq Session
    BY DEF ConsumedBy
  <2>5. request' \in [Request -> RequestRow]
    BY <1>3, <2>2, <2>3, <2>4, BecomeType DEF FindConsumed, Refuse, TypeOK
  <2> QED BY <1>3, <2>5 DEF FindConsumed, TypeOK
<1>4. CASE FindActiveUser(r)
  <2>1. request[r] \in RefreshRow
    BY <1>2, <1>4 DEF FindActiveUser
  <2>2. RefreshState("rotateSession", request[r].token, request[r].session, now)
          \in RequestRow
    BY <2>1 DEF RefreshState, RequestRow, RefreshRow, TypeOK
  <2>3. [request[r] EXCEPT !.pc = "revokeSession"] \in RequestRow
    BY <2>1 DEF RequestRow, RefreshRow
  <2>4. request' \in [Request -> RequestRow]
    BY <1>4, <2>2, <2>3, BecomeType DEF FindActiveUser, Goto, TypeOK
  <2> QED BY <1>4, <2>4 DEF FindActiveUser, TypeOK
<1>5. CASE RotateSession(r)
  <2>1. request[r] \in RefreshRow
    BY <1>2, <1>5 DEF RotateSession
  <2>2. [request[r] EXCEPT !.pc = "revokeSession"] \in RequestRow
    BY <2>1 DEF RequestRow, RefreshRow
  <2>3. request' \in [Request -> RequestRow]
    BY <1>5, <2>2, BecomeType, FinishType DEF RotateSession, Goto, TypeOK, Free
  <2>4. CASE UNCHANGED <<sessions, consumed>>
    BY <1>5, <2>3, <2>4 DEF RotateSession, TypeOK
  <2>5. ASSUME NEW next \in FreshTokens,
               RotationMatches(request[r].session, request[r].token),
               sessions' = [sessions EXCEPT ![request[r].session] =
                   Rotated(request[r].session, request[r].token, next,
                           request[r].clock)],
               consumed' = [consumed EXCEPT ![request[r].session] =
                              @ \cup {request[r].token}]
        PROVE  TypeOK'
    <3>1. /\ sessions[request[r].session] \in SessionRow
          /\ request[r].token \in Token
          /\ request[r].clock \in Nat
          /\ next \in Token
      BY <2>1, <2>5 DEF RotationMatches, Usable, SessionExists, TypeOK,
                        RefreshRow, FreshTokens
    <3>2. Rotated(request[r].session, request[r].token, next, request[r].clock)
            \in SessionRow
      BY <3>1 DEF Rotated, NextExpiry, SessionRow
    <3>3. sessions' \in [Session -> SessionRow \cup {None}]
      BY <2>1, <2>5, <3>2 DEF TypeOK
    <3>4. consumed' \in [Session -> SUBSET Token]
      BY <2>1, <2>5, <3>1 DEF TypeOK
    <3> QED BY <1>5, <2>3, <3>3, <3>4 DEF RotateSession, TypeOK
  <2> QED BY <1>5, <2>4, <2>5 DEF RotateSession
<1>6. CASE RevokeSession(r)
  <2>1. request[r] \in RefreshRow
    BY <1>2, <1>6 DEF RevokeSession
  <2>2. Ended("refused", request[r].token) \in RequestRow
    BY <2>1, EndedType DEF RefreshRow, Free
  <2>3. request' \in [Request -> RequestRow]
    BY <1>6, <2>2, BecomeType DEF RevokeSession, Refuse, TypeOK
  <2>4. sessions' \in [Session -> SessionRow \cup {None}]
    BY <1>6, <2>1, SessionRevokedType DEF RevokeSession, TypeOK, RefreshRow
  <2> QED BY <1>6, <2>3, <2>4 DEF RevokeSession, TypeOK
<1> QED BY <1>1, <1>3, <1>4, <1>5, <1>6 DEF Refresh

\* Authentication and logout.
LEMMA AuthenticationType ==
    ASSUME TypeOK, NEW r \in Request, Authenticate(r)
    PROVE  TypeOK'
<1> USE DEF storeVars
<1>1. ASSUME NEW s \in Session, PresentAccessToken(r, s) PROVE TypeOK'
  <2>1. [pc |-> "isSessionActive", session |-> s, inForce |-> InForce(s)] \in RequestRow
    BY DEF RequestRow, BearerRow, Authenticating, InForce, Usable, Active, SessionExists
  <2> QED BY <1>1, <2>1, BecomeType DEF PresentAccessToken, TypeOK
<1>2. ASSUME NEW from \in Authenticating, NEW found, NEW to \in Authenticating,
             Lookup(r, from, found, to)
      PROVE  TypeOK'
  <2>1. request[r] \in BearerRow
    BY <1>2, RequestFields DEF Lookup, At, TypeOK
  <2>2. [request[r] EXCEPT !.pc = to] \in RequestRow
    BY <2>1 DEF RequestRow, BearerRow
  <2>3. request' \in [Request -> RequestRow]
    BY <1>2, <2>2, BecomeType, FinishType DEF Lookup, Goto, TypeOK, Free
  <2> QED BY <1>2, <2>3 DEF Lookup, TypeOK
<1>3. CASE IsSessionActive(r) \/ FindUser(r) \/ FindActor(r)
  BY <1>2, <1>3 DEF IsSessionActive, FindUser, FindActor, Authenticating
<1>4. CASE Answer(r) \/ Logout(r)
  <2>1. request[r].session \in Session
    BY <1>4, RequestFields DEF Answer, Logout, At, TypeOK, BearerRow, Authenticating
  <2>2. request' \in [Request -> RequestRow]
    BY <1>4, FinishType DEF Answer, Logout, TypeOK, Free
  <2> QED BY <1>4, <2>1, <2>2, SessionRevokedType DEF Answer, Logout, TypeOK
<1> QED BY <1>1, <1>3, <1>4 DEF Authenticate

\* Revocation of all sessions of a user.
LEMMA RevocationType ==
    ASSUME TypeOK, NEW r \in Request, RevokeAll(r)
    PROVE  TypeOK'
<1> USE DEF storeVars
<1>1. ASSUME NEW u \in User, LockForRevoke(r, u) PROVE TypeOK'
  <2>1. [pc |-> "revokeForUser", user |-> u] \in RequestRow
    BY DEF RequestRow, RevokeRow
  <2> QED BY <1>1, <2>1, BecomeType DEF LockForRevoke, TypeOK
<1>2. CASE RevokeForUser(r)
  <2>1. request[r].user \in User
    BY <1>2, RequestFields DEF RevokeForUser, At, TypeOK, RevokeRow
  <2>2. sessions' \in [Session -> SessionRow \cup {None}]
    BY <1>2, <2>1, AllRevokedType DEF RevokeForUser, TypeOK
  <2>3. request' \in [Request -> RequestRow]
    BY <1>2, FinishType DEF RevokeForUser, TypeOK, Free
  <2> QED BY <1>2, <2>2, <2>3 DEF RevokeForUser, TypeOK
<1> QED BY <1>1, <1>2 DEF RevokeAll

\* User administration.
LEMMA AdministrationType ==
    ASSUME TypeOK,
           \/ \E u \in User : CreateUser(u) \/ DeleteUser(u)
           \/ \E r \in Request : Administration(r)
    PROVE  TypeOK'
<1> USE DEF storeVars
<1>1. ASSUME NEW u \in User, CreateUser(u) \/ DeleteUser(u) PROVE TypeOK'
  <2>1. Rewritten(u, "active", TRUE) \in UserRow
    BY RewrittenType DEF TypeOK
  <2>2. Rewritten(u, "deleted", FALSE) \in UserRow
    BY RewrittenType DEF TypeOK
  <2>3. CASE CreateUser(u)
    BY <2>1, <2>3 DEF CreateUser, TypeOK
  <2>4. CASE DeleteUser(u)
    BY <2>2, <2>4 DEF DeleteUser, TypeOK
  <2> QED BY <1>1, <2>3, <2>4
<1>2. ASSUME NEW r \in Request, NEW u \in User, NEW c \in SUBSET Change,
             BeginUpdate(r, u, c)
      PROVE  TypeOK'
  <2>1. [pc |-> "updateUser", user |-> u, change |-> c,
         version |-> users[u].version, snapshot |-> sessions] \in RequestRow
    BY DEF RequestRow, UpdateRow, TypeOK, UserRow
  <2> QED BY <1>2, <2>1, BecomeType DEF BeginUpdate, TypeOK
<1>3. ASSUME NEW r \in Request, LockForUpdate(r) PROVE TypeOK'
  <2>1. request[r] \in UpdateRow
    BY <1>3, RequestFields DEF LockForUpdate, At, TypeOK
  <2>2. [request[r] EXCEPT !.pc = "commitUpdate"] \in RequestRow
    BY <2>1 DEF RequestRow, UpdateRow
  <2>3. request' \in [Request -> RequestRow]
    BY <1>3, <2>2, BecomeType, FinishType DEF LockForUpdate, Goto, TypeOK, Free
  <2> QED BY <1>3, <2>3 DEF LockForUpdate, TypeOK
<1>4. ASSUME NEW r \in Request, CommitUpdate(r) PROVE TypeOK'
  <2>1. request[r] \in UpdateRow
    BY <1>4, RequestFields DEF CommitUpdate, At, TypeOK
  <2>2. request' \in [Request -> RequestRow]
    BY <1>4, FinishType DEF CommitUpdate, TypeOK, Free
  <2>3. CASE UNCHANGED <<users, sessions>>
    BY <1>4, <2>2, <2>3 DEF CommitUpdate, TypeOK
  <2>4. ASSUME NEW revoked,
               \A s \in revoked : sessions[s] = request[r].snapshot[s],
               revoked \subseteq RevocableIn(r),
               users' = [users EXCEPT ![request[r].user] =
                           Rewritten(request[r].user,
                                     StatusAfter(request[r].user, request[r].change),
                                     "password" \in request[r].change)],
               sessions' = [s \in Session |->
                              IF s \in revoked
                              THEN [sessions[s] EXCEPT !.revoked = TRUE]
                              ELSE sessions[s]]
        PROVE  TypeOK'
    <3> DEFINE u == request[r].user
    <3>0. /\ u \in User
          /\ users[u] \in UserRow
          /\ StatusAfter(u, request[r].change)
               \in {"absent", "active", "inactive", "deleted"}
      BY <2>1 DEF StatusAfter, UpdateRow, TypeOK, UserRow
    <3>1. Rewritten(u, StatusAfter(u, request[r].change),
                    "password" \in request[r].change) \in UserRow
      BY <3>0, RewrittenType
    <3>2. users' \in [User -> UserRow]
      BY <2>1, <2>4, <3>1 DEF TypeOK
    <3>3. \A s \in revoked : sessions[s] \in SessionRow
      BY <2>4 DEF RevocableIn, TypeOK
    <3>4. \A s \in revoked : [sessions[s] EXCEPT !.revoked = TRUE] \in SessionRow
      BY <3>3 DEF SessionRow
    <3>5. sessions' \in [Session -> SessionRow \cup {None}]
      BY <2>4, <3>4 DEF TypeOK
    <3> QED BY <1>4, <2>2, <3>2, <3>5 DEF CommitUpdate, TypeOK
  <2> DEFINE revoked == IF RevokesSessions(request[r].change)
                        THEN RevocableIn(r) ELSE {}
  <2>5. revoked \subseteq RevocableIn(r)
    OBVIOUS
  <2>6. \/ UNCHANGED <<users, sessions>>
        \/ /\ \A s \in revoked : sessions[s] = request[r].snapshot[s]
           /\ users' = [users EXCEPT ![request[r].user] =
                           Rewritten(request[r].user,
                                     StatusAfter(request[r].user, request[r].change),
                                     "password" \in request[r].change)]
           /\ sessions' = [s \in Session |->
                              IF s \in revoked
                              THEN [sessions[s] EXCEPT !.revoked = TRUE]
                              ELSE sessions[s]]
    BY <1>4 DEF CommitUpdate
  <2> HIDE DEF revoked
  <2> QED BY <2>3, <2>4, <2>5, <2>6
<1> QED BY <1>1, <1>2, <1>3, <1>4 DEF Administration

\* Recovery: the lookups and the tokens issued.
LEMMA IssuingType ==
    ASSUME TypeOK, NEW r \in Request,
           \/ \E u \in User : \/ FindActiveCredentials(r, u)
                             \/ ProvisionContactUser(r, u) \/ RepeatGrant(r, u)
           \/ InitiateSetup(r) \/ LockForReplace(r) \/ CreateResetToken(r)
           \/ EnqueueMail(r) \/ RetireUndelivered(r)
    PROVE  TypeOK'
<1> USE DEF storeVars
<1>1. ASSUME NEW u \in User, NEW pc \in {"initiateSetup", "lockForReplace"},
             NEW clock \in Nat
      PROVE  RecoveryState(pc, u, clock) \in RequestRow
  BY DEF RecoveryState, RequestRow, RecoveryRow
<1>2. ASSUME NEW u \in User, FindActiveCredentials(r, u) PROVE TypeOK'
  <2>1. RecoveryState("lockForReplace", u, now) \in RequestRow
    BY <1>1 DEF TypeOK
  <2> QED BY <1>2, <2>1, BecomeType DEF FindActiveCredentials, TypeOK
<1>3. ASSUME NEW u \in User, ProvisionContactUser(r, u) PROVE TypeOK'
  <2>1. RecoveryState("initiateSetup", u, 0) \in RequestRow
    BY <1>1
  <2>2. Rewritten(u, "active", FALSE) \in UserRow
    BY RewrittenType DEF TypeOK
  <2> QED BY <1>3, <2>1, <2>2, BecomeType DEF ProvisionContactUser, TypeOK
<1>10. ASSUME NEW u \in User, RepeatGrant(r, u) PROVE TypeOK'
  <2>1. RecoveryState("initiateSetup", u, 0) \in RequestRow
    BY <1>1
  <2> QED BY <1>10, <2>1, BecomeType DEF RepeatGrant, TypeOK
<1>4. CASE InitiateSetup(r)
  <2>1. request[r] \in RecoveryRow
    BY <1>4, RequestFields DEF InitiateSetup, At, TypeOK
  <2>2. RecoveryState("lockForReplace", request[r].user, now) \in RequestRow
    BY <1>1, <2>1 DEF TypeOK, RecoveryRow
  <2>3. request' \in [Request -> RequestRow]
    BY <1>4, <2>2, BecomeType, FinishType DEF InitiateSetup, TypeOK, Free
  <2> QED BY <1>4, <2>3 DEF InitiateSetup, TypeOK
<1>5. CASE LockForReplace(r)
  <2>1. request[r] \in RecoveryRow
    BY <1>5, RequestFields DEF LockForReplace, At, TypeOK
  <2>2. ASSUME NEW k \in FreshKeys, NEW issuedAt \in request[r].clock .. now
        PROVE  IssueState(request[r].user, k, issuedAt, UnusedOf(request[r].user))
                 \in RequestRow
    BY <2>1 DEF IssueState, RequestRow, IssueRow, RecoveryRow, Issuing, FreshKeys,
                UnusedOf, TypeOK
  <2>3. request' \in [Request -> RequestRow]
    BY <1>5, <2>2, BecomeType DEF LockForReplace, TypeOK
  <2> QED BY <1>5, <2>3 DEF LockForReplace, TypeOK
<1>6. ASSUME At(r, "createResetToken") \/ At(r, "enqueueMail")
               \/ At(r, "retireUndelivered")
      PROVE  /\ request[r] \in IssueRow
             /\ \A pc \in Issuing : [request[r] EXCEPT !.pc = pc] \in RequestRow
  <2>1. request[r] \in IssueRow
    BY <1>6, RequestFields DEF At, TypeOK, Issuing
  <2> QED BY <2>1 DEF RequestRow, IssueRow
<1>7. CASE CreateResetToken(r)
  <2>1. /\ request[r] \in IssueRow
        /\ request' \in [Request -> RequestRow]
    BY <1>6, <1>7, BecomeType DEF CreateResetToken, Goto, TypeOK, Issuing
  <2>2. Replaced(request[r].retire, request[r].key, request[r].user,
                 request[r].clock) \in [ResetToken -> ResetRow \cup {None}]
    <3>1. \A x \in ResetToken : MarkedUsed(x) \in ResetRow \cup {None}
      BY MarkedUsedType DEF TypeOK
    <3>2. [user |-> request[r].user, expiresAt |-> request[r].clock + ResetTtl,
           used |-> FALSE] \in ResetRow
      BY <2>1 DEF ResetRow, IssueRow
    <3> QED BY <3>1, <3>2 DEF Replaced, TypeOK
  <2> QED BY <1>7, <2>1, <2>2 DEF CreateResetToken, TypeOK
<1>8. CASE EnqueueMail(r)
  <2>1. request[r] \in IssueRow
    BY <1>6, <1>8 DEF EnqueueMail
  <2>2. [request[r] EXCEPT !.pc = "retireUndelivered"] \in RequestRow
    BY <1>6, <1>8 DEF EnqueueMail, Issuing
  <2>3. request' \in [Request -> RequestRow]
    BY <1>8, <2>2, BecomeType, FinishType DEF EnqueueMail, Goto, TypeOK, Free
  <2>4. mailed' \in SUBSET ResetToken
    BY <1>8, <2>1 DEF EnqueueMail, IssueRow, TypeOK
  <2> QED BY <1>8, <2>3, <2>4 DEF EnqueueMail, TypeOK
<1>9. CASE RetireUndelivered(r)
  <2>1. request[r] \in IssueRow
    BY <1>6, <1>9 DEF RetireUndelivered
  <2>2. MarkedUsed(request[r].key) \in ResetRow \cup {None}
    BY <2>1, MarkedUsedType DEF IssueRow, TypeOK
  <2>3. request' \in [Request -> RequestRow]
    BY <1>9, FinishType DEF RetireUndelivered, TypeOK, Free
  <2> QED BY <1>9, <2>2, <2>3 DEF RetireUndelivered, TypeOK
<1> QED BY <1>2, <1>3, <1>4, <1>5, <1>7, <1>8, <1>9, <1>10

\* Recovery: the use of a token.
LEMMA ResetType ==
    ASSUME TypeOK, NEW r \in Request,
           \/ \E k \in ResetToken : FindCandidate(r, k)
           \/ LockForReset(r) \/ ConsumeResetToken(r)
    PROVE  TypeOK'
<1> USE DEF storeVars
<1>1. ASSUME NEW k \in ResetToken, FindCandidate(r, k) PROVE TypeOK'
  <2>1. [pc |-> "lockForReset", user |-> resetTokens[k].user, key |-> k] \in RequestRow
    BY <1>1 DEF FindCandidate, RequestRow, ResetRequestRow, ResetRow, TypeOK
  <2> QED BY <1>1, <2>1, BecomeType DEF FindCandidate, TypeOK
<1>2. ASSUME At(r, "lockForReset") \/ At(r, "consumeResetToken")
      PROVE  request[r] \in ResetRequestRow
  BY <1>2, RequestFields DEF At, TypeOK
<1>3. CASE LockForReset(r)
  <2>1. [request[r] EXCEPT !.pc = "consumeResetToken"] \in RequestRow
    BY <1>2, <1>3 DEF LockForReset, RequestRow, ResetRequestRow
  <2>2. request' \in [Request -> RequestRow]
    BY <1>3, <2>1, BecomeType, FinishType DEF LockForReset, Goto, TypeOK, Free
  <2> QED BY <1>3, <2>2 DEF LockForReset, TypeOK
<1>4. CASE ConsumeResetToken(r)
  <2>1. request[r].user \in User
    BY <1>2, <1>4 DEF ConsumeResetToken, ResetRequestRow
  <2>2. request' \in [Request -> RequestRow]
    BY <1>4, FinishType DEF ConsumeResetToken, TypeOK, Free
  <2>3. CASE UNCHANGED <<users, resetTokens, sessions>>
    BY <1>4, <2>2, <2>3 DEF ConsumeResetToken, TypeOK
  <2>4. CASE ResetTokenUsable(request[r].key)
    <3>1. Rewritten(request[r].user, users[request[r].user].status, TRUE) \in UserRow
      BY <2>1, RewrittenType DEF TypeOK, UserRow
    <3>2. users' \in [User -> UserRow]
      BY <1>4, <2>4, <3>1 DEF ConsumeResetToken, TypeOK
    <3>3. \A x \in ResetToken : MarkedUsed(x) \in ResetRow \cup {None}
      BY MarkedUsedType DEF TypeOK
    <3>4. resetTokens' \in [ResetToken -> ResetRow \cup {None}]
      BY <1>4, <2>4, <3>3 DEF ConsumeResetToken, TypeOK
    <3>5. sessions' \in [Session -> SessionRow \cup {None}]
      BY <1>4, <2>1, <2>4, AllRevokedType DEF ConsumeResetToken, TypeOK
    <3> QED BY <1>4, <2>2, <3>2, <3>4, <3>5 DEF ConsumeResetToken, TypeOK
  <2> QED BY <1>4, <2>3, <2>4 DEF ConsumeResetToken
<1> QED BY <1>1, <1>3, <1>4

\* Every step keeps the types.
LEMMA NextType == TypeOK /\ [Next]_vars => TypeOK'
<1> SUFFICES ASSUME TypeOK, [Next]_vars PROVE TypeOK'
  OBVIOUS
<1>1. CASE UNCHANGED vars
  BY <1>1 DEF vars, TypeOK
<1>2. CASE Tick
  BY <1>2 DEF Tick, storeVars, TypeOK
<1>3. ASSUME NEW r \in Request, RequestLost(r) PROVE TypeOK'
  <2>1. request' \in [Request -> RequestRow]
    BY <1>3, FinishType DEF RequestLost, TypeOK, Free
  <2> QED BY <1>3, <2>1 DEF RequestLost, storeVars, TypeOK
<1> QED
  BY <1>1, <1>2, <1>3, SignInType, RefreshType, AuthenticationType,
     RevocationType,
     AdministrationType, IssuingType, ResetType DEF Next, Recovery

\* Type correctness of the tables and of every request in flight.
THEOREM TypeCorrect == Spec => []TypeOK
BY InitType, NextType, PTL DEF Spec

----------------------------------------------------------------------------
(* The inductive invariant.  LiveSessionsAreCurrent is not inductive: it   *)
(* needs to be known what a request relies on while it holds a row lock,   *)
(* and what the snapshot of an update still tells.                         *)

Live(s) == SessionExists(s) /\ ~sessions[s].revoked

Updating == {"updateUser", "commitUpdate"}

\* A row lock has one holder.
LocksAreExclusive ==
    \A p, q \in Request :
        request[p].pc \in Holding /\ request[q].pc \in Holding
            /\ request[p].user = request[q].user => p = q

\* A login that holds the lock still has the credential it checked.
LoginsAreCurrent ==
    \A r \in Request : At(r, "createSession") => CredentialStillValid(r)

\* Versions only grow, and an update that holds the lock is not behind.
UpdatesAreOrdered ==
    \A r \in Request :
        request[r].pc \in Updating
            => /\ users[request[r].user].status # "absent"
               /\ request[r].version <= users[request[r].user].version
               /\ At(r, "commitUpdate") => ~ChangedSinceSnapshot(r)

SessionInv ==
    /\ TypeOK
    /\ LiveSessionsAreCurrent
    /\ LocksAreExclusive
    /\ LoginsAreCurrent
    /\ UpdatesAreOrdered
    /\ SnapshotsSeeLiveSessions

----------------------------------------------------------------------------
(* Two kinds of step *)

\* Sessions may be revoked and rotated, but none comes to life.
NothingRevives ==
    \A s \in Session :
        Live(s)' => /\ Live(s)
                    /\ sessions'[s].user = sessions[s].user
                    /\ sessions'[s].password = sessions[s].password

\* Every request goes on as it was, or holds nothing that matters here.
OthersUnchanged ==
    \A p \in Request : \/ request'[p] = request[p]
                       \/ request'[p].pc \notin Holding \cup Updating

\* Moving one request on leaves all others unchanged.
LEMMA BecomeOne ==
    ASSUME TypeOK, NEW r \in Request, NEW row, Become(r, row)
    PROVE  /\ request'[r] = row
           /\ \A p \in Request \ {r} : request'[p] = request[p]
BY DEF Become, TypeOK

\* Moving a request to a step that is neither an update nor under a lock.
LEMMA BecomeQuiet ==
    ASSUME TypeOK, NEW r \in Request, NEW row, Become(r, row),
           row.pc \notin Holding \cup Updating
    PROVE  OthersUnchanged
BY BecomeOne DEF OthersUnchanged

\* Ending a request leaves nothing behind that the invariant is about.
LEMMA FinishQuiet ==
    ASSUME TypeOK, NEW r \in Request, NEW outcome \in Free,
           \/ Finish(r, outcome)
           \/ \E t \in Token \cup {None} : Become(r, Ended(outcome, t))
    PROVE  OthersUnchanged
<1>1. PICK t : Become(r, Ended(outcome, t))
  BY DEF Finish
<1>2. Ended(outcome, t).pc \notin Holding \cup Updating
  BY DEF Ended, Free, Holding, Updating
<1> HIDE DEF Ended
<1> QED BY <1>1, <1>2, BecomeOne DEF OthersUnchanged

\* A step that writes no user row, revives no session and takes no lock.
LEMMA QuietStep ==
    ASSUME SessionInv, TypeOK', UNCHANGED users, NothingRevives, OthersUnchanged
    PROVE  SessionInv'
<1>1. LiveSessionsAreCurrent'
  BY DEF SessionInv, LiveSessionsAreCurrent, NothingRevives, Live, SessionExists,
         Active
<1>2. LocksAreExclusive'
  BY DEF SessionInv, LocksAreExclusive, OthersUnchanged
<1>3. LoginsAreCurrent'
  BY DEF SessionInv, LoginsAreCurrent, OthersUnchanged, At, CredentialStillValid,
         Active, Holding
<1>4. UpdatesAreOrdered'
  BY DEF SessionInv, UpdatesAreOrdered, OthersUnchanged, At, ChangedSinceSnapshot,
         Updating
<1>5. SnapshotsSeeLiveSessions'
  BY DEF SessionInv, SnapshotsSeeLiveSessions, OthersUnchanged, NothingRevives, Live,
         SessionExists, ChangedSinceSnapshot, RevocableIn, Updating
<1> QED BY <1>1, <1>2, <1>3, <1>4, <1>5 DEF SessionInv

\* A step that takes the free row lock of a user.
LEMMA LockStep ==
    ASSUME SessionInv, TypeOK', UNCHANGED <<users, sessions>>,
           NEW r \in Request, NEW row, Become(r, row),
           row.pc \in Holding, RowFree(row.user),
           row.pc = "createSession" =>
               Active(row.user) /\ users[row.user].password = row.password,
           row.pc = "commitUpdate" =>
               /\ At(r, "updateUser")
               /\ row = [request[r] EXCEPT !.pc = "commitUpdate"]
               /\ ~ChangedSinceSnapshot(r)
    PROVE  SessionInv'
<1>1. /\ request'[r] = row
      /\ \A p \in Request \ {r} : request'[p] = request[p]
  BY BecomeOne DEF SessionInv
<1>2. LiveSessionsAreCurrent'
  BY DEF SessionInv, LiveSessionsAreCurrent, SessionExists, Active
<1>3. LocksAreExclusive'
  BY <1>1 DEF SessionInv, LocksAreExclusive, RowFree
<1>4. LoginsAreCurrent'
  BY <1>1 DEF SessionInv, LoginsAreCurrent, At, CredentialStillValid, Active
<1>5. ASSUME row.pc = "commitUpdate"
      PROVE  /\ request[r] \in UpdateRow
             /\ row.user = request[r].user
             /\ row.version = request[r].version
             /\ row.snapshot = request[r].snapshot
  <2>1. request[r] \in UpdateRow
    BY <1>5, RequestFields DEF At, SessionInv, TypeOK
  <2> QED BY <1>5, <2>1 DEF UpdateRow
<1>6. row.pc \in Updating => row.pc = "commitUpdate"
  BY DEF Holding, Updating
<1>7. UpdatesAreOrdered'
  BY <1>1, <1>5, <1>6 DEF SessionInv, UpdatesAreOrdered, At, ChangedSinceSnapshot,
                          Updating
<1>8. SnapshotsSeeLiveSessions'
  BY <1>1, <1>5, <1>6 DEF SessionInv, SnapshotsSeeLiveSessions, At, SessionExists,
                          ChangedSinceSnapshot, RevocableIn, Updating
<1> QED BY <1>2, <1>3, <1>4, <1>7, <1>8 DEF SessionInv

\* A step that writes the row of u while nobody relies on it any more: it may
\* open or keep sessions of u that are current, and revives no other one.
LEMMA WriteStep ==
    ASSUME SessionInv, TypeOK', OthersUnchanged,
           NEW u \in User, NEW row \in UserRow,
           users' = [users EXCEPT ![u] = row],
           users[u].status # "absent" => row.status # "absent",
           row.version = users[u].version + 1,
           \A p \in Request :
               request'[p].pc \in {"createSession", "commitUpdate"}
                   => request'[p].user # u,
           \A s \in Session :
               Live(s)' => \/ /\ sessions'[s].user = u
                              /\ row.status = "active"
                              /\ sessions'[s].password = row.password
                           \/ /\ sessions'[s].user # u
                              /\ Live(s)
                              /\ sessions'[s].user = sessions[s].user
                              /\ sessions'[s].password = sessions[s].password
    PROVE  SessionInv'
<1>1. /\ users'[u] = row
      /\ \A v \in User \ {u} : users'[v] = users[v]
      /\ users[u].version \in Nat
  BY DEF SessionInv, TypeOK, UserRow
<1>2. LiveSessionsAreCurrent'
  <2> SUFFICES ASSUME NEW s \in Session, Live(s)'
               PROVE  /\ Active(sessions[s].user)'
                      /\ sessions'[s].password = users'[sessions'[s].user].password
    BY DEF LiveSessionsAreCurrent, Live
  <2>1. sessions'[s].user \in User
    BY DEF TypeOK, SessionRow, Live, SessionExists
  <2> QED BY <1>1, <2>1 DEF SessionInv, LiveSessionsAreCurrent, Live, Active
<1>3. LocksAreExclusive'
  BY DEF SessionInv, LocksAreExclusive, OthersUnchanged
<1>4. LoginsAreCurrent'
  <2> SUFFICES ASSUME NEW p \in Request, At(p, "createSession")'
               PROVE  CredentialStillValid(p)'
    BY DEF LoginsAreCurrent
  <2>1. request'[p] = request[p] /\ request[p].user # u
    BY DEF OthersUnchanged, At, Holding
  <2>2. request[p].user \in User
    BY <2>1, RequestFields DEF At, SessionInv, TypeOK, LoginRow
  <2> QED BY <1>1, <2>1, <2>2 DEF SessionInv, LoginsAreCurrent, At,
                                   CredentialStillValid, Active
<1>5. ASSUME NEW p \in Request, request'[p].pc \in Updating
      PROVE  /\ request'[p] = request[p]
             /\ request[p] \in UpdateRow
  <2>1. request'[p] = request[p]
    BY <1>5 DEF OthersUnchanged
  <2> QED BY <1>5, <2>1, RequestFields DEF SessionInv, TypeOK, Updating
<1>6. UpdatesAreOrdered'
  <2> SUFFICES ASSUME NEW p \in Request, request'[p].pc \in Updating
               PROVE  /\ users'[request'[p].user].status # "absent"
                      /\ request'[p].version <= users'[request'[p].user].version
                      /\ At(p, "commitUpdate")' => ~ChangedSinceSnapshot(p)'
    BY DEF UpdatesAreOrdered
  <2>1. CASE request[p].user = u
    BY <1>1, <1>5, <2>1 DEF SessionInv, UpdatesAreOrdered, UpdateRow, At
  <2>2. CASE request[p].user # u
    BY <1>1, <1>5, <2>2 DEF SessionInv, UpdatesAreOrdered, UpdateRow, At,
                            ChangedSinceSnapshot
  <2> QED BY <2>1, <2>2
<1>7. SnapshotsSeeLiveSessions'
  <2> SUFFICES ASSUME NEW p \in Request, request'[p].pc \in Updating,
                      ~ChangedSinceSnapshot(p)',
                      NEW s \in Session, Live(s)', sessions'[s].user = request'[p].user
               PROVE  s \in RevocableIn(p)'
    BY DEF SnapshotsSeeLiveSessions, Live, Updating
  <2>1. request[p].user # u
    BY <1>1, <1>5 DEF SessionInv, UpdatesAreOrdered, UpdateRow, ChangedSinceSnapshot
  <2>2. ~ChangedSinceSnapshot(p)
    BY <1>1, <1>5, <2>1 DEF ChangedSinceSnapshot, UpdateRow
  <2>3. Live(s) /\ sessions[s].user = request[p].user
    BY <1>5, <2>1
  <2>4. s \in RevocableIn(p)
    BY <1>5, <2>2, <2>3 DEF SessionInv, SnapshotsSeeLiveSessions, Live, Updating
  <2> QED BY <1>5, <2>4 DEF RevocableIn
<1> QED BY <1>2, <1>3, <1>4, <1>6, <1>7 DEF SessionInv

----------------------------------------------------------------------------
(* Every step is one of these. *)

\* Sign-in.
LEMMA SignInKeeps ==
    ASSUME SessionInv, NEW r \in Request, SignIn(r)
    PROVE  SessionInv'
<1> USE DEF storeVars
<1>1. TypeOK /\ TypeOK'
  BY SignInType DEF SessionInv
<1>2. ASSUME NEW u \in User, FindCredentials(r, u) PROVE SessionInv'
  <2>1. OthersUnchanged
    BY <1>1, <1>2, BecomeOne DEF FindCredentials, LoginState, OthersUnchanged,
                                 Holding, Updating
  <2> QED BY <1>1, <1>2, <2>1, QuietStep DEF FindCredentials, NothingRevives, Live,
                                             SessionExists
<1>3. CASE RecordLogin(r)
  <2>1. CASE Finish(r, "refused")
    <3>1. OthersUnchanged
      BY <1>1, <2>1, FinishQuiet DEF Free
    <3> QED BY <1>1, <1>3, <3>1, QuietStep DEF RecordLogin, NothingRevives, Live,
                                               SessionExists
  <2>2. ASSUME NEW issuedAt, CredentialStillValid(r),
               Become(r, LoginState("createSession", request[r].user,
                                    request[r].password, issuedAt))
        PROVE  SessionInv'
    <3> DEFINE row == LoginState("createSession", request[r].user,
                                 request[r].password, issuedAt)
    <3>1. /\ row.pc = "createSession"
          /\ row.user = request[r].user
          /\ row.password = request[r].password
      BY DEF LoginState
    <3>2. RowFree(row.user) /\ UNCHANGED <<users, sessions>>
      BY <1>3, <3>1 DEF RecordLogin, CanLock
    <3> HIDE DEF row
    <3> QED BY <1>1, <2>2, <3>1, <3>2, LockStep DEF CredentialStillValid, Holding, row
  <2> QED BY <1>3, <2>1, <2>2 DEF RecordLogin
<1>4. CASE CreateSession(r)
  <2> DEFINE u == request[r].user
             row == Rewritten(u, users[u].status, FALSE)
  <2>1. request[r] \in LoginRow
    BY <1>1, <1>4, RequestFields DEF CreateSession, At, TypeOK
  <2>2. /\ u \in User
        /\ row \in UserRow
        /\ row.status = users[u].status
        /\ row.password = users[u].password
        /\ row.version = users[u].version + 1
    BY <1>1, <2>1, RewrittenType DEF LoginRow, TypeOK, UserRow, Rewritten
  <2>3. users[u].status = "active" /\ users[u].password = request[r].password
    BY <1>4 DEF CreateSession, SessionInv, LoginsAreCurrent, CredentialStillValid, Active
  <2>4. OthersUnchanged
    BY <1>1, <1>4, FinishQuiet DEF CreateSession, Free
  <2>5. \A p \in Request : request'[p].pc \in {"createSession", "commitUpdate"}
                               => request'[p].user # u
    BY <1>1, <1>4, <2>4, BecomeOne DEF CreateSession, Finish, Ended, At, OthersUnchanged,
                                  Holding, SessionInv, LocksAreExclusive
  <2>6. \A s \in Session :
          Live(s)' => \/ /\ sessions'[s].user = u
                         /\ sessions'[s].password = request[r].password
                      \/ sessions'[s] = sessions[s] /\ Live(s)
    BY <1>1, <1>4 DEF CreateSession, NewSession, Live, SessionExists, TypeOK
  <2>7. \A s \in Session :
          Live(s) /\ sessions[s].user = u => sessions[s].password = users[u].password
    BY DEF SessionInv, LiveSessionsAreCurrent, Live
  <2>8. users' = [users EXCEPT ![u] = row]
    BY <1>4 DEF CreateSession
  <2> HIDE DEF u, row
  <2>9. row.status # "absent" /\ row.status = "active"
    BY <2>2, <2>3
  <2>10. \A s \in Session :
           Live(s)' => \/ /\ sessions'[s].user = u
                          /\ row.status = "active"
                          /\ sessions'[s].password = row.password
                       \/ /\ sessions'[s].user # u
                          /\ Live(s)
                          /\ sessions'[s].user = sessions[s].user
                          /\ sessions'[s].password = sessions[s].password
    BY <2>2, <2>3, <2>6, <2>7, <2>9
  <2> QED BY <1>1, <2>2, <2>4, <2>5, <2>8, <2>9, <2>10, WriteStep
<1> QED BY <1>2, <1>3, <1>4 DEF SignIn

\* Nothing relies on a user row that is absent.
LEMMA AbsentUnused ==
    ASSUME SessionInv, NEW u \in User, users[u].status = "absent"
    PROVE  /\ \A p \in Request : request[p].pc \in {"createSession", "commitUpdate"}
                                   => request[p].user # u
           /\ \A s \in Session : Live(s) => sessions[s].user # u
BY DEF SessionInv, LoginsAreCurrent, UpdatesAreOrdered, LiveSessionsAreCurrent,
       CredentialStillValid, Active, Live, At, Updating

\* The row of an absent user is written for the first time.
LEMMA AbsentWritten ==
    ASSUME SessionInv, TypeOK', NEW u \in User, users[u].status = "absent",
           NEW setsPassword \in BOOLEAN,
           users' = [users EXCEPT ![u] = Rewritten(u, "active", setsPassword)],
           UNCHANGED sessions, OthersUnchanged
    PROVE  SessionInv'
<1> DEFINE row == Rewritten(u, "active", setsPassword)
<1>1. row \in UserRow /\ row.status = "active" /\ row.version = users[u].version + 1
  <2>1. users[u] \in UserRow
    BY DEF SessionInv, TypeOK
  <2>2. Rewritten(u, "active", setsPassword) \in UserRow
    BY <2>1, RewrittenType
  <2> QED BY <2>2 DEF Rewritten
<1>2. \A p \in Request : request'[p].pc \in {"createSession", "commitUpdate"}
                             => request'[p].user # u
  BY AbsentUnused DEF OthersUnchanged, Holding
<1>3. \A s \in Session : Live(s)' => /\ sessions'[s].user # u
                                     /\ Live(s)
                                     /\ sessions'[s].user = sessions[s].user
                                     /\ sessions'[s].password = sessions[s].password
  BY AbsentUnused DEF Live, SessionExists
<1>4. users' = [users EXCEPT ![u] = row]
  OBVIOUS
<1> HIDE DEF row
<1>5. /\ row \in UserRow
      /\ users[u].status # "absent" => row.status # "absent"
      /\ row.version = users[u].version + 1
  BY <1>1
<1>6. \A s \in Session :
        Live(s)' => \/ /\ sessions'[s].user = u
                       /\ row.status = "active"
                       /\ sessions'[s].password = row.password
                    \/ /\ sessions'[s].user # u
                       /\ Live(s)
                       /\ sessions'[s].user = sessions[s].user
                       /\ sessions'[s].password = sessions[s].password
  BY <1>3
<1>7. SessionInv /\ TypeOK' /\ OthersUnchanged
  OBVIOUS
<1> QED BY <1>2, <1>4, <1>5, <1>6, <1>7, WriteStep, ZenonT(60)

\* Sessions that stay as they are do not come to life.
LEMMA SameSessions ==
    ASSUME UNCHANGED sessions
    PROVE  NothingRevives
BY DEF NothingRevives, Live, SessionExists

\* Revoking sessions brings none to life.
LEMMA RevokedStayDead ==
    ASSUME TypeOK,
           \/ \E u \in User : sessions' = AllRevoked(u)
           \/ \E s \in Session : sessions' = SessionRevoked(s)
    PROVE  NothingRevives
BY DEF TypeOK, AllRevoked, SessionRevoked, NothingRevives, Live, SessionExists, SessionRow

\* Refresh.
LEMMA RefreshKeeps ==
    ASSUME SessionInv, NEW r \in Request, Refresh(r)
    PROVE  SessionInv'
<1> USE DEF storeVars
<1>1. TypeOK /\ TypeOK'
  BY RefreshType DEF SessionInv
<1>0. ASSUME NEW pc \in {"findActiveUser", "rotateSession", "revokeSession"},
             NEW t, NEW s, NEW clock, Become(r, RefreshState(pc, t, s, clock))
      PROVE  OthersUnchanged
  <2>1. RefreshState(pc, t, s, clock).pc \notin Holding \cup Updating
    BY DEF RefreshState, Holding, Updating
  <2> HIDE DEF RefreshState
  <2> QED BY <1>0, <1>1, <2>1, BecomeQuiet
<1>2. ASSUME NEW t \in Token, FindValidSession(r, t) PROVE SessionInv'
  <2> DEFINE row == [pc |-> "findConsumed", token |-> t]
  <2>1. row.pc \notin Holding \cup Updating
    BY DEF Holding, Updating
  <2>2. Become(r, row) \/ \E s \in Session :
          Become(r, RefreshState("findActiveUser", t, s, 0))
    BY <1>2 DEF FindValidSession
  <2> HIDE DEF row
  <2>3. OthersUnchanged
    BY <1>0, <1>1, <2>1, <2>2, BecomeQuiet
  <2> QED BY <1>1, <1>2, <2>3, SameSessions, QuietStep DEF FindValidSession
<1>3. CASE FindConsumed(r)
  <2>1. request[r].token \in Token
    BY <1>1, <1>3, RequestFields DEF FindConsumed, At, TypeOK, ReplayRow
  <2>2. OthersUnchanged
    BY <1>0, <1>1, <1>3, <2>1, FinishQuiet DEF FindConsumed, Refuse, Free
  <2> QED BY <1>1, <1>3, <2>2, SameSessions, QuietStep DEF FindConsumed
<1>4. ASSUME At(r, "findActiveUser") \/ At(r, "rotateSession")
               \/ At(r, "revokeSession")
      PROVE  request[r] \in RefreshRow
  BY <1>1, <1>4, RequestFields DEF At, TypeOK
<1>5. CASE FindActiveUser(r)
  <2>1. request[r] \in RefreshRow
    BY <1>4, <1>5 DEF FindActiveUser
  <2>2. [request[r] EXCEPT !.pc = "revokeSession"].pc \notin Holding \cup Updating
    BY <2>1 DEF RefreshRow, Holding, Updating
  <2>3. OthersUnchanged
    BY <1>0, <1>1, <1>5, <2>2, BecomeQuiet DEF FindActiveUser, Goto
  <2> QED BY <1>1, <1>5, <2>3, SameSessions, QuietStep DEF FindActiveUser
<1>6. CASE RotateSession(r)
  <2>1. request[r] \in RefreshRow
    BY <1>4, <1>6 DEF RotateSession
  <2>2. OthersUnchanged
    <3>1. CASE Finish(r, "granted")
      BY <1>1, <3>1, FinishQuiet DEF Free
    <3>2. CASE Goto(r, "revokeSession")
      BY <1>1, <2>1, <3>2, BecomeQuiet DEF Goto, RefreshRow, Holding, Updating
    <3> QED BY <1>6, <3>1, <3>2 DEF RotateSession
  <2>3. NothingRevives
    <3>1. CASE UNCHANGED sessions
      BY <3>1, SameSessions
    <3>2. CASE RotationMatches(request[r].session, request[r].token)
      BY <1>1, <1>6, <2>1, <3>2 DEF RotateSession, RotationMatches, Usable, Rotated,
           TypeOK, RefreshRow, NothingRevives, Live, SessionExists
    <3> QED BY <1>6, <3>1, <3>2 DEF RotateSession
  <2> QED BY <1>1, <1>6, <2>2, <2>3, QuietStep DEF RotateSession
<1>7. CASE RevokeSession(r)
  <2>1. request[r] \in RefreshRow
    BY <1>4, <1>7 DEF RevokeSession
  <2>2. OthersUnchanged
    BY <1>1, <1>7, <2>1, FinishQuiet DEF RevokeSession, Refuse, RefreshRow, Free
  <2>3. NothingRevives
    BY <1>1, <1>7, <2>1, RevokedStayDead DEF RevokeSession, RefreshRow
  <2> QED BY <1>1, <1>7, <2>2, <2>3, QuietStep DEF RevokeSession
<1> QED BY <1>2, <1>3, <1>5, <1>6, <1>7 DEF Refresh

\* Authentication and logout.
LEMMA AuthenticationKeeps ==
    ASSUME SessionInv, NEW r \in Request, Authenticate(r)
    PROVE  SessionInv'
<1> USE DEF storeVars
<1>1. TypeOK /\ TypeOK'
  BY AuthenticationType DEF SessionInv
<1>2. ASSUME NEW s \in Session, PresentAccessToken(r, s) PROVE SessionInv'
  <2> DEFINE row == [pc |-> "isSessionActive", session |-> s, inForce |-> InForce(s)]
  <2>1. row.pc \notin Holding \cup Updating
    BY DEF Holding, Updating
  <2>2. Become(r, row)
    BY <1>2 DEF PresentAccessToken
  <2> HIDE DEF row
  <2>3. OthersUnchanged
    BY <1>1, <2>1, <2>2, BecomeQuiet
  <2> QED BY <1>1, <1>2, <2>3, SameSessions, QuietStep DEF PresentAccessToken
<1>3. ASSUME NEW from \in Authenticating, NEW found, NEW to \in Authenticating,
             Lookup(r, from, found, to)
      PROVE  SessionInv'
  <2>1. request[r] \in BearerRow
    BY <1>1, <1>3, RequestFields DEF Lookup, At, TypeOK
  <2>2. [request[r] EXCEPT !.pc = to].pc \notin Holding \cup Updating
    BY <2>1 DEF BearerRow, Authenticating, Holding, Updating
  <2>3. OthersUnchanged
    BY <1>1, <1>3, <2>2, BecomeQuiet, FinishQuiet DEF Lookup, Goto, Free
  <2> QED BY <1>1, <1>3, <2>3, SameSessions, QuietStep DEF Lookup
<1>4. CASE IsSessionActive(r) \/ FindUser(r) \/ FindActor(r)
  BY <1>3, <1>4 DEF IsSessionActive, FindUser, FindActor, Authenticating
<1>5. CASE Answer(r)
  <2>1. OthersUnchanged
    BY <1>1, <1>5, FinishQuiet DEF Answer, Free
  <2> QED BY <1>1, <1>5, <2>1, SameSessions, QuietStep DEF Answer
<1>6. CASE Logout(r)
  <2>1. request[r].session \in Session
    BY <1>1, <1>6, RequestFields DEF Logout, At, TypeOK, BearerRow, Authenticating
  <2>2. OthersUnchanged /\ NothingRevives
    BY <1>1, <1>6, <2>1, FinishQuiet, RevokedStayDead DEF Logout, Free
  <2> QED BY <1>1, <1>6, <2>2, QuietStep DEF Logout
<1> QED BY <1>2, <1>4, <1>5, <1>6 DEF Authenticate

\* Revocation of all sessions of a user.
LEMMA RevocationKeeps ==
    ASSUME SessionInv, NEW r \in Request, RevokeAll(r)
    PROVE  SessionInv'
<1> USE DEF storeVars
<1>1. TypeOK /\ TypeOK'
  BY RevocationType DEF SessionInv
<1>2. ASSUME NEW u \in User, LockForRevoke(r, u) PROVE SessionInv'
  <2> DEFINE row == [pc |-> "revokeForUser", user |-> u]
  <2>1. row.pc = "revokeForUser" /\ row.user = u
    OBVIOUS
  <2>2. Become(r, row) /\ UNCHANGED <<users, sessions>> /\ RowFree(u)
    BY <1>2 DEF LockForRevoke
  <2> HIDE DEF row
  <2> QED BY <1>1, <2>1, <2>2, LockStep DEF Holding
<1>3. CASE RevokeForUser(r)
  <2>1. request[r].user \in User
    BY <1>1, <1>3, RequestFields DEF RevokeForUser, At, TypeOK, RevokeRow
  <2>2. OthersUnchanged /\ NothingRevives
    BY <1>1, <1>3, <2>1, FinishQuiet, RevokedStayDead DEF RevokeForUser, Free
  <2> QED BY <1>1, <1>3, <2>2, QuietStep DEF RevokeForUser
<1> QED BY <1>2, <1>3 DEF RevokeAll

\* Recovery: the lookups and the tokens issued.
LEMMA IssuingKeeps ==
    ASSUME SessionInv, NEW r \in Request,
           \/ \E u \in User : \/ FindActiveCredentials(r, u)
                             \/ ProvisionContactUser(r, u) \/ RepeatGrant(r, u)
           \/ InitiateSetup(r) \/ LockForReplace(r) \/ CreateResetToken(r)
           \/ EnqueueMail(r) \/ RetireUndelivered(r)
    PROVE  SessionInv'
<1> USE DEF storeVars
<1>1. TypeOK /\ TypeOK'
  BY IssuingType DEF SessionInv
<1>2. ASSUME UNCHANGED <<users, sessions>>, OthersUnchanged PROVE SessionInv'
  BY <1>1, <1>2, SameSessions, QuietStep
<1>3. ASSUME NEW pc \in {"initiateSetup", "lockForReplace"}, NEW u \in User, NEW clock,
             Become(r, RecoveryState(pc, u, clock))
      PROVE  OthersUnchanged
  <2>1. RecoveryState(pc, u, clock).pc \notin Holding \cup Updating
    BY DEF RecoveryState, Holding, Updating
  <2> HIDE DEF RecoveryState
  <2> QED BY <1>1, <1>3, <2>1, BecomeQuiet
<1>4. ASSUME NEW u \in User, FindActiveCredentials(r, u) PROVE SessionInv'
  BY <1>2, <1>3, <1>4 DEF FindActiveCredentials
<1>5. ASSUME NEW u \in User, ProvisionContactUser(r, u) PROVE SessionInv'
  BY <1>1, <1>3, <1>5, AbsentWritten DEF ProvisionContactUser
<1>13. ASSUME NEW u \in User, RepeatGrant(r, u) PROVE SessionInv'
  BY <1>2, <1>3, <1>13 DEF RepeatGrant
<1>6. ASSUME At(r, "initiateSetup") \/ At(r, "lockForReplace")
      PROVE  request[r] \in RecoveryRow
  BY <1>1, <1>6, RequestFields DEF At, TypeOK
<1>7. CASE InitiateSetup(r)
  <2>1. request[r].user \in User
    BY <1>6, <1>7 DEF InitiateSetup, RecoveryRow
  <2>2. OthersUnchanged
    BY <1>1, <1>3, <1>7, <2>1, FinishQuiet DEF InitiateSetup, Free
  <2> QED BY <1>2, <1>7, <2>2 DEF InitiateSetup
<1>8. CASE LockForReplace(r)
  <2>1. PICK row : /\ Become(r, row)
                   /\ row.pc = "createResetToken"
                   /\ row.user = request[r].user
    BY <1>8 DEF LockForReplace, IssueState
  <2>2. RowFree(row.user) /\ UNCHANGED <<users, sessions>>
    BY <1>8, <2>1 DEF LockForReplace
  <2> QED BY <1>1, <2>1, <2>2, LockStep DEF Holding
<1>9. ASSUME NEW pc \in {"enqueueMail", "retireUndelivered"}, Goto(r, pc),
             At(r, "createResetToken") \/ At(r, "enqueueMail")
      PROVE  OthersUnchanged
  <2>1. request[r] \in IssueRow
    BY <1>1, <1>9, RequestFields DEF At, TypeOK, Issuing
  <2>2. [request[r] EXCEPT !.pc = pc].pc = pc
    BY <2>1 DEF IssueRow
  <2> QED BY <1>1, <1>9, <2>2, BecomeQuiet DEF Goto, Holding, Updating
<1>10. CASE CreateResetToken(r)
  BY <1>2, <1>9, <1>10 DEF CreateResetToken
<1>11. CASE EnqueueMail(r)
  BY <1>1, <1>2, <1>9, <1>11, FinishQuiet DEF EnqueueMail, Free
<1>12. CASE RetireUndelivered(r)
  BY <1>1, <1>2, <1>12, FinishQuiet DEF RetireUndelivered, Free
<1> QED BY <1>4, <1>5, <1>7, <1>8, <1>10, <1>11, <1>12, <1>13

\* User administration.
LEMMA AdministrationKeeps ==
    ASSUME SessionInv,
           \/ \E u \in User : CreateUser(u) \/ DeleteUser(u)
           \/ \E r \in Request : Administration(r)
    PROVE  SessionInv'
<1> USE DEF storeVars
<1>1. TypeOK /\ TypeOK'
  BY AdministrationType DEF SessionInv
<1>2. ASSUME NEW u \in User, CreateUser(u) PROVE SessionInv'
  <2>1. OthersUnchanged
    BY <1>2 DEF CreateUser, OthersUnchanged
  <2> QED BY <1>1, <1>2, <2>1, AbsentWritten DEF CreateUser
<1>3. ASSUME NEW u \in User, DeleteUser(u) PROVE SessionInv'
  <2> DEFINE row == Rewritten(u, "deleted", FALSE)
  <2>1. row \in UserRow /\ row.status # "absent" /\ row.version = users[u].version + 1
    <3>1. users[u] \in UserRow
      BY <1>1 DEF TypeOK
    <3>2. row \in UserRow
      BY <3>1, RewrittenType
    <3> QED BY <3>2 DEF Rewritten
  <2>2. OthersUnchanged /\ users' = [users EXCEPT ![u] = row]
    BY <1>3 DEF DeleteUser, OthersUnchanged
  <2>3. \A p \in Request : request'[p].pc \in {"createSession", "commitUpdate"}
                               => request'[p].user # u
    BY <1>3 DEF DeleteUser, CanLock, RowFree, Holding
  <2>4. \A s \in Session : Live(s)' => /\ sessions'[s].user # u
                                       /\ Live(s)
                                       /\ sessions'[s].user = sessions[s].user
                                       /\ sessions'[s].password = sessions[s].password
    BY <1>3 DEF DeleteUser, Live, SessionExists
  <2> HIDE DEF row
  <2> QED BY <1>1, <2>1, <2>2, <2>3, <2>4, WriteStep
<1>4. ASSUME NEW r \in Request, NEW u \in User, NEW c \in SUBSET Change,
             BeginUpdate(r, u, c)
      PROVE  SessionInv'
  <2> DEFINE row == [pc |-> "updateUser", user |-> u, change |-> c,
                     version |-> users[u].version, snapshot |-> sessions]
  <2>1. /\ Become(r, row)
        /\ UNCHANGED <<users, sessions>>
        /\ Exists(u)
    BY <1>4 DEF BeginUpdate
  <2>2. /\ row.pc = "updateUser"
        /\ row.user = u
        /\ row.version = users[u].version
        /\ row.snapshot = sessions
    OBVIOUS
  <2> HIDE DEF row
  <2>3. /\ request'[r] = row
        /\ \A p \in Request \ {r} : request'[p] = request[p]
    BY <1>1, <2>1, BecomeOne
  <2>4. LiveSessionsAreCurrent'
    BY <2>1 DEF SessionInv, LiveSessionsAreCurrent, SessionExists, Active
  <2>5. LocksAreExclusive'
    BY <2>2, <2>3 DEF SessionInv, LocksAreExclusive, Holding
  <2>6. LoginsAreCurrent'
    BY <2>1, <2>2, <2>3 DEF SessionInv, LoginsAreCurrent, At, CredentialStillValid, Active
  <2>7. users[u].version <= users[u].version
    BY <1>1 DEF TypeOK, UserRow
  <2>8. UpdatesAreOrdered'
    BY <2>1, <2>2, <2>3, <2>7 DEF SessionInv, UpdatesAreOrdered, At, Updating,
                                  ChangedSinceSnapshot, Exists
  <2>9. SnapshotsSeeLiveSessions'
    BY <2>1, <2>2, <2>3 DEF SessionInv, SnapshotsSeeLiveSessions, SessionExists,
                            ChangedSinceSnapshot, RevocableIn
  <2> QED BY <1>1, <2>4, <2>5, <2>6, <2>8, <2>9 DEF SessionInv
<1>5. ASSUME NEW r \in Request, LockForUpdate(r) PROVE SessionInv'
  <2>1. CASE ChangedSinceSnapshot(r)
    <3>1. OthersUnchanged
      BY <1>1, <1>5, <2>1, FinishQuiet DEF LockForUpdate, Free
    <3> QED BY <1>1, <1>5, <3>1, SameSessions, QuietStep DEF LockForUpdate
  <2>2. CASE ~ChangedSinceSnapshot(r)
    <3> DEFINE row == [request[r] EXCEPT !.pc = "commitUpdate"]
    <3>1. request[r] \in UpdateRow
      BY <1>1, <1>5, RequestFields DEF LockForUpdate, At, TypeOK
    <3>2. row.pc = "commitUpdate" /\ row.user = request[r].user
      BY <3>1 DEF UpdateRow
    <3>3. /\ Become(r, row)
          /\ UNCHANGED <<users, sessions>>
          /\ RowFree(row.user)
          /\ At(r, "updateUser")
          /\ row = [request[r] EXCEPT !.pc = "commitUpdate"]
      BY <1>5, <2>2, <3>2 DEF LockForUpdate, CanLock, Goto
    <3> HIDE DEF row
    <3> QED BY <1>1, <2>2, <3>2, <3>3, LockStep DEF Holding
  <2> QED BY <2>1, <2>2
<1>6. ASSUME NEW r \in Request, CommitUpdate(r) PROVE SessionInv'
  <2> DEFINE u == request[r].user
             c == request[r].change
             revoked == IF RevokesSessions(c) THEN RevocableIn(r) ELSE {}
             row == Rewritten(u, StatusAfter(u, c), "password" \in c)
  <2>1. request[r] \in UpdateRow
    BY <1>1, <1>6, RequestFields DEF CommitUpdate, At, TypeOK
  <2>2. OthersUnchanged
    BY <1>1, <1>6, FinishQuiet DEF CommitUpdate, Free
  <2>3. CASE UNCHANGED <<users, sessions>>
    BY <1>1, <2>2, <2>3, SameSessions, QuietStep
  <2>4. CASE /\ users' = [users EXCEPT ![u] = row]
             /\ sessions' = [s \in Session |->
                               IF s \in revoked
                               THEN [sessions[s] EXCEPT !.revoked = TRUE]
                               ELSE sessions[s]]
             /\ \A s \in revoked : sessions[s] = request[r].snapshot[s]
    <3>1. /\ u \in User
          /\ users[u] \in UserRow
          /\ users[u].status # "absent"
      BY <1>1, <1>6, <2>1 DEF UpdateRow, TypeOK, SessionInv, UpdatesAreOrdered,
                              CommitUpdate, At, Updating
    <3>2. StatusAfter(u, c) \in {"active", "inactive", "deleted"}
      BY <3>1 DEF StatusAfter, UserRow
    <3>3. /\ row \in UserRow
          /\ row.status # "absent"
          /\ row.status = StatusAfter(u, c)
          /\ row.version = users[u].version + 1
          /\ "password" \notin c => row.password = users[u].password
      BY <3>1, <3>2, RewrittenType DEF Rewritten
    <3>4. \A p \in Request : request'[p].pc \in {"createSession", "commitUpdate"}
                                 => request'[p].user # u
      BY <1>1, <1>6, <2>2, BecomeOne DEF CommitUpdate, Finish, Ended, At,
           OthersUnchanged, Holding, SessionInv, LocksAreExclusive
    <3>5. \A s \in Session : Live(s) /\ sessions[s].user = u => s \in RevocableIn(r)
      BY <1>6 DEF CommitUpdate, SessionInv, SnapshotsSeeLiveSessions, At, Live,
                  UpdatesAreOrdered, Updating
    <3>6. \A s \in Session :
            Live(s)' => /\ Live(s)
                        /\ s \notin revoked
                        /\ sessions'[s] = sessions[s]
      <4>1. \A s \in revoked : sessions[s] \in SessionRow
        BY <1>1, <2>4 DEF RevocableIn, TypeOK
      <4> HIDE DEF revoked
      <4> QED BY <2>4, <4>1 DEF Live, SessionExists, SessionRow
    <3>7. \A s \in Session : Live(s) /\ sessions[s].user = u
                              => /\ users[u].status = "active"
                                 /\ sessions[s].password = users[u].password
      BY DEF SessionInv, LiveSessionsAreCurrent, Live, Active
    <3>8. \A s \in Session :
            Live(s)' /\ sessions[s].user = u => c \cap {"deactivate", "password"} = {}
      BY <3>5, <3>6 DEF RevokesSessions
    <3>9. c \cap {"deactivate", "password"} = {} /\ users[u].status = "active"
            => StatusAfter(u, c) = "active" /\ "password" \notin c
      BY DEF StatusAfter
    <3>10. users' = [users EXCEPT ![u] = row]
      BY <2>4
    <3> HIDE DEF u, c, revoked, row
    <3>11. \A s \in Session :
             Live(s)' => \/ /\ sessions'[s].user = u
                            /\ row.status = "active"
                            /\ sessions'[s].password = row.password
                         \/ /\ sessions'[s].user # u
                            /\ Live(s)
                            /\ sessions'[s].user = sessions[s].user
                            /\ sessions'[s].password = sessions[s].password
      BY <3>3, <3>6, <3>7, <3>8, <3>9
    <3> QED BY <1>1, <2>2, <3>1, <3>3, <3>4, <3>10, <3>11, WriteStep
  <2> QED BY <1>6, <2>3, <2>4 DEF CommitUpdate
<1> QED BY <1>2, <1>3, <1>4, <1>5, <1>6 DEF Administration

\* Recovery: the use of a token.
LEMMA ResetKeeps ==
    ASSUME SessionInv, NEW r \in Request,
           \/ \E k \in ResetToken : FindCandidate(r, k)
           \/ LockForReset(r) \/ ConsumeResetToken(r)
    PROVE  SessionInv'
<1> USE DEF storeVars
<1>1. TypeOK /\ TypeOK'
  BY ResetType DEF SessionInv
<1>2. ASSUME NEW k \in ResetToken, FindCandidate(r, k) PROVE SessionInv'
  <2> DEFINE row == [pc |-> "lockForReset", user |-> resetTokens[k].user, key |-> k]
  <2>1. row.pc \notin Holding \cup Updating
    BY DEF Holding, Updating
  <2>2. Become(r, row)
    BY <1>2 DEF FindCandidate
  <2> HIDE DEF row
  <2>3. OthersUnchanged
    BY <1>1, <2>1, <2>2, BecomeQuiet
  <2> QED BY <1>1, <1>2, <2>3, SameSessions, QuietStep DEF FindCandidate
<1>3. CASE LockForReset(r)
  <2>1. CASE Finish(r, "refused")
    <3>1. OthersUnchanged
      BY <1>1, <2>1, FinishQuiet DEF Free
    <3> QED BY <1>1, <1>3, <3>1, SameSessions, QuietStep DEF LockForReset
  <2>2. CASE Goto(r, "consumeResetToken")
    <3> DEFINE row == [request[r] EXCEPT !.pc = "consumeResetToken"]
    <3>1. request[r] \in ResetRequestRow
      BY <1>1, <1>3, RequestFields DEF LockForReset, At, TypeOK
    <3>2. row.pc = "consumeResetToken" /\ row.user = request[r].user
      BY <3>1 DEF ResetRequestRow
    <3>3. Become(r, row) /\ UNCHANGED <<users, sessions>> /\ RowFree(row.user)
      BY <1>3, <2>2, <3>2 DEF LockForReset, CanLock, Goto
    <3> HIDE DEF row
    <3> QED BY <1>1, <3>2, <3>3, LockStep DEF Holding
  <2> QED BY <1>3, <2>1, <2>2 DEF LockForReset
<1>4. CASE ConsumeResetToken(r)
  <2> DEFINE u == request[r].user
             row == Rewritten(u, users[u].status, TRUE)
  <2>1. OthersUnchanged
    BY <1>1, <1>4, FinishQuiet DEF ConsumeResetToken, Free
  <2>2. CASE UNCHANGED <<users, sessions>>
    BY <1>1, <2>1, <2>2, SameSessions, QuietStep
  <2>3. CASE users' = [users EXCEPT ![u] = row] /\ sessions' = AllRevoked(u)
    <3>1. u \in User /\ users[u] \in UserRow
      BY <1>1, <1>4, RequestFields DEF ConsumeResetToken, At, TypeOK, ResetRequestRow
    <3>2. row \in UserRow /\ row.version = users[u].version + 1
      BY <3>1, RewrittenType DEF Rewritten, UserRow
    <3>3. row.status = users[u].status
      BY DEF Rewritten
    <3>4. \A p \in Request : request'[p].pc \in {"createSession", "commitUpdate"}
                                 => request'[p].user # u
      BY <1>1, <1>4, <2>1, BecomeOne DEF ConsumeResetToken, Finish, Ended, At,
           OthersUnchanged, Holding, SessionInv, LocksAreExclusive
    <3>5. \A s \in Session : Live(s)' => /\ sessions'[s].user # u
                                         /\ sessions'[s] = sessions[s]
                                         /\ Live(s)
      BY <1>1, <2>3 DEF AllRevoked, Live, SessionExists, SessionRow, TypeOK
    <3>6. users' = [users EXCEPT ![u] = row]
      BY <2>3
    <3> HIDE DEF u, row
    <3> QED BY <1>1, <2>1, <3>1, <3>2, <3>3, <3>4, <3>5, <3>6, WriteStep
  <2> QED BY <1>4, <2>2, <2>3 DEF ConsumeResetToken
<1> QED BY <1>2, <1>3, <1>4

----------------------------------------------------------------------------
(* The theorems *)

\* The invariant holds in the empty store.
LEMMA InitSession == Init => SessionInv
<1> SUFFICES ASSUME Init PROVE SessionInv
  OBVIOUS
<1>1. /\ TypeOK
      /\ \A s \in Session : ~SessionExists(s)
      /\ \A r \in Request : request[r].pc = "idle"
  BY InitType DEF Init, SessionExists, Ended
<1> QED
  BY <1>1 DEF SessionInv, LiveSessionsAreCurrent, LocksAreExclusive, LoginsAreCurrent,
     UpdatesAreOrdered, SnapshotsSeeLiveSessions, At, Holding, Updating

\* Every step keeps the invariant.
LEMMA NextSession == SessionInv /\ [Next]_vars => SessionInv'
<1> SUFFICES ASSUME SessionInv, [Next]_vars PROVE SessionInv'
  OBVIOUS
<1>1. TypeOK /\ TypeOK'
  BY NextType DEF SessionInv
<1>2. ASSUME UNCHANGED <<users, sessions, request>> PROVE SessionInv'
  BY <1>1, <1>2, SameSessions, QuietStep DEF OthersUnchanged
<1>3. CASE UNCHANGED vars
  BY <1>2, <1>3 DEF vars
<1>4. CASE Tick
  BY <1>2, <1>4 DEF Tick, storeVars
<1>5. ASSUME NEW r \in Request, RequestLost(r) PROVE SessionInv'
  <2>1. OthersUnchanged
    BY <1>1, <1>5, FinishQuiet DEF RequestLost, Free
  <2> QED BY <1>1, <1>5, <2>1, SameSessions, QuietStep DEF RequestLost, storeVars
<1> QED
  BY <1>3, <1>4, <1>5, SignInKeeps, RefreshKeeps, AuthenticationKeeps,
     RevocationKeeps, AdministrationKeeps, IssuingKeeps, ResetKeeps DEF Next, Recovery

\* The invariant holds throughout.
LEMMA SessionInvariant == Spec => []SessionInv
BY InitSession, NextSession, PTL DEF Spec

\* No session survives the password or the activity of its user: whatever the
\* interleaving, a session that is not revoked belongs to an active user and
\* was opened with the password that is stored.
THEOREM NoStaleSession == Spec => []LiveSessionsAreCurrent
<1>1. SessionInv => LiveSessionsAreCurrent
  BY DEF SessionInv
<1> QED BY <1>1, SessionInvariant, PTL

\* The snapshot of an update that can still commit has every live session of
\* its user in it.
THEOREM NoUnseenSession == Spec => []SnapshotsSeeLiveSessions
<1>1. SessionInv => SnapshotsSeeLiveSessions
  BY DEF SessionInv
<1> QED BY <1>1, SessionInvariant, PTL

----------------------------------------------------------------------------
(* The inductive invariant.  The lookup of the session is the one that     *)
(* matters: a session that is no longer usable never is again, and by      *)
(* LiveSessionsAreCurrent a usable one is in force.                        *)

\* What a request in the guards relies on.
BearersAreChecked ==
    \A r \in Request :
        /\ At(r, "isSessionActive") =>
             /\ SessionExists(request[r].session)
             /\ ~request[r].inForce => ~Usable(request[r].session)
        /\ request[r].pc \in Authenticating \ {"isSessionActive"} => request[r].inForce

BearerInv == SessionInv /\ BearersAreChecked

\* Sessions stay in the table, and none becomes usable again.
NoneReturns ==
    \A s \in Session :
        /\ SessionExists(s) => SessionExists(s)'
        /\ SessionExists(s) /\ ~Usable(s) => ~Usable(s)'

\* Every request goes on as it was, or is not in the guards.
BearersUnchanged ==
    \A p \in Request : \/ request'[p] = request[p]
                       \/ request'[p].pc \notin Authenticating

----------------------------------------------------------------------------
(* Where the handlers go: requests that are not in the guards do not enter *)
(* them.                                                                   *)

\* A request that goes to a step is at that step, whatever it holds.
LEMMA GotoPc ==
    ASSUME TypeOK, NEW r \in Request, NEW pc, Goto(r, pc)
    PROVE  request'[r].pc = pc
<1>1. \/ request[r] \in EndedRow
      \/ request[r] \in LoginRow
      \/ request[r] \in ReplayRow
      \/ request[r] \in RefreshRow
      \/ request[r] \in BearerRow
      \/ request[r] \in RevokeRow
      \/ request[r] \in UpdateRow
      \/ request[r] \in RecoveryRow
      \/ request[r] \in IssueRow
      \/ request[r] \in ResetRequestRow
  BY DEF TypeOK, RequestRow
<1>2. [request[r] EXCEPT !.pc = pc].pc = pc
  BY <1>1 DEF EndedRow, LoginRow, ReplayRow, RefreshRow, BearerRow, RevokeRow,
              UpdateRow, RecoveryRow, IssueRow, ResetRequestRow
<1> QED BY <1>2, BecomeOne DEF Goto

\* Only request r moves: to one of the steps S, or to its end without a token.
Goes(r, S) ==
    /\ \A p \in Request \ {r} : request'[p] = request[p]
    /\ request'[r].pc \in S \/ \E outcome \in Free : request'[r] = Ended(outcome, None)

Refreshing == {"findConsumed", "findActiveUser", "rotateSession", "revokeSession"}
Recovering == {"initiateSetup", "lockForReplace", "lockForReset", "consumeResetToken"} \cup Issuing

\* The steps of a handler.
LEMMA Moves ==
    ASSUME TypeOK, NEW r \in Request, NEW S,
           \/ \E row : Become(r, row) /\ row.pc \in S
           \/ \E pc \in S : Goto(r, pc)
           \/ \E outcome \in Free : Finish(r, outcome)
    PROVE  Goes(r, S)
<1>1. ASSUME NEW row, Become(r, row), row.pc \in S PROVE Goes(r, S)
  BY <1>1, BecomeOne DEF Goes
<1>2. ASSUME NEW pc \in S, Goto(r, pc) PROVE Goes(r, S)
  BY <1>2, GotoPc, BecomeOne DEF Goes, Goto
<1>3. ASSUME NEW outcome \in Free, Finish(r, outcome) PROVE Goes(r, S)
  BY <1>3, BecomeOne DEF Goes, Finish
<1> QED BY <1>1, <1>2, <1>3

LEMMA SignInGoes ==
    ASSUME TypeOK, NEW r \in Request, SignIn(r)
    PROVE  Goes(r, {"recordLogin", "createSession"})
<1>1. ASSUME NEW pc \in {"recordLogin", "createSession"}, NEW u, NEW p, NEW c,
             Become(r, LoginState(pc, u, p, c))
      PROVE  Goes(r, {"recordLogin", "createSession"})
  <2>1. LoginState(pc, u, p, c).pc \in {"recordLogin", "createSession"}
    BY DEF LoginState
  <2> HIDE DEF LoginState
  <2> QED BY <1>1, <2>1, Moves
<1> QED BY <1>1, Moves DEF SignIn, FindCredentials, RecordLogin, CreateSession, Free

LEMMA RefreshGoes ==
    ASSUME TypeOK, NEW r \in Request, Refresh(r)
    PROVE  Goes(r, Refreshing \cup {"refused"})
<1> DEFINE S == Refreshing \cup {"refused"}
<1>1. ASSUME NEW pc \in Refreshing, NEW t, NEW s, NEW c, Become(r, RefreshState(pc, t, s, c))
      PROVE  Goes(r, S)
  <2>1. RefreshState(pc, t, s, c).pc \in S
    BY DEF RefreshState
  <2> HIDE DEF RefreshState, S
  <2> QED BY <1>1, <2>1, Moves
<1>2. ASSUME NEW pc \in Refreshing, Goto(r, pc) PROVE Goes(r, S)
  BY <1>2, Moves
<1>3. ASSUME Refuse(r) PROVE Goes(r, S)
  <2>1. Become(r, Ended("refused", request[r].token)) /\ Ended("refused", request[r].token).pc \in S
    BY <1>3 DEF Refuse, Ended
  <2> HIDE DEF Ended, S
  <2> QED BY <2>1, Moves
<1>4. ASSUME Finish(r, "granted") PROVE Goes(r, S)
  BY <1>4, Moves DEF Free
<1>5. ASSUME NEW t \in Token, FindValidSession(r, t) PROVE Goes(r, S)
  <2> DEFINE row == [pc |-> "findConsumed", token |-> t]
  <2>1. row.pc \in S
    BY DEF Refreshing
  <2>2. Become(r, row) \/ \E s \in Session :
          Become(r, RefreshState("findActiveUser", t, s, 0))
    BY <1>5 DEF FindValidSession
  <2> HIDE DEF row, S
  <2> QED BY <1>1, <2>1, <2>2, Moves DEF Refreshing
<1> HIDE DEF S
<1>6. Goes(r, S)
  BY <1>1, <1>2, <1>3, <1>4, <1>5
     DEF Refresh, FindConsumed, FindActiveUser, RotateSession, RevokeSession, Refreshing
<1> QED BY <1>6 DEF S

LEMMA AuthenticateGoes ==
    ASSUME TypeOK, NEW r \in Request, Authenticate(r)
    PROVE  Goes(r, Authenticating)
<1>1. ASSUME NEW s \in Session, PresentAccessToken(r, s) PROVE Goes(r, Authenticating)
  <2> DEFINE row == [pc |-> "isSessionActive", session |-> s, inForce |-> InForce(s)]
  <2>1. row.pc \in Authenticating
    BY DEF Authenticating
  <2>2. Become(r, row)
    BY <1>1 DEF PresentAccessToken
  <2> HIDE DEF row
  <2> QED BY <2>1, <2>2, Moves
<1> QED BY <1>1, Moves DEF Authenticate, IsSessionActive, FindUser, FindActor, Lookup, Answer,
                           Logout, Authenticating, Free

LEMMA RevokeAllGoes ==
    ASSUME TypeOK, NEW r \in Request, RevokeAll(r)
    PROVE  Goes(r, {"revokeForUser"})
<1>1. ASSUME NEW u \in User, LockForRevoke(r, u) PROVE Goes(r, {"revokeForUser"})
  <2> DEFINE row == [pc |-> "revokeForUser", user |-> u]
  <2>1. row.pc = "revokeForUser" /\ Become(r, row)
    BY <1>1 DEF LockForRevoke
  <2> HIDE DEF row
  <2> QED BY <2>1, Moves
<1> QED BY <1>1, Moves DEF RevokeAll, RevokeForUser, Free

LEMMA AdministrationGoes ==
    ASSUME TypeOK, NEW r \in Request, Administration(r)
    PROVE  Goes(r, Updating)
<1>1. ASSUME NEW u \in User, NEW c \in SUBSET Change, BeginUpdate(r, u, c)
      PROVE  Goes(r, Updating)
  <2> DEFINE row == [pc |-> "updateUser", user |-> u, change |-> c,
                     version |-> users[u].version, snapshot |-> sessions]
  <2>1. row.pc \in Updating
    BY DEF Updating
  <2>2. Become(r, row)
    BY <1>1 DEF BeginUpdate
  <2> HIDE DEF row
  <2> QED BY <2>1, <2>2, Moves
<1> QED BY <1>1, Moves DEF Administration, LockForUpdate, CommitUpdate, Updating, Free

\* A lookup that finds whom it may reset goes on to set up or to replace.
LEMMA LookupGoes ==
    ASSUME TypeOK, NEW r \in Request,
           \/ \E u \in User : FindActiveCredentials(r, u) \/ ProvisionContactUser(r, u)
                                \/ RepeatGrant(r, u)
           \/ InitiateSetup(r)
    PROVE  Goes(r, {"initiateSetup", "lockForReplace"})
<1>1. ASSUME NEW pc \in {"initiateSetup", "lockForReplace"}, NEW u, NEW c,
             Become(r, RecoveryState(pc, u, c))
      PROVE  Goes(r, {"initiateSetup", "lockForReplace"})
  <2>1. RecoveryState(pc, u, c).pc \in {"initiateSetup", "lockForReplace"}
    BY DEF RecoveryState
  <2> HIDE DEF RecoveryState
  <2> QED BY <1>1, <2>1, Moves
<1> QED BY <1>1, Moves DEF FindActiveCredentials, ProvisionContactUser, RepeatGrant,
                           InitiateSetup, Free

LEMMA RecoveryGoes ==
    ASSUME TypeOK, NEW r \in Request, Recovery(r)
    PROVE  Goes(r, Recovering)
<1>1. ASSUME \/ \E u \in User : FindActiveCredentials(r, u) \/ ProvisionContactUser(r, u)
                                   \/ RepeatGrant(r, u)
             \/ InitiateSetup(r)
      PROVE  Goes(r, Recovering)
  <2>1. Goes(r, {"initiateSetup", "lockForReplace"})
    BY <1>1, LookupGoes
  <2> QED BY <2>1 DEF Goes, Recovering
<1>2. ASSUME NEW u, NEW k, NEW issuedAt, NEW retired,
             Become(r, IssueState(u, k, issuedAt, retired))
      PROVE  Goes(r, Recovering)
  <2>1. IssueState(u, k, issuedAt, retired).pc \in Recovering
    BY DEF IssueState, Recovering, Issuing
  <2> HIDE DEF IssueState
  <2> QED BY <1>2, <2>1, Moves
<1>3. ASSUME NEW k \in ResetToken, FindCandidate(r, k) PROVE Goes(r, Recovering)
  <2> DEFINE row == [pc |-> "lockForReset", user |-> resetTokens[k].user, key |-> k]
  <2>1. row.pc \in Recovering
    BY DEF Recovering
  <2>2. Become(r, row)
    BY <1>3 DEF FindCandidate
  <2> HIDE DEF row
  <2> QED BY <2>1, <2>2, Moves
<1>4. ASSUME \/ CreateResetToken(r) \/ EnqueueMail(r) \/ RetireUndelivered(r)
             \/ LockForReset(r) \/ ConsumeResetToken(r)
      PROVE  Goes(r, Recovering)
  BY <1>4, Moves DEF CreateResetToken, EnqueueMail, RetireUndelivered, LockForReset,
                     ConsumeResetToken, Recovering, Issuing, Free
<1>5. ASSUME LockForReplace(r) PROVE Goes(r, Recovering)
  BY <1>2, <1>5, Moves DEF LockForReplace, Free
<1> QED BY <1>1, <1>3, <1>4, <1>5 DEF Recovery

\* A request that ends leaves the guards.
LEMMA Ends ==
    ASSUME TypeOK, NEW r \in Request, NEW outcome \in Free, Finish(r, outcome)
    PROVE  BearersUnchanged
<1>1. Ended(outcome, None).pc \notin Authenticating
  BY DEF Ended, Free, Authenticating
<1> QED BY <1>1, BecomeOne DEF BearersUnchanged, Finish

\* The other handlers keep out of the guards.
LEMMA OthersOutside ==
    ASSUME TypeOK, NEW r \in Request,
           \/ SignIn(r) \/ Refresh(r) \/ RevokeAll(r) \/ Administration(r)
           \/ Recovery(r) \/ RequestLost(r)
    PROVE  BearersUnchanged
<1>1. \A outcome \in Free : Ended(outcome, None).pc \notin Authenticating
  BY DEF Ended, Free, Authenticating
<1>2. ASSUME NEW S, Goes(r, S), S \cap Authenticating = {} PROVE BearersUnchanged
  BY <1>1, <1>2 DEF Goes, BearersUnchanged
<1>3. CASE RequestLost(r)
  <2>1. Goes(r, {})
    BY <1>3, Moves DEF RequestLost, Free
  <2> QED BY <1>2, <2>1
<1>4. /\ {"recordLogin", "createSession"} \cap Authenticating = {}
      /\ (Refreshing \cup {"refused"}) \cap Authenticating = {}
      /\ {"revokeForUser"} \cap Authenticating = {}
      /\ Updating \cap Authenticating = {}
      /\ Recovering \cap Authenticating = {}
  BY DEF Authenticating, Refreshing, Updating, Recovering, Issuing
<1> QED BY <1>2, <1>3, <1>4, SignInGoes, RefreshGoes, RevokeAllGoes, AdministrationGoes, RecoveryGoes

----------------------------------------------------------------------------
(* No session becomes usable again. *)

\* A revoked row is a row.
LEMMA RevokedRow ==
    ASSUME NEW row \in SessionRow
    PROVE  /\ [row EXCEPT !.revoked = TRUE] \in SessionRow
           /\ [row EXCEPT !.revoked = TRUE].revoked
BY DEF SessionRow

\* Sessions are revoked, or left alone.
Revokes ==
    /\ UNCHANGED consumed
    /\ \A s \in Session :
         \/ sessions'[s] = sessions[s]
         \/ SessionExists(s) /\ sessions'[s] = [sessions[s] EXCEPT !.revoked = TRUE]

\* A session is opened with a new token.
Opens(s) ==
    /\ ~SessionExists(s)
    /\ \E u \in User, t \in FreshTokens, password \in Nat, clock \in Nat :
         sessions' = [sessions EXCEPT ![s] = NewSession(u, t, password, clock)]
    /\ UNCHANGED consumed

\* A usable session exchanges the token it holds for a new one.
Exchanges(s) ==
    /\ Usable(s)
    /\ \E next \in FreshTokens, clock \in Nat :
         sessions' = [sessions EXCEPT ![s] = Rotated(s, sessions[s].token, next, clock)]
    /\ consumed' = [consumed EXCEPT ![s] = @ \cup {sessions[s].token}]

SessionStep == Revokes \/ \E s \in Session : Opens(s) \/ Exchanges(s)

\* Sessions that stay as they are, or of which some are revoked.
LEMMA SomeRevoked ==
    ASSUME TypeOK, UNCHANGED consumed,
           \/ UNCHANGED sessions
           \/ \E s \in Session : sessions' = SessionRevoked(s)
           \/ \E u \in User : sessions' = AllRevoked(u)
    PROVE  SessionStep
BY DEF SessionRevoked, AllRevoked, TypeOK, SessionStep, Revokes

\* Every step of the system does one of the three.
LEMMA NextSessions ==
    ASSUME TypeOK, [Next]_vars
    PROVE  SessionStep
<1> USE DEF storeVars
<1>1. ASSUME UNCHANGED <<sessions, consumed>> PROVE SessionStep
  BY <1>1, SomeRevoked
<1>2. CASE UNCHANGED vars \/ Tick
  BY <1>1, <1>2 DEF vars, Tick
<1>3. CASE \E u \in User : CreateUser(u) \/ DeleteUser(u)
  BY <1>1, <1>3 DEF CreateUser, DeleteUser
<1>4. ASSUME NEW r \in Request, SignIn(r) PROVE SessionStep
  <2>1. CASE CreateSession(r)
    <3>1. request[r] \in LoginRow
      BY <2>1, RequestFields DEF CreateSession, At, TypeOK
    <3>2. PICK s \in Session, t \in FreshTokens :
            /\ ~SessionExists(s)
            /\ sessions' = [sessions EXCEPT ![s] =
                  NewSession(request[r].user, t, request[r].password, request[r].clock)]
      BY <2>1 DEF CreateSession
    <3>3. Opens(s)
      BY <2>1, <3>1, <3>2 DEF CreateSession, Opens, LoginRow
    <3> QED BY <3>3 DEF SessionStep
  <2> QED BY <1>1, <1>4, <2>1 DEF SignIn, FindCredentials, RecordLogin
<1>5. ASSUME NEW r \in Request, Refresh(r) PROVE SessionStep
  <2>1. CASE RotateSession(r)
    <3>1. request[r] \in RefreshRow
      BY <2>1, RequestFields DEF RotateSession, At, TypeOK
    <3>2. ASSUME NEW next \in FreshTokens, RotationMatches(request[r].session, request[r].token),
                 sessions' = [sessions EXCEPT ![request[r].session] =
                     Rotated(request[r].session, request[r].token, next, request[r].clock)],
                 consumed' = [consumed EXCEPT ![request[r].session] = @ \cup {request[r].token}]
          PROVE  Exchanges(request[r].session)
      BY <3>1, <3>2 DEF RotationMatches, Exchanges, RefreshRow
    <3>3. request[r].session \in Session
      BY <3>1 DEF RefreshRow
    <3> QED BY <1>1, <2>1, <3>2, <3>3 DEF RotateSession, SessionStep
  <2>2. CASE RevokeSession(r)
    BY <2>2, SomeRevoked, RequestFields DEF RevokeSession, At, TypeOK, RefreshRow
  <2> QED BY <1>1, <1>5, <2>1, <2>2 DEF Refresh, FindValidSession, FindConsumed,
                                        FindActiveUser
<1>6. ASSUME NEW r \in Request, Authenticate(r) PROVE SessionStep
  <2>1. CASE Logout(r)
    BY <2>1, SomeRevoked, RequestFields DEF Logout, At, TypeOK, BearerRow, Authenticating
  <2> QED BY <1>1, <1>6, <2>1 DEF Authenticate, PresentAccessToken, IsSessionActive,
                                  FindUser, FindActor, Lookup, Answer
<1>7. ASSUME NEW r \in Request, RevokeAll(r) PROVE SessionStep
  <2>1. CASE RevokeForUser(r)
    BY <2>1, SomeRevoked, RequestFields DEF RevokeForUser, At, TypeOK, RevokeRow
  <2> QED BY <1>1, <1>7, <2>1 DEF RevokeAll, LockForRevoke
<1>8. ASSUME NEW r \in Request, Administration(r) PROVE SessionStep
  <2>1. CASE CommitUpdate(r)
    <3>1. CASE UNCHANGED sessions
      BY <1>1, <2>1, <3>1 DEF CommitUpdate
    <3>2. ASSUME NEW R, R \subseteq RevocableIn(r),
                 \A s \in R : sessions[s] = request[r].snapshot[s],
                 sessions' = [s \in Session |-> IF s \in R
                                                THEN [sessions[s] EXCEPT !.revoked = TRUE]
                                                ELSE sessions[s]]
          PROVE  Revokes
      BY <2>1, <3>2 DEF CommitUpdate, Revokes, RevocableIn, SessionExists
    <3> DEFINE R == IF RevokesSessions(request[r].change) THEN RevocableIn(r) ELSE {}
    <3>3. R \subseteq RevocableIn(r)
      OBVIOUS
    <3>4. \/ UNCHANGED sessions
          \/ /\ \A s \in R : sessions[s] = request[r].snapshot[s]
             /\ sessions' = [s \in Session |-> IF s \in R
                                                THEN [sessions[s] EXCEPT !.revoked = TRUE]
                                                ELSE sessions[s]]
      BY <2>1 DEF CommitUpdate
    <3> HIDE DEF R
    <3> QED BY <3>1, <3>2, <3>3, <3>4 DEF SessionStep
  <2> QED BY <1>1, <1>8, <2>1 DEF Administration, BeginUpdate, LockForUpdate
<1>9. ASSUME NEW r \in Request, Recovery(r) PROVE SessionStep
  <2>1. CASE ConsumeResetToken(r)
    <3>1. request[r].user \in User
      BY <2>1, RequestFields DEF ConsumeResetToken, At, TypeOK, ResetRequestRow
    <3> QED BY <1>1, <2>1, <3>1, SomeRevoked DEF ConsumeResetToken
  <2> QED BY <1>1, <1>9, <2>1 DEF Recovery, FindActiveCredentials, ProvisionContactUser,
             RepeatGrant, InitiateSetup, LockForReplace, CreateResetToken, EnqueueMail,
             RetireUndelivered, FindCandidate, LockForReset
<1>10. ASSUME NEW r \in Request, RequestLost(r) PROVE SessionStep
  BY <1>1, <1>10 DEF RequestLost
<1> QED BY <1>2, <1>3, <1>4, <1>5, <1>6, <1>7, <1>8, <1>9, <1>10 DEF Next

\* Only the clock moves the clock.
LEMMA TimePasses ==
    ASSUME [Next]_vars
    PROVE  now' \in {now, now + 1}
<1>1. ASSUME NEW r \in Request, SignIn(r) \/ Refresh(r) \/ Authenticate(r) PROVE UNCHANGED now
  BY <1>1 DEF SignIn, FindCredentials, RecordLogin, CreateSession, Refresh, FindValidSession,
     FindConsumed, FindActiveUser, RotateSession, RevokeSession, Authenticate,
     PresentAccessToken, IsSessionActive, FindUser, FindActor, Lookup, Answer, Logout
<1>2. ASSUME NEW r \in Request, RevokeAll(r) \/ Administration(r) PROVE UNCHANGED now
  BY <1>2 DEF RevokeAll, LockForRevoke, RevokeForUser, Administration, BeginUpdate,
     LockForUpdate, CommitUpdate
<1>3. ASSUME NEW r \in Request, Recovery(r) PROVE UNCHANGED now
  BY <1>3 DEF Recovery, FindActiveCredentials, ProvisionContactUser, RepeatGrant,
     InitiateSetup, LockForReplace, CreateResetToken, EnqueueMail, RetireUndelivered,
     FindCandidate, LockForReset, ConsumeResetToken
<1> QED BY <1>1, <1>2, <1>3 DEF Next, vars, Tick, CreateUser, DeleteUser, RequestLost

\* No row is deleted, and no session that is not usable becomes so again.
LEMMA NextReturnsNone ==
    ASSUME TypeOK, [Next]_vars
    PROVE  NoneReturns
<1>1. now \in Nat /\ now' \in Nat /\ now <= now'
  BY TimePasses DEF TypeOK
<1>2. SessionStep
  BY NextSessions
<1> SUFFICES ASSUME NEW s \in Session, SessionExists(s)
             PROVE  SessionExists(s)' /\ (~Usable(s) => ~Usable(s)')
  BY DEF NoneReturns
<1>3. sessions[s] \in SessionRow
  BY DEF SessionExists, TypeOK
<1>4. CASE sessions'[s] = sessions[s]
  BY <1>1, <1>3, <1>4 DEF SessionExists, Usable, SessionRow
<1>5. CASE sessions'[s] = [sessions[s] EXCEPT !.revoked = TRUE]
  <2>1. sessions'[s] \in SessionRow /\ sessions'[s].revoked
    BY <1>3, <1>5, RevokedRow
  <2> QED BY <2>1, NoneAssumption DEF SessionExists, Usable
<1>6. ASSUME NEW x \in Session, Opens(x) PROVE sessions'[s] = sessions[s]
  BY <1>6 DEF Opens, TypeOK
<1>7. ASSUME NEW x \in Session, Exchanges(x)
      PROVE  SessionExists(s)' /\ (~Usable(s) => sessions'[s] = sessions[s])
  <2>1. PICK next \in FreshTokens, clock \in Nat :
          sessions' = [sessions EXCEPT ![x] = Rotated(x, sessions[x].token, next, clock)]
    BY <1>7 DEF Exchanges
  <2>2. sessions[x] \in SessionRow
    BY <1>7 DEF Exchanges, Usable, SessionExists, TypeOK
  <2>3. Rotated(x, sessions[x].token, next, clock) \in SessionRow
    BY <2>2, TtlAssumption DEF Rotated, NextExpiry, SessionRow, FreshTokens
  <2>4. SessionExists(s)'
    BY <2>1, <2>3, NoneAssumption DEF TypeOK, SessionExists
  <2>5. ~Usable(s) => s # x
    BY <1>7 DEF Exchanges
  <2> QED BY <2>1, <2>4, <2>5 DEF TypeOK
<1> QED BY <1>2, <1>4, <1>5, <1>6, <1>7 DEF SessionStep, Revokes

----------------------------------------------------------------------------
(* The theorem *)

\* A step that leaves the requests in the guards alone.
LEMMA BearersWait ==
    ASSUME BearersAreChecked, TypeOK, NoneReturns, BearersUnchanged
    PROVE  BearersAreChecked'
<1> SUFFICES ASSUME NEW p \in Request, request'[p].pc \in Authenticating
             PROVE  /\ At(p, "isSessionActive")' =>
                         /\ SessionExists(request[p].session)'
                         /\ ~request'[p].inForce => ~Usable(request[p].session)'
                    /\ request'[p].pc # "isSessionActive" => request'[p].inForce
  BY DEF BearersAreChecked, At, Authenticating
<1>1. request'[p] = request[p]
  BY DEF BearersUnchanged
<1>2. request[p].session \in Session
  BY <1>1, RequestFields DEF TypeOK, BearerRow
<1> QED BY <1>1, <1>2 DEF BearersAreChecked, NoneReturns, At, SessionExists, Usable

\* The guards.
LEMMA AuthenticateChecks ==
    ASSUME BearerInv, NEW r \in Request, Authenticate(r), NoneReturns
    PROVE  BearersAreChecked'
<1> USE DEF storeVars
<1>1. TypeOK /\ SessionInv /\ BearersAreChecked
  BY DEF BearerInv, SessionInv
<1>2. ASSUME NEW row, Become(r, row), row.session \in Session,
             UNCHANGED <<now, sessions>>,
             row.pc = "isSessionActive" =>
                 SessionExists(row.session) /\ (~row.inForce => ~Usable(row.session)),
             row.pc # "isSessionActive" => row.inForce
      PROVE  BearersAreChecked'
  BY <1>1, <1>2, BecomeOne DEF BearersAreChecked, At, SessionExists, Usable
<1>3. ASSUME NEW s \in Session, PresentAccessToken(r, s) PROVE BearersAreChecked'
  <2> DEFINE row == [pc |-> "isSessionActive", session |-> s, inForce |-> InForce(s)]
  <2>1. ~InForce(s) => ~Usable(s)
    BY <1>1 DEF InForce, Usable, SessionInv, LiveSessionsAreCurrent
  <2>2. row.pc = "isSessionActive" /\ row.session = s /\ row.inForce = InForce(s)
    OBVIOUS
  <2>3. Become(r, row) /\ SessionExists(s) /\ UNCHANGED <<now, sessions>>
    BY <1>3 DEF PresentAccessToken
  <2> HIDE DEF row
  <2> QED BY <1>2, <2>1, <2>2, <2>3
<1>4. ASSUME NEW from \in Authenticating, NEW found \in BOOLEAN,
             NEW to \in Authenticating \ {"isSessionActive"},
             Lookup(r, from, found, to),
             from = "isSessionActive" => found = SessionActive(request[r].session)
      PROVE  BearersAreChecked'
  <2>1. request[r] \in BearerRow
    BY <1>1, <1>4, RequestFields DEF Lookup, At, TypeOK
  <2>2. CASE ~found
    BY <1>1, <1>4, <2>2, Ends, BearersWait DEF Lookup, Free
  <2>3. CASE found
    <3> DEFINE row == [request[r] EXCEPT !.pc = to]
    <3>1. /\ row.pc = to
          /\ row.session = request[r].session
          /\ row.inForce = request[r].inForce
      BY <2>1 DEF BearerRow
    <3>2. request[r].inForce
      BY <1>1, <1>4, <2>3 DEF Lookup, BearersAreChecked, SessionActive, At, Authenticating
    <3>3. Become(r, row) /\ UNCHANGED <<now, sessions>>
      BY <1>4, <2>3 DEF Lookup, Goto
    <3>4. row.session \in Session
      BY <2>1, <3>1 DEF BearerRow
    <3> HIDE DEF row
    <3> QED BY <1>2, <3>1, <3>2, <3>3, <3>4
  <2> QED BY <2>2, <2>3
<1>5. CASE IsSessionActive(r)
  <2>1. SessionActive(request[r].session) \in BOOLEAN
    BY DEF SessionActive, Usable, SessionExists
  <2> QED BY <1>4, <1>5, <2>1 DEF IsSessionActive, Authenticating
<1>6. CASE FindUser(r)
  BY <1>4, <1>6 DEF FindUser, Active, Authenticating
<1>7. CASE FindActor(r)
  BY <1>4, <1>7 DEF FindActor, Authenticating
<1>8. CASE Answer(r) \/ Logout(r)
  BY <1>1, <1>8, Ends, BearersWait DEF Answer, Logout, Free
<1> QED BY <1>3, <1>5, <1>6, <1>7, <1>8 DEF Authenticate

\* Every step keeps the invariant.
LEMMA NextBearer == BearerInv /\ [Next]_vars => BearerInv'
<1> SUFFICES ASSUME BearerInv, [Next]_vars PROVE BearerInv'
  OBVIOUS
<1>1. SessionInv' /\ TypeOK /\ BearersAreChecked
  BY NextSession DEF BearerInv, SessionInv
<1>2. NoneReturns
  BY <1>1, NextReturnsNone
<1>3. ASSUME NEW r \in Request, Authenticate(r) PROVE BearersAreChecked'
  BY <1>2, <1>3, AuthenticateChecks
<1>4. ASSUME NEW r \in Request,
             \/ SignIn(r) \/ Refresh(r) \/ RevokeAll(r) \/ Administration(r)
             \/ Recovery(r) \/ RequestLost(r)
      PROVE  BearersAreChecked'
  BY <1>1, <1>2, <1>4, OthersOutside, BearersWait
<1>5. ASSUME UNCHANGED request PROVE BearersAreChecked'
  BY <1>1, <1>2, <1>5, BearersWait DEF BearersUnchanged
<1>6. BearersAreChecked'
  BY <1>3, <1>4, <1>5 DEF Next, vars, storeVars, Tick, CreateUser, DeleteUser
<1> QED BY <1>1, <1>6 DEF BearerInv

\* A request is admitted only if its session was usable and carried the
\* current password of an active user when the request arrived: no access
\* token lets a request in that arrives after a logout, a password change, a
\* deactivation or a revocation has committed.
THEOREM NoStaleAdmission == Spec => []AdmittedWasInForce
<1>1. Init => BearerInv
  <2> SUFFICES ASSUME Init PROVE BearersAreChecked
    BY InitSession DEF BearerInv
  <2>1. \A r \in Request : request[r].pc = "idle"
    BY DEF Init, Ended
  <2> QED BY <2>1 DEF BearersAreChecked, At, Authenticating
<1>2. BearerInv => AdmittedWasInForce
  BY DEF BearerInv, BearersAreChecked, AdmittedWasInForce, At, Authenticating
<1> QED BY <1>1, <1>2, NextBearer, PTL DEF Spec
----------------------------------------------------------------------------
(* Refresh tokens.  The store implements a set of token families: what the *)
(* steps do to sessions and consumed tokens is what Family allows.         *)

USE DEF Stage, Current, Lease, Deadline

\* The tokens that the families know are those that are stored.
LEMMA KnownIsStored ==
    ASSUME TypeOK
    PROVE  Family!Known = StoredTokens
BY DEF Family!Known, StoredTokens, SessionExists

\* Rows that are revoked keep their token and their expiry.
LEMMA RevokesKills ==
    ASSUME TypeOK, Revokes
    PROVE  Family!Kill
<1>1. ASSUME NEW s \in Session
      PROVE  /\ SessionExists(s)' <=> SessionExists(s)
             /\ SessionExists(s) =>
                   /\ sessions'[s].token = sessions[s].token
                   /\ sessions'[s].expiresAt = sessions[s].expiresAt
                   /\ sessions'[s].absoluteExpiresAt = sessions[s].absoluteExpiresAt
                   /\ \/ sessions'[s].revoked = sessions[s].revoked
                      \/ sessions'[s].revoked = TRUE
  <2>1. CASE sessions'[s] = sessions[s]
    BY <2>1 DEF SessionExists
  <2>2. CASE SessionExists(s) /\ sessions'[s] = [sessions[s] EXCEPT !.revoked = TRUE]
    <3>1. sessions[s] \in SessionRow
      BY <2>2 DEF SessionExists, TypeOK
    <3>2. sessions'[s] # None
      BY <2>2, <3>1, RevokedRow
    <3> QED BY <2>2, <3>1, <3>2 DEF SessionExists, SessionRow
  <2> QED BY <2>1, <2>2 DEF Revokes
<1>2. \A s \in Session : \/ Stage'[s] = Stage[s]
                         \/ Stage[s] = "live" /\ Stage'[s] = "dead"
  BY <1>1
<1>3. \A s \in Session : /\ Current'[s] = Current[s]
                         /\ Lease'[s] = Lease[s]
                         /\ Deadline'[s] = Deadline[s]
  BY <1>1
<1>4. UNCHANGED <<Current, Lease, Deadline>>
  BY <1>3
<1> QED BY <1>2, <1>4 DEF Family!Kill, Revokes

\* A session that is opened opens a family.
LEMMA OpensOpens ==
    ASSUME TypeOK, NEW s \in Session, Opens(s)
    PROVE  Family!Open(s)
<1>1. PICK u \in User, t \in FreshTokens, password \in Nat, clock \in Nat :
        sessions' = [sessions EXCEPT ![s] = NewSession(u, t, password, clock)]
  BY DEF Opens
<1>2. NewSession(u, t, password, clock) \in SessionRow
  BY <1>1 DEF NewSession, SessionRow, FreshTokens
<1>3. /\ sessions'[s] = NewSession(u, t, password, clock)
      /\ \A x \in Session \ {s} : sessions'[x] = sessions[x]
      /\ ~SessionExists(s) /\ SessionExists(s)'
  BY <1>1, <1>2 DEF TypeOK, SessionExists, Opens
<1>4. Stage[s] = "none" /\ Stage' = [Stage EXCEPT ![s] = "live"]
  <2>1. \A x \in Session : Stage'[x] = [Stage EXCEPT ![s] = "live"][x]
    BY <1>3 DEF SessionExists, NewSession
  <2>2. Stage[s] = "none"
    BY <1>3
  <2> QED BY <2>1, <2>2
<1>5. /\ Current'[s] \in Token \ Family!Known
      /\ Lease'[s] <= Deadline'[s]
  BY <1>3, KnownIsStored DEF NewSession, FreshTokens
<1>6. \A x \in Session \ {s} : /\ Current'[x] = Current[x]
                               /\ Lease'[x] = Lease[x]
                               /\ Deadline'[x] = Deadline[x]
  BY <1>3 DEF SessionExists
<1> QED BY <1>4, <1>5, <1>6 DEF Family!Open, Family!ChangesOnlyAt, Opens

\* A rotation exchanges the token of a live family.
LEMMA ExchangesExchanges ==
    ASSUME TypeOK, NEW s \in Session, Exchanges(s)
    PROVE  Family!Exchange(s)
<1>1. PICK next \in FreshTokens, clock \in Nat :
        sessions' = [sessions EXCEPT ![s] = Rotated(s, sessions[s].token, next, clock)]
  BY DEF Exchanges
<1>2. sessions[s] \in SessionRow /\ SessionExists(s) /\ ~sessions[s].revoked
  BY DEF Exchanges, Usable, SessionExists, TypeOK
<1>3. Rotated(s, sessions[s].token, next, clock) \in SessionRow
  BY <1>2 DEF Rotated, NextExpiry, SessionRow, FreshTokens
<1>4. /\ sessions'[s] = Rotated(s, sessions[s].token, next, clock)
      /\ \A x \in Session \ {s} : sessions'[x] = sessions[x]
      /\ SessionExists(s)'
  BY <1>1, <1>3 DEF TypeOK, SessionExists
<1>5. UNCHANGED <<Stage, Deadline>> /\ Stage[s] = "live"
  <2>1. \A x \in Session : Stage'[x] = Stage[x] /\ Deadline'[x] = Deadline[x]
    BY <1>2, <1>4 DEF SessionExists, Rotated
  <2>2. Stage[s] = "live"
    BY <1>2
  <2> QED BY <2>1, <2>2
<1>6. /\ Current'[s] \in Token \ Family!Known
      /\ Lease'[s] <= Deadline[s]
  BY <1>2, <1>4, KnownIsStored DEF Rotated, NextExpiry, FreshTokens, SessionRow
<1>7. \A x \in Session \ {s} : Current'[x] = Current[x] /\ Lease'[x] = Lease[x]
  BY <1>4 DEF SessionExists
<1>8. consumed' = [consumed EXCEPT ![s] = @ \cup {Current[s]}]
  BY <1>2 DEF Exchanges
<1> QED BY <1>5, <1>6, <1>7, <1>8 DEF Family!Exchange, Family!ChangesOnlyAt


HIDE DEF Stage, Current, Lease, Deadline

\* Sign-in, rotateSession with its replay handling, and every revocation implement
\* families of refresh tokens: each token is exchanged at most once and never returns, a
\* revoked session stays as it was, and no rotation passes the absolute expiry.
THEOREM RotationIsAFamily == Spec => FamilySpec
<1>1. Init => Family!Init
  BY DEF Init, Family!Init, Stage, SessionExists
<1>2. TypeOK /\ [Next]_vars => [Family!Next]_(Family!family)
  <2> SUFFICES ASSUME TypeOK, [Next]_vars PROVE Family!Next
    OBVIOUS
  <2> QED BY NextSessions, RevokesKills, OpensOpens, ExchangesExchanges
          DEF SessionStep, Family!Next
<1> QED BY <1>1, <1>2, TypeCorrect, PTL DEF Spec, FamilySpec, Family!Spec

----------------------------------------------------------------------------
(* Replays.  ReplayRevokes speaks of a token and of what became of its      *)
(* session meanwhile, so it needs that a token leads to one session, and    *)
(* what a refresh under way still knows of the token it was given.          *)

\* A session holds the token it can exchange and those it has exchanged.
Holds(s, t) == SessionExists(s) /\ (sessions[s].token = t \/ t \in consumed[s])

HeldOnce == \A s, x \in Session, t \in Token : Holds(s, t) /\ Holds(x, t) => s = x

\* The previous token, by which a replay is recognised too, is a consumed one.
ConsumedIsPast ==
    \A s \in Session :
        /\ ~SessionExists(s) => consumed[s] = {}
        /\ SessionExists(s) => /\ sessions[s].token \notin consumed[s]
                               /\ sessions[s].previous \in consumed[s] \cup {None}

\* Nobody can exchange t, now or later.
TurnedAway(t) ==
    /\ t \in StoredTokens
    /\ \A s \in Session : SessionExists(s) /\ sessions[s].token = t => ~Usable(s)

\* What a refresh knows between its lookup and its answer, and after it.
Knows(r) ==
    LET q == request[r] IN
    /\ q.pc \in Refreshing \ {"findConsumed"} => Holds(q.session, q.token)
    /\ q.pc \in {"findConsumed", "refused"} /\ q.token # None => TurnedAway(q.token)
    /\ q.pc = "refused" => \A s \in Session : q.token \in consumed[s] => sessions[s].revoked

TokenInv == TypeOK /\ HeldOnce /\ ConsumedIsPast

RefreshInv == TokenInv /\ \A r \in Request : Knows(r)

\* What a step leaves of tokens: a session keeps what it held, what it gets is new, and
\* what it consumes it could exchange.
TokensKept ==
    \A s \in Session :
        /\ \A t \in Token : /\ Holds(s, t) => Holds(s, t)'
                            /\ Holds(s, t)' => Holds(s, t) \/ t \notin StoredTokens
                            /\ t \in consumed'[s] => \/ t \in consumed[s]
                                                     \/ Usable(s) /\ sessions[s].token = t
                            /\ t \in consumed[s] => t \in consumed'[s]
        /\ SessionExists(s)' => \/ sessions'[s].token \notin StoredTokens
                                \/ SessionExists(s) /\ sessions'[s].token = sessions[s].token
        /\ SessionExists(s) /\ sessions[s].revoked => sessions'[s].revoked

LEMMA StoredIsHeld ==
    ASSUME TypeOK, ConsumedIsPast
    PROVE  StoredTokens = {t \in Token : \E s \in Session : Holds(s, t)}
<1>1. \A s \in Session : SessionExists(s) => sessions[s].token \in Token
  BY DEF SessionExists, TypeOK, SessionRow
<1>2. \A s \in Session : consumed[s] \subseteq Token /\ (consumed[s] # {} => SessionExists(s))
  BY DEF TypeOK, ConsumedIsPast
<1> QED BY <1>1, <1>2 DEF StoredTokens, Holds

LEMMA RevokesTokens ==
    ASSUME TokenInv, TypeOK', Revokes
    PROVE  TokenInv' /\ TokensKept
<1>1. ASSUME NEW s \in Session
      PROVE  /\ SessionExists(s)' <=> SessionExists(s)
             /\ SessionExists(s) => /\ sessions'[s].token = sessions[s].token
                                    /\ sessions'[s].previous = sessions[s].previous
                                    /\ sessions[s].revoked => sessions'[s].revoked
             /\ consumed'[s] = consumed[s]
  <2>1. CASE sessions'[s] = sessions[s]
    BY <2>1 DEF SessionExists, Revokes
  <2>2. CASE SessionExists(s) /\ sessions'[s] = [sessions[s] EXCEPT !.revoked = TRUE]
    <3>1. sessions[s] \in SessionRow
      BY <2>2 DEF SessionExists, TokenInv, TypeOK
    <3>2. sessions'[s] # None
      BY <2>2, <3>1, RevokedRow
    <3> QED BY <2>2, <3>1, <3>2 DEF SessionExists, SessionRow, Revokes
  <2> QED BY <2>1, <2>2 DEF Revokes
<1>2. \A s \in Session, t \in Token : Holds(s, t)' <=> Holds(s, t)
  BY <1>1 DEF Holds
<1>3. HeldOnce'
  BY <1>2 DEF TokenInv, HeldOnce
<1>4. ConsumedIsPast'
  BY <1>1 DEF TokenInv, ConsumedIsPast
<1>5. TokensKept
  BY <1>1, <1>2 DEF TokensKept
<1> QED BY <1>3, <1>4, <1>5 DEF TokenInv

LEMMA OpensTokens ==
    ASSUME TokenInv, TypeOK', NEW s \in Session, Opens(s)
    PROVE  TokenInv' /\ TokensKept
<1>1. PICK u \in User, t \in FreshTokens, password \in Nat, clock \in Nat :
        sessions' = [sessions EXCEPT ![s] = NewSession(u, t, password, clock)]
  BY DEF Opens
<1>2. NewSession(u, t, password, clock) \in SessionRow
  BY <1>1 DEF NewSession, SessionRow, FreshTokens
<1>3. /\ SessionExists(s)' /\ ~SessionExists(s)
      /\ sessions'[s].token = t /\ sessions'[s].previous = None
      /\ consumed' = consumed /\ consumed[s] = {}
  BY <1>1, <1>2 DEF TokenInv, TypeOK, SessionExists, Opens, NewSession, ConsumedIsPast
<1>4. \A x \in Session \ {s} : sessions'[x] = sessions[x]
  BY <1>1 DEF TokenInv, TypeOK
<1>5. t \in Token /\ t \notin StoredTokens
  BY <1>1 DEF FreshTokens
<1>6. \A x \in Session \ {s}, y \in Token : Holds(x, y)' <=> Holds(x, y)
  BY <1>3, <1>4 DEF Holds, SessionExists
<1>7. \A y \in Token : (Holds(s, y)' <=> y = t) /\ ~Holds(s, y)
  BY <1>3 DEF Holds
<1>8. \A x \in Session : ~Holds(x, t)
  BY <1>5, StoredIsHeld DEF TokenInv
<1>9. HeldOnce'
  BY <1>6, <1>7, <1>8 DEF TokenInv, HeldOnce
<1>10. ConsumedIsPast'
  BY <1>3, <1>4 DEF TokenInv, ConsumedIsPast, SessionExists
<1>11. TokensKept
  BY <1>3, <1>4, <1>5, <1>6, <1>7 DEF TokensKept, SessionExists
<1> QED BY <1>9, <1>10, <1>11 DEF TokenInv

LEMMA ExchangesTokens ==
    ASSUME TokenInv, TypeOK', NEW s \in Session, Exchanges(s)
    PROVE  TokenInv' /\ TokensKept
<1>1. PICK next \in FreshTokens, clock \in Nat :
        sessions' = [sessions EXCEPT ![s] = Rotated(s, sessions[s].token, next, clock)]
  BY DEF Exchanges
<1>2. PICK old : old = sessions[s].token
  OBVIOUS
<1>3. sessions[s] \in SessionRow /\ SessionExists(s) /\ ~sessions[s].revoked /\ Usable(s)
  BY DEF Exchanges, Usable, SessionExists, TokenInv, TypeOK
<1>4. Rotated(s, sessions[s].token, next, clock) \in SessionRow
  BY <1>3 DEF Rotated, NextExpiry, SessionRow, FreshTokens
<1>5. /\ SessionExists(s)'
      /\ sessions'[s].token = next /\ sessions'[s].previous = old
      /\ consumed'[s] = consumed[s] \cup {old}
      /\ old \in Token
  BY <1>1, <1>2, <1>3, <1>4 DEF TokenInv, TypeOK, SessionExists, Exchanges, Rotated, SessionRow
<1>6. \A x \in Session \ {s} : sessions'[x] = sessions[x] /\ consumed'[x] = consumed[x]
  BY <1>1 DEF TokenInv, TypeOK, Exchanges
<1>7. next \in Token /\ next \notin StoredTokens
  BY <1>1 DEF FreshTokens
<1>8. \A x \in Session \ {s}, y \in Token : Holds(x, y)' <=> Holds(x, y)
  BY <1>6 DEF Holds, SessionExists
<1>9. \A y \in Token : Holds(s, y)' <=> Holds(s, y) \/ y = next
  BY <1>2, <1>3, <1>5 DEF Holds
<1>10. \A x \in Session : ~Holds(x, next)
  BY <1>7, StoredIsHeld DEF TokenInv
<1>11. HeldOnce'
  BY <1>8, <1>9, <1>10 DEF TokenInv, HeldOnce
<1>12. Holds(s, old) /\ old # next
  BY <1>2, <1>3, <1>5, <1>10 DEF Holds
<1>13. next \notin consumed[s]
  BY <1>3, <1>10 DEF Holds
<1>14. ConsumedIsPast'
  BY <1>5, <1>6, <1>12, <1>13 DEF TokenInv, ConsumedIsPast, SessionExists
<1>15. TokensKept
  BY <1>2, <1>3, <1>5, <1>6, <1>7, <1>8, <1>9 DEF TokensKept, SessionExists
<1> QED BY <1>11, <1>14, <1>15 DEF TokenInv

\* Every step.
LEMMA NextTokens ==
    ASSUME TokenInv, [Next]_vars
    PROVE  TokenInv' /\ TokensKept /\ NoneReturns
<1>1. TypeOK /\ TypeOK'
  BY NextType DEF TokenInv
<1> QED BY <1>1, NextSessions, NextReturnsNone, RevokesTokens, OpensTokens, ExchangesTokens
        DEF SessionStep

\* A token that is turned away stays so, and none of its sessions consumes it any more.
LEMMA TurnedAwayStays ==
    ASSUME TokenInv, TokenInv', TokensKept, NoneReturns, NEW t \in Token, TurnedAway(t)
    PROVE  /\ TurnedAway(t)'
           /\ \A s \in Session : t \in consumed'[s] => t \in consumed[s]
<1>1. t \in StoredTokens'
  <2>1. PICK s \in Session : Holds(s, t)
    BY StoredIsHeld DEF TokenInv, TurnedAway
  <2>2. Holds(s, t)'
    BY <2>1 DEF TokensKept
  <2> QED BY <2>2 DEF StoredTokens, Holds
<1>2. ASSUME NEW s \in Session, SessionExists(s)', sessions'[s].token = t
      PROVE  ~Usable(s)'
  <2>1. SessionExists(s) /\ sessions[s].token = t
    BY <1>2 DEF TokensKept, TurnedAway
  <2> QED BY <2>1 DEF TurnedAway, NoneReturns
<1>3. ASSUME NEW s \in Session, t \in consumed'[s] PROVE t \in consumed[s]
  BY <1>3 DEF TokensKept, TurnedAway, Usable
<1> QED BY <1>1, <1>2, <1>3 DEF TurnedAway

\* A request that waits meanwhile.
LEMMA WaitingKnows ==
    ASSUME RefreshInv, TokenInv', TokensKept, NoneReturns, NEW p \in Request,
           request'[p] = request[p]
    PROVE  Knows(p)'
<1>1. request[p] \in RequestRow
  BY DEF RefreshInv, TokenInv, TypeOK
<1>2. Knows(p)
  BY DEF RefreshInv
<1>3. CASE request[p].pc \in Refreshing \ {"findConsumed"}
  <2>1. request[p].session \in Session /\ request[p].token \in Token
    BY <1>1, <1>3, RequestFields DEF Refreshing, RefreshRow
  <2>2. Holds(request[p].session, request[p].token)'
    BY <1>2, <1>3, <2>1 DEF Knows, TokensKept, Holds, SessionExists
  <2> QED BY <1>3, <2>2 DEF Knows, Refreshing
<1>4. CASE request[p].pc \in {"findConsumed", "refused"}
  <2>1. request[p].token \in Token \cup {None}
    BY <1>1, <1>4 DEF RequestRow, EndedRow, LoginRow, ReplayRow, RefreshRow, BearerRow,
       RevokeRow, UpdateRow, RecoveryRow, IssueRow, ResetRequestRow, Authenticating, Issuing
  <2>2. CASE request[p].token = None
    <3>1. \A s \in Session : None \notin consumed'[s]
      BY DEF TokenInv, TypeOK
    <3> QED BY <1>4, <2>2, <3>1 DEF Knows, Refreshing
  <2>3. CASE request[p].token \in Token
    <3>1. PICK t \in Token : t = request[p].token
      BY <2>3
    <3>2. TurnedAway(t)
      BY <1>2, <1>4, <3>1 DEF Knows
    <3>3. TurnedAway(t)' /\ \A s \in Session : t \in consumed'[s] => t \in consumed[s]
      BY <3>2, TurnedAwayStays DEF RefreshInv
    <3>4. ASSUME request[p].pc = "refused", NEW s \in Session, t \in consumed'[s]
          PROVE  sessions'[s].revoked
      <4>1. t \in consumed[s] /\ sessions[s].revoked
        BY <1>2, <3>1, <3>3, <3>4 DEF Knows
      <4>2. SessionExists(s)
        BY <4>1 DEF RefreshInv, TokenInv, ConsumedIsPast
      <4> QED BY <4>1, <4>2 DEF TokensKept
    <3> QED BY <1>4, <3>1, <3>3, <3>4 DEF Knows, Refreshing
  <2> QED BY <2>1, <2>2, <2>3
<1>5. CASE request[p].pc \notin Refreshing \cup {"refused"}
  BY <1>5 DEF Knows, Refreshing
<1> QED BY <1>3, <1>4, <1>5 DEF Refreshing

\* A refresh.
LEMMA RefreshKnows ==
    ASSUME RefreshInv, NEW r \in Request, Refresh(r), TokenInv', TokensKept, NoneReturns
    PROVE  Knows(r)'
<1> USE DEF storeVars
<1>1. TypeOK /\ TokenInv /\ Knows(r)
  BY DEF RefreshInv, TokenInv
<1>2. ASSUME NEW pc \in Refreshing \ {"findConsumed"}, NEW t \in Token, NEW s \in Session,
             Holds(s, t)',
             /\ request'[r].pc = pc
             /\ request'[r].token = t
             /\ request'[r].session = s
      PROVE  Knows(r)'
  BY <1>2 DEF Knows, Refreshing
<1>3. ASSUME NEW outcome \in Free, Finish(r, outcome) PROVE Knows(r)'
  <2>1. request'[r] = Ended(outcome, None)
    BY <1>1, <1>3, BecomeOne DEF Finish
  <2>2. \A s \in Session : None \notin consumed'[s]
    BY DEF TokenInv, TypeOK
  <2> QED BY <2>1, <2>2 DEF Ended, Knows, Refreshing, Free
<1>4. ASSUME Refuse(r), NEW t \in Token, t = request[r].token, TurnedAway(t)',
             \A s \in Session : t \in consumed'[s] => sessions'[s].revoked
      PROVE  Knows(r)'
  <2>1. request'[r] = Ended("refused", t)
    BY <1>1, <1>4, BecomeOne DEF Refuse
  <2> QED BY <1>4, <2>1 DEF Ended, Knows, Refreshing
<1>5. ASSUME NEW t \in Token, FindValidSession(r, t) PROVE Knows(r)'
  <2>1. ASSUME NEW s \in Session, Usable(s), sessions[s].token = t,
               Become(r, RefreshState("findActiveUser", t, s, 0))
        PROVE  Knows(r)'
    <3>1. request'[r] = RefreshState("findActiveUser", t, s, 0)
      BY <1>1, <2>1, BecomeOne
    <3>2. Holds(s, t)'
      BY <1>5, <2>1 DEF FindValidSession, Holds, Usable, SessionExists
    <3> QED BY <1>2, <3>1, <3>2 DEF RefreshState, Refreshing
  <2>2. ASSUME \A s \in Session : ~(Usable(s) /\ sessions[s].token = t),
               Become(r, [pc |-> "findConsumed", token |-> t])
        PROVE  Knows(r)'
    <3>1. request'[r] = [pc |-> "findConsumed", token |-> t]
      BY <1>1, <2>2, BecomeOne
    <3>2. TurnedAway(t)
      BY <1>5, <2>2 DEF FindValidSession, TurnedAway
    <3>3. TurnedAway(t)'
      BY <1>1, <3>2, TurnedAwayStays
    <3> QED BY <3>1, <3>3 DEF Knows, Refreshing
  <2> QED BY <1>5, <2>1, <2>2 DEF FindValidSession
<1>6. CASE FindConsumed(r)
  <2>1. request[r] \in ReplayRow
    BY <1>1, <1>6, RequestFields DEF FindConsumed, At, TypeOK
  <2>2. PICK t \in Token : t = request[r].token
    BY <2>1 DEF ReplayRow
  <2>3. TurnedAway(t)
    BY <1>1, <1>6, <2>2 DEF FindConsumed, At, Knows
  <2>4. ASSUME NEW s \in ConsumedBy(t), Become(r, RefreshState("revokeSession", t, s, 0))
        PROVE  Knows(r)'
    <3>1. s \in Session /\ SessionExists(s) /\ t \in consumed[s]
      BY <1>1, <2>4 DEF ConsumedBy, TokenInv, ConsumedIsPast
    <3>2. request'[r] = RefreshState("revokeSession", t, s, 0)
      BY <1>1, <2>4, BecomeOne
    <3>3. Holds(s, t)'
      BY <3>1 DEF TokensKept, Holds
    <3> QED BY <1>2, <3>1, <3>2, <3>3 DEF RefreshState, Refreshing
  <2>5. ASSUME ConsumedBy(t) = {}, Refuse(r) PROVE Knows(r)'
    <3>1. TurnedAway(t)' /\ \A s \in Session : t \in consumed'[s] => t \in consumed[s]
      BY <1>1, <2>3, TurnedAwayStays
    <3>2. ASSUME NEW s \in Session, t \in consumed[s] PROVE sessions'[s].revoked
      <4>1. SessionExists(s) /\ sessions[s].revoked
        BY <1>1, <2>5, <3>2 DEF ConsumedBy, TokenInv, ConsumedIsPast
      <4> QED BY <4>1 DEF TokensKept
    <3> QED BY <1>4, <2>2, <2>5, <3>1, <3>2
  <2> QED BY <1>6, <2>2, <2>4, <2>5 DEF FindConsumed
<1>7. ASSUME At(r, "findActiveUser") \/ At(r, "rotateSession") \/ At(r, "revokeSession")
      PROVE  /\ request[r] \in RefreshRow
             /\ request[r].session \in Session
             /\ request[r].token \in Token
             /\ Holds(request[r].session, request[r].token)
  <2>1. request[r] \in RefreshRow
    BY <1>1, <1>7, RequestFields DEF At, TypeOK
  <2>2. Holds(request[r].session, request[r].token)
    BY <1>1, <1>7 DEF At, Knows, Refreshing
  <2> QED BY <2>1, <2>2 DEF RefreshRow
<1>8. ASSUME Holds(request[r].session, request[r].token), request[r] \in RefreshRow,
             NEW pc \in Refreshing \ {"findConsumed"}, Goto(r, pc)
      PROVE  Knows(r)'
  <2>1. PICK s \in Session, t \in Token : s = request[r].session /\ t = request[r].token
    BY <1>8 DEF RefreshRow
  <2>2. Holds(s, t)'
    BY <1>8, <2>1 DEF TokensKept
  <2>3. request'[r] = [request[r] EXCEPT !.pc = pc]
    BY <1>1, <1>8, BecomeOne DEF Goto
  <2>4. request'[r].pc = pc /\ request'[r].token = t /\ request'[r].session = s
    BY <1>8, <2>1, <2>3 DEF RefreshRow
  <2> QED BY <1>2, <2>2, <2>4
<1>9. CASE FindActiveUser(r)
  <2>1. PICK s \in Session, t \in Token : s = request[r].session /\ t = request[r].token
    BY <1>7, <1>9 DEF FindActiveUser
  <2>2. ASSUME Become(r, RefreshState("rotateSession", t, s, now)) PROVE Knows(r)'
    <3>1. request'[r] = RefreshState("rotateSession", t, s, now)
      BY <1>1, <2>2, BecomeOne
    <3>2. Holds(s, t)'
      BY <1>7, <1>9, <2>1 DEF FindActiveUser, TokensKept
    <3> QED BY <1>2, <3>1, <3>2 DEF RefreshState, Refreshing
  <2> QED BY <1>7, <1>8, <1>9, <2>1, <2>2 DEF FindActiveUser, Refreshing
<1>10. CASE RotateSession(r)
  BY <1>3, <1>7, <1>8, <1>10 DEF RotateSession, Refreshing, Free
<1>11. CASE RevokeSession(r)
  <2>1. PICK s \in Session, t \in Token : s = request[r].session /\ t = request[r].token
    BY <1>7, <1>11 DEF RevokeSession
  <2>2. Holds(s, t) /\ Holds(s, t)'
    BY <1>7, <1>11, <2>1 DEF RevokeSession, TokensKept
  <2>3. sessions'[s].revoked
    <3>1. sessions[s] \in SessionRow /\ sessions'[s] = [sessions[s] EXCEPT !.revoked = TRUE]
      BY <1>1, <1>11, <2>1, <2>2 DEF RevokeSession, SessionRevoked, Holds, SessionExists, TypeOK
    <3> QED BY <3>1, RevokedRow
  <2>4. \A x \in Session : Holds(x, t)' => x = s
    BY <2>2 DEF TokenInv, HeldOnce
  <2>5. TurnedAway(t)'
    <3>1. t \in StoredTokens'
      BY <2>2 DEF StoredTokens, Holds
    <3>2. ASSUME NEW x \in Session, SessionExists(x)', sessions'[x].token = t
          PROVE  ~Usable(x)'
      <4>1. Holds(x, t)'
        BY <3>2 DEF Holds
      <4> QED BY <2>3, <2>4, <4>1 DEF Usable
    <3> QED BY <3>1, <3>2 DEF TurnedAway
  <2>6. ASSUME NEW x \in Session, t \in consumed'[x] PROVE sessions'[x].revoked
    <3>1. Holds(x, t)'
      BY <2>6 DEF TokenInv, ConsumedIsPast, Holds
    <3> QED BY <2>3, <2>4, <3>1
  <2> QED BY <1>4, <1>11, <2>1, <2>5, <2>6 DEF RevokeSession
<1> QED BY <1>5, <1>6, <1>9, <1>10, <1>11 DEF Refresh

\* Every step keeps the invariant.
LEMMA NextRefresh == RefreshInv /\ [Next]_vars => RefreshInv'
<1> SUFFICES ASSUME RefreshInv, [Next]_vars PROVE RefreshInv'
  OBVIOUS
<1>1. TypeOK /\ TokenInv
  BY DEF RefreshInv, TokenInv
<1>2. TokenInv' /\ TokensKept /\ NoneReturns
  BY <1>1, NextTokens
<1>3. \A p \in Request : request'[p] = request[p] => Knows(p)'
  BY <1>2, WaitingKnows
<1>4. ASSUME NEW r \in Request, NEW S, Goes(r, S), S \cap (Refreshing \cup {"refused"}) = {}
      PROVE  \A p \in Request : Knows(p)'
  <2>1. \A s \in Session : None \notin consumed'[s]
    BY <1>2 DEF TokenInv, TypeOK
  <2>2. ASSUME NEW outcome \in Free, request'[r] = Ended(outcome, None) PROVE Knows(r)'
    BY <2>1, <2>2 DEF Knows, Ended, Refreshing, Free
  <2>3. Knows(r)'
    <3>1. CASE request'[r].pc \in S
      <4>1. request'[r].pc \notin Refreshing /\ request'[r].pc # "refused"
        BY <1>4, <3>1
      <4> QED BY <4>1 DEF Knows, Refreshing
    <3> QED BY <1>4, <2>2, <3>1 DEF Goes
  <2> QED BY <1>3, <1>4, <2>3 DEF Goes
<1>5. ASSUME NEW r \in Request, Refresh(r) PROVE \A p \in Request : Knows(p)'
  BY <1>1, <1>2, <1>3, <1>5, RefreshKnows, RefreshGoes DEF Goes
<1>6. /\ {"recordLogin", "createSession"} \cap (Refreshing \cup {"refused"}) = {}
      /\ Authenticating \cap (Refreshing \cup {"refused"}) = {}
      /\ {"revokeForUser"} \cap (Refreshing \cup {"refused"}) = {}
      /\ Updating \cap (Refreshing \cup {"refused"}) = {}
      /\ Recovering \cap (Refreshing \cup {"refused"}) = {}
      /\ {} \cap (Refreshing \cup {"refused"}) = {}
  BY DEF Authenticating, Refreshing, Updating, Recovering, Issuing
<1>7. ASSUME NEW r \in Request, RequestLost(r) PROVE \A p \in Request : Knows(p)'
  <2>1. Goes(r, {})
    BY <1>1, <1>7, Moves DEF RequestLost, Free
  <2> QED BY <1>4, <1>6, <2>1
<1>8. ASSUME NEW r \in Request,
             SignIn(r) \/ Authenticate(r) \/ RevokeAll(r) \/ Administration(r) \/ Recovery(r)
      PROVE  \A p \in Request : Knows(p)'
  BY <1>1, <1>4, <1>6, <1>8, SignInGoes, AuthenticateGoes, RevokeAllGoes, AdministrationGoes,
     RecoveryGoes
<1>9. ASSUME UNCHANGED request PROVE \A p \in Request : Knows(p)'
  BY <1>3, <1>9
<1>10. \A p \in Request : Knows(p)'
  BY <1>5, <1>7, <1>8, <1>9 DEF Next, vars, storeVars, Tick, CreateUser, DeleteUser
<1> QED BY <1>2, <1>10 DEF RefreshInv

\* A refresh that AuthTokenProvider.rotate refuses although its token was exchanged before
\* leaves the session of that token revoked, also when the exchange overtook it.
THEOREM ReplaysRevoke == Spec => []ReplayRevokes
<1>1. Init => RefreshInv
  <2> SUFFICES ASSUME Init PROVE RefreshInv
    OBVIOUS
  <2>1. /\ TypeOK
        /\ \A s \in Session : ~SessionExists(s) /\ consumed[s] = {}
        /\ \A r \in Request : request[r].pc = "idle"
    BY InitType DEF Init, SessionExists, Ended
  <2> QED BY <2>1 DEF RefreshInv, TokenInv, HeldOnce, ConsumedIsPast, Holds, Knows, Refreshing
<1>2. RefreshInv => ReplayRevokes
  BY DEF RefreshInv, Knows, ReplayRevokes, At
<1> QED BY <1>1, <1>2, NextRefresh, PTL DEF Spec

----------------------------------------------------------------------------
(* Reset tokens.  That a user has one unused token is kept by the row lock: *)
(* under it, the tokens that a recovery is about to retire are all there    *)
(* are.  A token in the hands of one recovery is in those of no other, and  *)
(* rows stay with their user, so a token found is a token of who it names.  *)

KeysAreOwn ==
    \A p, q \in Request :
        request[p].pc \in Issuing /\ request[q].pc \in Issuing /\ request[p].key = request[q].key
            => p = q

\* What a recovery knows of its token.
Relies(r) ==
    LET q == request[r] IN
    /\ q.pc = "createResetToken" => /\ resetTokens[q.key] = None
                                    /\ UnusedOf(q.user) \subseteq q.retire
    /\ q.pc \in {"lockForReset", "consumeResetToken"} => /\ resetTokens[q.key] # None
                                                         /\ resetTokens[q.key].user = q.user

ResetInv ==
    /\ SessionInv
    /\ AtMostOneUnusedResetToken
    /\ KeysAreOwn
    /\ \A r \in Request : Relies(r)

\* Tokens are used up, or left alone.
Retires == \A k \in ResetToken : resetTokens'[k] \in {resetTokens[k], MarkedUsed(k)}

\* A step that only retires tokens.
RetireStep ==
    /\ \A k \in ResetToken :
         /\ resetTokens[k] = None => resetTokens'[k] = None
         /\ resetTokens[k] # None => /\ resetTokens'[k] # None
                                     /\ resetTokens'[k].user = resetTokens[k].user
    /\ \A u \in User : UnusedOf(u)' \subseteq UnusedOf(u)

\* A row that is marked used keeps its user.
LEMMA MarkedRow ==
    ASSUME TypeOK, NEW k \in ResetToken, resetTokens[k] # None
    PROVE  /\ MarkedUsed(k) # None
           /\ MarkedUsed(k).used
           /\ MarkedUsed(k).user = resetTokens[k].user
<1>1. resetTokens[k] \in ResetRow
  BY DEF TypeOK
<1>2. MarkedUsed(k) \in ResetRow
  BY <1>1, NoneAssumption DEF MarkedUsed, ResetRow
<1> QED BY <1>1, <1>2, NoneAssumption DEF MarkedUsed, ResetRow

LEMMA RetiresKeeps ==
    ASSUME TypeOK, Retires
    PROVE  RetireStep
<1>1. ASSUME NEW k \in ResetToken
      PROVE  /\ resetTokens[k] = None => resetTokens'[k] = None
             /\ resetTokens[k] # None => /\ resetTokens'[k] # None
                                         /\ resetTokens'[k].user = resetTokens[k].user
                                         /\ resetTokens[k].used => resetTokens'[k].used
  <2>1. CASE resetTokens'[k] = resetTokens[k]
    BY <2>1
  <2>2. CASE resetTokens'[k] = MarkedUsed(k)
    BY <2>2, MarkedRow DEF MarkedUsed
  <2> QED BY <2>1, <2>2 DEF Retires
<1> QED BY <1>1 DEF RetireStep, UnusedOf

\* What a request holds at the steps that matter here.
LEMMA RecoveryFields ==
    ASSUME TypeOK, NEW r \in Request
    PROVE  /\ request[r].pc \in Issuing => request[r] \in IssueRow
           /\ request[r].pc \in {"lockForReset", "consumeResetToken"}
                => request[r] \in ResetRequestRow
BY RequestFields DEF TypeOK

\* A request that waits while tokens are retired.
LEMMA WaitingRelies ==
    ASSUME ResetInv, RetireStep, NEW p \in Request, request'[p] = request[p]
    PROVE  Relies(p)'
<1>1. Relies(p) /\ TypeOK
  BY DEF ResetInv, SessionInv
<1>2. CASE request[p].pc = "createResetToken"
  <2>1. request[p].key \in ResetToken /\ request[p].user \in User
    BY <1>1, <1>2, RecoveryFields DEF Issuing, IssueRow
  <2>2. UnusedOf(request[p].user)' \subseteq UnusedOf(request[p].user)
    <3>1. PICK u \in User : u = request[p].user
      BY <2>1
    <3> QED BY <3>1 DEF RetireStep
  <2> QED BY <1>1, <1>2, <2>1, <2>2 DEF Relies, RetireStep
<1>3. CASE request[p].pc \in {"lockForReset", "consumeResetToken"}
  <2>1. request[p].key \in ResetToken
    BY <1>1, <1>3, RecoveryFields DEF ResetRequestRow
  <2> QED BY <1>1, <1>3, <2>1 DEF Relies, RetireStep
<1> QED BY <1>2, <1>3 DEF Relies

\* One request moves, while tokens are at most retired.
LEMMA RetiringKeeps ==
    ASSUME ResetInv, SessionInv', RetireStep, NEW r \in Request,
           \A p \in Request \ {r} : request'[p] = request[p],
           Relies(r)',
           request'[r].pc \in Issuing =>
               \A p \in Request \ {r} :
                   request[p].pc \in Issuing => request[p].key # request'[r].key
    PROVE  ResetInv'
<1>1. AtMostOneUnusedResetToken'
  BY DEF ResetInv, AtMostOneUnusedResetToken, RetireStep
<1>2. KeysAreOwn'
  BY DEF ResetInv, KeysAreOwn
<1>3. \A p \in Request : Relies(p)'
  BY WaitingRelies
<1> QED BY <1>1, <1>2, <1>3 DEF ResetInv

\* One request moves to a step that relies on no token.
LEMMA ElsewhereKeeps ==
    ASSUME ResetInv, SessionInv', RetireStep, NEW r \in Request, NEW S, Goes(r, S),
           S \cap (Issuing \cup {"lockForReset", "consumeResetToken"}) = {}
    PROVE  ResetInv'
<1>1. request'[r].pc \notin Issuing \cup {"lockForReset", "consumeResetToken"}
  <2>1. \A outcome \in Free :
          Ended(outcome, None).pc \notin Issuing \cup {"lockForReset", "consumeResetToken"}
    BY DEF Ended, Free, Issuing
  <2> QED BY <2>1 DEF Goes
<1>2. Relies(r)'
  BY <1>1 DEF Relies, Issuing
<1> QED BY <1>1, <1>2, RetiringKeeps DEF Goes

\* replacePasswordResetToken has the lock and knows every unused token of the user.
LEMMA LockForReplaceKeeps ==
    ASSUME ResetInv, SessionInv', RetireStep, NEW r \in Request, LockForReplace(r)
    PROVE  ResetInv'
<1> USE DEF storeVars
<1>1. TypeOK
  BY DEF ResetInv, SessionInv
<1>2. PICK k \in FreshKeys : \E issuedAt :
        Become(r, IssueState(request[r].user, k, issuedAt, UnusedOf(request[r].user)))
  BY DEF LockForReplace
<1>3. PICK u : u = request[r].user
  OBVIOUS
<1>4. /\ request'[r].pc = "createResetToken"
      /\ request'[r].user = u
      /\ request'[r].key = k
      /\ request'[r].retire = UnusedOf(u)
      /\ \A p \in Request \ {r} : request'[p] = request[p]
  BY <1>1, <1>2, <1>3, BecomeOne DEF IssueState
<1>5. /\ resetTokens' = resetTokens /\ UnusedOf(u)' = UnusedOf(u)
      /\ resetTokens[k] = None
      /\ \A p \in Request : request[p].pc \in Issuing => request[p].key # k
  BY <1>2 DEF LockForReplace, FreshKeys, UnusedOf
<1>6. Relies(r)'
  BY <1>4, <1>5 DEF Relies
<1> QED BY <1>4, <1>5, <1>6, RetiringKeeps

\* It retires them and stores its own, which is then the only one.
LEMMA CreateResetTokenKeeps ==
    ASSUME ResetInv, SessionInv', NEW r \in Request, CreateResetToken(r)
    PROVE  ResetInv'
<1>1. TypeOK /\ request[r] \in IssueRow
  BY RecoveryFields DEF ResetInv, SessionInv, CreateResetToken, At, Issuing
<1>2. PICK u \in User, k \in ResetToken, R \in {request[r].retire} :
        u = request[r].user /\ k = request[r].key
  BY <1>1 DEF IssueRow
<1>3. resetTokens[k] = None /\ UnusedOf(u) \subseteq R
  BY <1>2 DEF ResetInv, Relies, CreateResetToken, At
<1>4. /\ request'[r].pc = "enqueueMail" /\ request'[r].key = k
      /\ \A p \in Request \ {r} : request'[p] = request[p]
  <2>1. request'[r] = [request[r] EXCEPT !.pc = "enqueueMail"]
    BY <1>1, BecomeOne DEF CreateResetToken, Goto
  <2> QED BY <1>1, <1>2, <2>1, BecomeOne DEF CreateResetToken, Goto, IssueRow
<1>5. Relies(r)'
  BY <1>4 DEF Relies
<1>6. \A p \in Request \ {r} : request[p].pc \in Issuing => request[p].key # k
  BY <1>2 DEF ResetInv, KeysAreOwn, CreateResetToken, At, Issuing
<1>7. CASE resetTokens' = resetTokens
  <2>1. RetireStep
    BY <1>7 DEF RetireStep, UnusedOf
  <2> QED BY <1>4, <1>5, <1>6, <2>1, RetiringKeeps
<1>8. CASE resetTokens' = Replaced(R, k, u, request[r].clock)
  <2>1. /\ resetTokens'[k] # None /\ resetTokens'[k].user = u
        /\ \A x \in ResetToken \ {k} :
             /\ x \in R => resetTokens'[x] = MarkedUsed(x)
             /\ x \notin R => resetTokens'[x] = resetTokens[x]
    <3>1. [user |-> u, expiresAt |-> request[r].clock + ResetTtl, used |-> FALSE] \in ResetRow
      BY <1>1 DEF ResetRow, IssueRow
    <3> QED BY <1>8, <3>1, NoneAssumption DEF Replaced
  <2>2. ASSUME NEW x \in ResetToken \ {k}
        PROVE  /\ resetTokens[x] = None => resetTokens'[x] = None
               /\ resetTokens[x] # None => /\ resetTokens'[x] # None
                                           /\ resetTokens'[x].user = resetTokens[x].user
                                           /\ x \in R \/ resetTokens[x].used => resetTokens'[x].used
    BY <1>1, <2>1, MarkedRow DEF MarkedUsed
  <2>3. UnusedOf(u)' \subseteq {k}
    BY <1>3, <2>2 DEF UnusedOf
  <2>4. \A v \in User \ {u} : UnusedOf(v)' \subseteq UnusedOf(v)
    BY <2>1, <2>2 DEF UnusedOf
  <2>5. AtMostOneUnusedResetToken'
    BY <2>3, <2>4 DEF ResetInv, AtMostOneUnusedResetToken
  <2>6. KeysAreOwn'
    BY <1>4, <1>6 DEF ResetInv, KeysAreOwn
  <2>7. ASSUME NEW p \in Request \ {r} PROVE Relies(p)'
    <3>1. request'[p] = request[p] /\ Relies(p)
      BY <1>4 DEF ResetInv
    <3>2. CASE request[p].pc = "createResetToken"
      <4>1. PICK v \in User, j \in ResetToken : v = request[p].user /\ j = request[p].key
        BY <1>1, <3>2, RecoveryFields DEF Issuing, IssueRow
      <4>2. v # u
        BY <1>2, <3>2, <4>1
           DEF ResetInv, SessionInv, LocksAreExclusive, Holding, CreateResetToken, At
      <4>3. j # k
        BY <1>6, <3>2, <4>1 DEF Issuing
      <4>4. resetTokens'[j] = None
        BY <2>2, <3>1, <3>2, <4>1, <4>3 DEF Relies
      <4>5. UnusedOf(v)' \subseteq request[p].retire
        BY <2>4, <3>1, <3>2, <4>1, <4>2 DEF Relies
      <4> QED BY <3>1, <3>2, <4>1, <4>4, <4>5 DEF Relies
    <3>3. CASE request[p].pc \in {"lockForReset", "consumeResetToken"}
      <4>1. request[p].key \in ResetToken \ {k}
        BY <1>1, <1>3, <3>1, <3>3, RecoveryFields DEF ResetRequestRow, Relies
      <4> QED BY <2>2, <3>1, <3>3, <4>1 DEF Relies
    <3> QED BY <3>1, <3>2, <3>3 DEF Relies
  <2> QED BY <1>5, <2>5, <2>6, <2>7 DEF ResetInv
<1> QED BY <1>2, <1>7, <1>8 DEF CreateResetToken

\* The mail, the use of a token, and what ends them.
LEMMA UsingKeeps ==
    ASSUME ResetInv, SessionInv', RetireStep, NEW r \in Request,
           \/ EnqueueMail(r) \/ RetireUndelivered(r)
           \/ \E k \in ResetToken : FindCandidate(r, k)
           \/ LockForReset(r) \/ ConsumeResetToken(r)
    PROVE  ResetInv'
<1> USE DEF storeVars
<1>1. TypeOK /\ Relies(r)
  BY DEF ResetInv, SessionInv
<1>2. ASSUME NEW outcome \in Free, Finish(r, outcome) PROVE ResetInv'
  <2>1. Goes(r, {})
    BY <1>1, <1>2, Moves
  <2> QED BY <2>1, ElsewhereKeeps
<1>3. CASE Goto(r, "retireUndelivered") /\ EnqueueMail(r)
  <2>1. request[r] \in IssueRow
    BY <1>1, <1>3, RecoveryFields DEF EnqueueMail, At, Issuing
  <2>2. request'[r] = [request[r] EXCEPT !.pc = "retireUndelivered"]
        /\ \A p \in Request \ {r} : request'[p] = request[p]
    BY <1>1, <1>3, BecomeOne DEF Goto
  <2>3. request'[r].pc = "retireUndelivered" /\ request'[r].key = request[r].key
    BY <2>1, <2>2 DEF IssueRow
  <2>4. \A p \in Request \ {r} : request[p].pc \in Issuing => request[p].key # request[r].key
    BY <1>3 DEF ResetInv, KeysAreOwn, EnqueueMail, At, Issuing
  <2>5. Relies(r)'
    BY <2>3 DEF Relies
  <2> QED BY <2>2, <2>3, <2>4, <2>5, RetiringKeeps
<1>4. ASSUME NEW k \in ResetToken, FindCandidate(r, k) PROVE ResetInv'
  <2> DEFINE row == [pc |-> "lockForReset", user |-> resetTokens[k].user, key |-> k]
  <2>1. /\ row.pc = "lockForReset" /\ row.key = k /\ row.user = resetTokens[k].user
        /\ Become(r, row) /\ resetTokens' = resetTokens /\ resetTokens[k] # None
    BY <1>4 DEF FindCandidate
  <2> HIDE DEF row
  <2>2. request'[r] = row /\ \A p \in Request \ {r} : request'[p] = request[p]
    BY <1>1, <2>1, BecomeOne
  <2>3. Relies(r)'
    BY <2>1, <2>2 DEF Relies
  <2> QED BY <2>1, <2>2, <2>3, RetiringKeeps DEF Issuing
<1>5. CASE Goto(r, "consumeResetToken") /\ LockForReset(r)
  <2>1. request[r] \in ResetRequestRow
    BY <1>1, <1>5, RecoveryFields DEF LockForReset, At
  <2>2. request'[r] = [request[r] EXCEPT !.pc = "consumeResetToken"]
        /\ \A p \in Request \ {r} : request'[p] = request[p]
    BY <1>1, <1>5, BecomeOne DEF Goto
  <2>3. /\ request'[r].pc = "consumeResetToken"
        /\ request'[r].key = request[r].key /\ request'[r].user = request[r].user
    BY <2>1, <2>2 DEF ResetRequestRow
  <2>4. Relies(r)'
    BY <1>1, <1>5, <2>3 DEF Relies, LockForReset, At
  <2> QED BY <2>2, <2>3, <2>4, RetiringKeeps DEF Issuing
<1> QED BY <1>2, <1>3, <1>4, <1>5
        DEF EnqueueMail, RetireUndelivered, LockForReset, ConsumeResetToken, Free

\* Who stores no token, retires some at most.
LEMMA NextRetires ==
    ASSUME TypeOK, [Next]_vars, \A r \in Request : ~CreateResetToken(r)
    PROVE  RetireStep
<1> USE DEF storeVars
<1>1. ASSUME UNCHANGED resetTokens PROVE RetireStep
  BY <1>1 DEF RetireStep, UnusedOf
<1>2. ASSUME NEW r \in Request, SignIn(r) \/ Refresh(r) \/ Authenticate(r)
      PROVE  UNCHANGED resetTokens
  BY <1>2 DEF SignIn, FindCredentials, RecordLogin, CreateSession, Refresh, FindValidSession,
     FindConsumed, FindActiveUser, RotateSession, RevokeSession, Authenticate,
     PresentAccessToken, IsSessionActive, FindUser, FindActor, Lookup, Answer, Logout
<1>3. ASSUME NEW r \in Request, RevokeAll(r) \/ Administration(r)
      PROVE  UNCHANGED resetTokens
  BY <1>3 DEF RevokeAll, LockForRevoke, RevokeForUser, Administration, BeginUpdate,
     LockForUpdate, CommitUpdate
<1>4. ASSUME NEW r \in Request, RetireUndelivered(r) PROVE RetireStep
  <2>1. Retires
    BY <1>4 DEF RetireUndelivered, Retires, TypeOK
  <2> QED BY <2>1, RetiresKeeps
<1>5. ASSUME NEW r \in Request, ConsumeResetToken(r) PROVE RetireStep
  <2>1. Retires \/ UNCHANGED resetTokens
    BY <1>5 DEF ConsumeResetToken, Retires
  <2> QED BY <1>1, <2>1, RetiresKeeps
<1>6. ASSUME NEW r \in Request, Recovery(r) PROVE RetireStep
  BY <1>1, <1>4, <1>5, <1>6 DEF Recovery, FindActiveCredentials, ProvisionContactUser,
     RepeatGrant, InitiateSetup, LockForReplace, EnqueueMail, FindCandidate, LockForReset
<1> QED BY <1>1, <1>2, <1>3, <1>6 DEF Next, vars, Tick, CreateUser, DeleteUser, RequestLost

\* Every step keeps the invariant.
LEMMA NextReset == ResetInv /\ [Next]_vars => ResetInv'
<1> SUFFICES ASSUME ResetInv, [Next]_vars PROVE ResetInv'
  OBVIOUS
<1>1. TypeOK /\ SessionInv /\ SessionInv'
  BY NextSession DEF ResetInv, SessionInv
<1>2. ASSUME NEW r \in Request, CreateResetToken(r) PROVE ResetInv'
  BY <1>1, <1>2, CreateResetTokenKeeps
<1>3. SUFFICES ASSUME RetireStep PROVE ResetInv'
  BY <1>1, <1>2, NextRetires
<1>4. ASSUME UNCHANGED request PROVE ResetInv'
  <2>1. AtMostOneUnusedResetToken'
    BY <1>3 DEF ResetInv, AtMostOneUnusedResetToken, RetireStep
  <2>2. KeysAreOwn'
    BY <1>4 DEF ResetInv, KeysAreOwn
  <2>3. \A p \in Request : Relies(p)'
    BY <1>3, <1>4, WaitingRelies
  <2> QED BY <1>1, <2>1, <2>2, <2>3 DEF ResetInv
<1>5. ASSUME NEW r \in Request, Recovery(r) PROVE ResetInv'
  <2>1. ASSUME \/ \E u \in User : FindActiveCredentials(r, u) \/ ProvisionContactUser(r, u)
                                    \/ RepeatGrant(r, u)
               \/ InitiateSetup(r)
        PROVE  ResetInv'
    <3>1. Goes(r, {"initiateSetup", "lockForReplace"})
      BY <1>1, <2>1, LookupGoes
    <3> QED BY <1>1, <1>3, <3>1, ElsewhereKeeps DEF Issuing
  <2> QED BY <1>1, <1>2, <1>3, <1>5, <2>1, LockForReplaceKeeps, UsingKeeps DEF Recovery
<1>6. /\ {"recordLogin", "createSession"} \cap (Issuing \cup {"lockForReset", "consumeResetToken"}) = {}
      /\ (Refreshing \cup {"refused"}) \cap (Issuing \cup {"lockForReset", "consumeResetToken"}) = {}
      /\ Authenticating \cap (Issuing \cup {"lockForReset", "consumeResetToken"}) = {}
      /\ {"revokeForUser"} \cap (Issuing \cup {"lockForReset", "consumeResetToken"}) = {}
      /\ Updating \cap (Issuing \cup {"lockForReset", "consumeResetToken"}) = {}
      /\ {} \cap (Issuing \cup {"lockForReset", "consumeResetToken"}) = {}
  BY DEF Authenticating, Refreshing, Updating, Issuing
<1>7. ASSUME NEW r \in Request,
             \/ SignIn(r) \/ Refresh(r) \/ Authenticate(r) \/ RevokeAll(r)
             \/ Administration(r) \/ RequestLost(r)
      PROVE  ResetInv'
  <2>1. CASE RequestLost(r)
    <3>1. Goes(r, {})
      BY <1>1, <2>1, Moves DEF RequestLost, Free
    <3> QED BY <1>1, <1>3, <1>6, <3>1, ElsewhereKeeps
  <2> QED BY <1>1, <1>3, <1>6, <1>7, <2>1, ElsewhereKeeps, SignInGoes, RefreshGoes,
             AuthenticateGoes, RevokeAllGoes, AdministrationGoes
<1> QED BY <1>4, <1>5, <1>7 DEF Next, vars, storeVars, Tick, CreateUser, DeleteUser

LEMMA ResetInvariant == Spec => []ResetInv
<1>1. Init => ResetInv
  <2> SUFFICES ASSUME Init PROVE ResetInv
    OBVIOUS
  <2>1. /\ \A k \in ResetToken : resetTokens[k] = None
        /\ \A r \in Request : request[r].pc = "idle"
    BY DEF Init, Ended
  <2> QED BY <2>1, InitSession
          DEF ResetInv, AtMostOneUnusedResetToken, UnusedOf, KeysAreOwn, Relies, Issuing
<1> QED BY <1>1, NextReset, PTL DEF Spec

\* However recoveries of one user interleave, and whether the queue takes their mails or
\* not, the lock of replacePasswordResetToken leaves one unused token at most.
THEOREM OneResetToken == Spec => []AtMostOneUnusedResetToken
<1>1. ResetInv => AtMostOneUnusedResetToken
  BY DEF ResetInv
<1> QED BY <1>1, ResetInvariant, PTL

----------------------------------------------------------------------------
(* Password changes.  Who changes a password holds a live token of the user *)
(* or updates the user with all of its sessions in sight: both invariants   *)
(* above say what the commit needs.                                         *)

\* What a change of the password of u comes with.
Authorized(u) ==
    /\ \A s \in Session : SessionExists(s) /\ sessions[s].user = u => sessions'[s].revoked
    /\ \/ \E r \in Request : /\ At(r, "commitUpdate")
                             /\ request[r].user = u
                             /\ "password" \in request[r].change
                             /\ At(r, "granted")'
       \/ /\ \E k \in UnusedOf(u) : resetTokens[k].expiresAt > now
          /\ UnusedOf(u)' = {}

\* The row that an UPDATE leaves of another user, or without a new password.
LEMMA SamePassword ==
    ASSUME TypeOK, NEW v \in User, NEW u \in User, NEW status, NEW setsPassword,
           users' = [users EXCEPT ![v] = Rewritten(v, status, setsPassword)],
           u # v \/ ~setsPassword
    PROVE  users'[u].password = users[u].password
BY DEF TypeOK, Rewritten

\* An administrator's update sees and revokes every live session of the user.
LEMMA CommitUpdateIsAuthorized ==
    ASSUME SessionInv, NEW r \in Request, CommitUpdate(r), NEW u \in User,
           users'[u].password # users[u].password
    PROVE  Authorized(u)
<1>1. TypeOK /\ request[r] \in UpdateRow
  BY RequestFields DEF SessionInv, CommitUpdate, At, TypeOK
<1>2. PICK v \in User, c \in SUBSET Change : v = request[r].user /\ c = request[r].change
  BY <1>1 DEF UpdateRow
<1>3. PICK R : R = IF RevokesSessions(c) THEN RevocableIn(r) ELSE {}
  OBVIOUS
<1>4. /\ users' = [users EXCEPT ![v] = Rewritten(v, StatusAfter(v, c), "password" \in c)]
      /\ sessions' = [s \in Session |-> IF s \in R THEN [sessions[s] EXCEPT !.revoked = TRUE]
                                                   ELSE sessions[s]]
      /\ Finish(r, "granted")
  BY <1>2, <1>3 DEF CommitUpdate
<1>5. u = v /\ "password" \in c
  <2>1. PICK status, sets : /\ status = StatusAfter(v, c)
                           /\ sets = ("password" \in c)
    OBVIOUS
  <2>2. users' = [users EXCEPT ![v] = Rewritten(v, status, sets)]
    BY <1>4, <2>1
  <2>3. ~(u # v \/ ~sets)
    BY <1>1, <2>2, SamePassword
  <2> QED BY <2>1, <2>3
<1>6. R = RevocableIn(r)
  BY <1>3, <1>5 DEF RevokesSessions
<1>7. ASSUME NEW s \in Session, SessionExists(s), sessions[s].user = u
      PROVE  sessions'[s].revoked
  <2>1. sessions[s] \in SessionRow
    BY <1>1, <1>7 DEF SessionExists, TypeOK
  <2>2. CASE s \in R
    BY <1>4, <2>1, <2>2, RevokedRow
  <2>3. CASE s \notin R
    <3>1. sessions[s].revoked
      BY <1>2, <1>5, <1>6, <1>7, <2>3
         DEF SessionInv, SnapshotsSeeLiveSessions, UpdatesAreOrdered, CommitUpdate, At, Updating
    <3> QED BY <1>4, <2>3, <3>1
  <2> QED BY <2>2, <2>3
<1>8. At(r, "commitUpdate") /\ request[r].user = u /\ "password" \in request[r].change
  BY <1>2, <1>5 DEF CommitUpdate
<1>9. At(r, "granted")'
  BY <1>1, <1>4, BecomeOne DEF Finish, Ended, At
<1> QED BY <1>7, <1>8, <1>9 DEF Authorized

\* A reset uses up one live token of the user, and with it all the others.
LEMMA ConsumeResetTokenIsAuthorized ==
    ASSUME ResetInv, NEW r \in Request, ConsumeResetToken(r), NEW u \in User,
           users'[u].password # users[u].password
    PROVE  Authorized(u)
<1>1. TypeOK /\ request[r] \in ResetRequestRow
  BY RecoveryFields DEF ResetInv, SessionInv, ConsumeResetToken, At
<1>2. PICK v \in User, k \in ResetToken : v = request[r].user /\ k = request[r].key
  BY <1>1 DEF ResetRequestRow
<1>3. /\ ResetTokenUsable(k)
      /\ users' = [users EXCEPT ![v] = Rewritten(v, users[v].status, TRUE)]
      /\ resetTokens' = [x \in ResetToken |-> IF x = k \/ x \in UnusedOf(v) THEN MarkedUsed(x)
                                                                            ELSE resetTokens[x]]
      /\ sessions' = AllRevoked(v)
  BY <1>2 DEF ConsumeResetToken
<1>4. u = v
  BY <1>1, <1>3, SamePassword
<1>5. k \in UnusedOf(u) /\ resetTokens[k].expiresAt > now
  BY <1>2, <1>3, <1>4 DEF ResetInv, Relies, ConsumeResetToken, At, ResetTokenUsable, UnusedOf
<1>6. ASSUME NEW x \in ResetToken PROVE x \notin UnusedOf(u)'
  <2>1. CASE x \in UnusedOf(u)
    <3>1. resetTokens'[x] = MarkedUsed(x) /\ resetTokens[x] # None
      BY <1>3, <1>4, <2>1 DEF UnusedOf
    <3>2. resetTokens'[x].used
      BY <1>1, <3>1, MarkedRow
    <3> QED BY <3>2 DEF UnusedOf
  <2>2. CASE x \notin UnusedOf(u)
    <3>1. resetTokens'[x] = resetTokens[x]
      BY <1>3, <1>4, <1>5, <2>2
    <3> QED BY <2>2, <3>1 DEF UnusedOf
  <2> QED BY <2>1, <2>2
<1>7. UnusedOf(u)' = {}
  BY <1>6 DEF UnusedOf
<1>8. ASSUME NEW s \in Session, SessionExists(s), sessions[s].user = u
      PROVE  sessions'[s].revoked
  <2>1. sessions[s] \in SessionRow /\ sessions'[s] = [sessions[s] EXCEPT !.revoked = TRUE]
    BY <1>1, <1>3, <1>4, <1>8 DEF SessionExists, TypeOK, AllRevoked
  <2> QED BY <2>1, RevokedRow
<1> QED BY <1>5, <1>7, <1>8 DEF Authorized

\* No other step changes the password of a user that exists.
LEMMA NextIsAuthorized ==
    ASSUME ResetInv, Next, NEW u \in User, Exists(u), users'[u].password # users[u].password
    PROVE  Authorized(u)
<1> USE DEF storeVars
<1>1. TypeOK /\ SessionInv
  BY DEF ResetInv, SessionInv
<1>2. users' # users
  OBVIOUS
<1>3. ASSUME NEW v \in User, CreateUser(v) \/ DeleteUser(v) PROVE FALSE
  <2>1. CASE CreateUser(v)
    BY <1>1, <2>1, SamePassword DEF CreateUser, Exists
  <2>2. CASE DeleteUser(v)
    BY <1>1, <2>2, SamePassword DEF DeleteUser
  <2> QED BY <1>3, <2>1, <2>2
<1>4. ASSUME NEW r \in Request, SignIn(r) PROVE FALSE
  <2>1. CASE CreateSession(r)
    <3>1. PICK v \in User : v = request[r].user
      BY <1>1, <2>1, RequestFields DEF CreateSession, At, TypeOK, LoginRow
    <3>2. users' = [users EXCEPT ![v] = Rewritten(v, users[v].status, FALSE)]
      BY <2>1, <3>1 DEF CreateSession
    <3> QED BY <1>1, <3>2, SamePassword
  <2> QED BY <1>2, <1>4, <2>1 DEF SignIn, FindCredentials, RecordLogin
<1>5. ASSUME NEW r \in Request, Refresh(r) \/ Authenticate(r) \/ RevokeAll(r) \/ RequestLost(r)
      PROVE  FALSE
  BY <1>2, <1>5 DEF Refresh, FindValidSession, FindConsumed, FindActiveUser, RotateSession,
     RevokeSession, Authenticate, PresentAccessToken, IsSessionActive, FindUser, FindActor,
     Lookup, Answer, Logout, RevokeAll, LockForRevoke, RevokeForUser, RequestLost
<1>6. ASSUME NEW r \in Request, Administration(r) PROVE Authorized(u)
  BY <1>1, <1>2, <1>6, CommitUpdateIsAuthorized DEF Administration, BeginUpdate, LockForUpdate
<1>7. ASSUME NEW r \in Request, Recovery(r) PROVE Authorized(u)
  <2>1. ASSUME NEW v \in User, ProvisionContactUser(r, v) PROVE FALSE
    BY <1>1, <2>1, SamePassword DEF ProvisionContactUser
  <2>2. CASE ConsumeResetToken(r)
    BY <2>2, ConsumeResetTokenIsAuthorized
  <2> QED BY <1>2, <1>7, <2>1, <2>2 DEF Recovery, FindActiveCredentials, RepeatGrant,
             InitiateSetup, LockForReplace, CreateResetToken, EnqueueMail, RetireUndelivered,
             FindCandidate, LockForReset
<1> QED BY <1>2, <1>3, <1>4, <1>5, <1>6, <1>7 DEF Next, Tick

\* The password of a login changes only in CommitUpdate or with a live token of its own in
\* ConsumeResetToken, and no session of the user, nor after a reset a token, outlives that.
THEOREM PasswordsAreGuarded == Spec => PasswordChangeIsAuthorized
<1> DEFINE Guarded == \A u \in User : Exists(u) /\ users'[u].password # users[u].password
                                        => Authorized(u)
<1>1. ResetInv /\ [Next]_vars => [Guarded]_vars
  BY NextIsAuthorized
<1> QED BY <1>1, ResetInvariant, PTL DEF Spec, PasswordChangeIsAuthorized, Guarded, Authorized

=============================================================================
