--------------------------- MODULE IdentityStore ---------------------------
(***************************************************************************)
(* The tables the identity handlers share (users, auth_sessions with its   *)
(* consumed refresh tokens, password_reset_tokens), the mail queue, the    *)
(* clock, and the HTTP requests in flight.                                 *)
(*                                                                         *)
(* Every repository call is a PostgreSQL transaction of its own unless a   *)
(* unit of work is already open (UnitOfWorkService.execute), so a request  *)
(* is a record with a program counter that moves from one transaction, or  *)
(* from one statement that waits for the row lock of a user, to the next.  *)
(* A transaction that holds a user's row lock until it commits is two      *)
(* steps, and its writes appear with the second one.                       *)
(***************************************************************************)
EXTENDS Integers, FiniteSets

CONSTANTS
    User,           \* user ids
    Session,        \* session ids (randomUUID)
    Token,          \* refresh tokens (48 random bytes); only their hash is stored
    ResetToken,     \* password reset tokens (48 random bytes)
    Request,        \* slots for concurrent HTTP requests
    None,           \* SQL NULL, or a field that is not in use
    RefreshTtl,     \* jwt.refreshTtlSeconds, in ticks
    AbsoluteTtl,    \* jwt.sessionAbsoluteTtlSeconds, in ticks
    ResetTtl,       \* jwt.passwordResetTtlSeconds, in ticks
    MaxTime,        \* bound: the clock stops here
    MaxWrites       \* bound: committed writes of one user row

\* The lower bounds, and the absolute lifetime at least the refresh lifetime,
\* are those of the environment schema.
ASSUME TtlAssumption ==
    /\ RefreshTtl \in Nat \ {0}
    /\ AbsoluteTtl \in Nat
    /\ RefreshTtl <= AbsoluteTtl
    /\ ResetTtl \in Nat \ {0}

ASSUME BoundAssumption == MaxTime \in Nat /\ MaxWrites \in Nat

VARIABLES
    now,          \* the clock every "new Date()" reads
    users,        \* users[u]: status, password hash (0 is NULL) and row version
    sessions,     \* sessions[s]: the auth_sessions row, or None
    consumed,     \* consumed[s]: auth_session_consumed_refresh_tokens of s
    resetTokens,  \* resetTokens[k]: the password_reset_tokens row, or None
    mailed,       \* reset tokens whose mail was accepted by the mail queue
    request       \* request[r]: what the request in slot r is doing

storeVars == <<users, sessions, consumed, resetTokens, mailed>>
vars == <<now, users, sessions, consumed, resetTokens, mailed, request>>

----------------------------------------------------------------------------
(* Rows.  A bcrypt hash is salted, so every hash stored is a new value: the *)
(* password of a user is the row version that wrote it.  The password of a  *)
(* session is a history field: the hash that the login checked.             *)

UserRow == [status : {"absent", "active", "inactive", "deleted"},
            password : Nat, version : Nat]

SessionRow == [user : User, token : Token, previous : Token \cup {None},
               revoked : BOOLEAN, expiresAt : Nat, absoluteExpiresAt : Nat,
               password : Nat]

ResetRow == [user : User, expiresAt : Nat, used : BOOLEAN]

ASSUME NoneAssumption ==
    None \notin User \cup Session \cup Token \cup ResetToken
                     \cup SessionRow \cup ResetRow

(* Requests.  A request is a record whose pc names the repository call, or  *)
(* the statement after the row lock, that it executes next, with what the   *)
(* handler holds in its local variables at that point.                      *)

Free == {"idle", "refused", "granted"}
Holding == {"createSession", "revokeForUser", "commitUpdate",
            "createResetToken", "consumeResetToken"}

\* The fields UpdateUserDto may carry that matter here: isActive false or
\* true, and a new password.
Change == {"deactivate", "reactivate", "password"}

\* token is a history field: the refresh token a refused refresh presented.
EndedRow == [pc : Free, token : Token \cup {None}]
LoginRow == [pc : {"recordLogin", "createSession"},
             user : User, password : Nat, clock : Nat]
ReplayRow == [pc : {"findConsumed"}, token : Token]
RefreshRow == [pc : {"findActiveUser", "rotateSession", "revokeSession"},
               token : Token, session : Session, clock : Nat]
\* inForce is a history field: whether the session was in force on arrival.
Authenticating == {"isSessionActive", "findUser", "findActor", "admitted"}
BearerRow == [pc : Authenticating, session : Session, inForce : BOOLEAN]
RevokeRow == [pc : {"revokeForUser"}, user : User]
UpdateRow == [pc : {"updateUser", "commitUpdate"},
              user : User, change : SUBSET Change, version : Nat,
              snapshot : [Session -> SessionRow \cup {None}]]
RecoveryRow == [pc : {"initiateSetup", "lockForReplace"},
                user : User, clock : Nat]
Issuing == {"createResetToken", "enqueueMail", "retireUndelivered"}
IssueRow == [pc : Issuing,
             user : User, key : ResetToken, clock : Nat,
             retire : SUBSET ResetToken]
ResetRequestRow == [pc : {"lockForReset", "consumeResetToken"},
                    user : User, key : ResetToken]

RequestRow == EndedRow \cup LoginRow \cup ReplayRow \cup RefreshRow
                \cup BearerRow \cup RevokeRow \cup UpdateRow \cup RecoveryRow
                \cup IssueRow \cup ResetRequestRow

Ended(outcome, token) == [pc |-> outcome, token |-> token]

IsFree(r) == request[r].pc \in Free
At(r, pc) == request[r].pc = pc

\* The request moves on to the state given, to the step named pc with
\* everything else as it was, or to its end: answered with a success, an error
\* or nothing.
Become(r, row) == request' = [request EXCEPT ![r] = row]
Goto(r, pc) == Become(r, [request[r] EXCEPT !.pc = pc])
Finish(r, outcome) == Become(r, Ended(outcome, None))

----------------------------------------------------------------------------
(* Users *)

Active(u) == users[u].status = "active"
Exists(u) == users[u].status \in {"active", "inactive"}

\* Broken form of RowFree: nobody takes the lock.
RowFree_NoLock(u) == TRUE

\* No open transaction holds the row lock of u (SELECT ... FOR UPDATE or an
\* UPDATE not yet committed).
RowFree(u) ==
    \A r \in Request : ~(request[r].pc \in Holding /\ request[r].user = u)

\* A statement that is about to write the row waits for its lock.
CanLock(u) == RowFree(u) /\ users[u].version < MaxWrites

\* The row as a committed UPDATE leaves it: any change of it is a new version.
Rewritten(u, status, setsPassword) ==
    [status |-> status,
     password |-> IF setsPassword THEN users[u].version + 1
                                  ELSE users[u].password,
     version |-> users[u].version + 1]

----------------------------------------------------------------------------
(* Sessions *)

SessionExists(s) == sessions[s] # None

\* WHERE revokedAt IS NULL AND expiresAt > now AND absoluteExpiresAt > now
Usable(s) ==
    /\ SessionExists(s)
    /\ ~sessions[s].revoked
    /\ sessions[s].expiresAt > now
    /\ sessions[s].absoluteExpiresAt > now

\* Tokens some row of the store names: a new random token is none of them.
StoredTokens ==
    {sessions[s].token : s \in {x \in Session : SessionExists(x)}}
        \cup UNION {consumed[s] : s \in Session}

FreshTokens == Token \ StoredTokens

\* UPDATE auth_sessions SET revoked_at WHERE user_id = u AND revoked_at IS NULL
AllRevoked(u) ==
    [s \in Session |->
        IF SessionExists(s) /\ sessions[s].user = u
        THEN [sessions[s] EXCEPT !.revoked = TRUE]
        ELSE sessions[s]]

----------------------------------------------------------------------------
(* The store before the first user is created. *)
Init ==
    /\ now = 0
    /\ users = [u \in User |->
                  [status |-> "absent", password |-> 0, version |-> 0]]
    /\ sessions = [s \in Session |-> None]
    /\ consumed = [s \in Session |-> {}]
    /\ resetTokens = [k \in ResetToken |-> None]
    /\ mailed = {}
    /\ request = [r \in Request |-> Ended("idle", None)]

\* The clock advances.
Tick ==
    /\ now < MaxTime
    /\ now' = now + 1
    /\ UNCHANGED <<storeVars, request>>

\* The process dies, the connection is lost or the transaction runs into its
\* 15 s timeout: the open transaction rolls back, what was committed stays,
\* and the rest of the handler never runs.
RequestLost(r) ==
    /\ ~IsFree(r)
    /\ Finish(r, "idle")
    /\ UNCHANGED <<now, storeVars>>
=============================================================================
