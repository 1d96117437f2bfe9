---------------------------- MODULE UserAccounts ----------------------------
(***************************************************************************)
(* The administration of user rows: UserMutationProvider, UserRepository.  *)
(* The rule that the last active system administrator stays, which reads   *)
(* the role tables, is the subject of AdminRetention; here an update that  *)
(* it refuses is one that changes nothing.                                 *)
(***************************************************************************)
EXTENDS IdentityStore

\* POST /users hashes a password and inserts the row.
CreateUser(u) ==
    /\ users[u].status = "absent"
    /\ users[u].version < MaxWrites
    /\ users' = [users EXCEPT ![u] = Rewritten(u, "active", TRUE)]
    /\ UNCHANGED <<now, sessions, consumed, resetTokens, mailed, request>>

\* PATCH /users/:id opens a SERIALIZABLE transaction: its first statement
\* fixes the snapshot every later one reads.
BeginUpdate(r, u, c) ==
    /\ IsFree(r)
    /\ Exists(u)
    /\ ~({"deactivate", "reactivate"} \subseteq c)
    /\ Become(r, [pc |-> "updateUser", user |-> u, change |-> c,
                  version |-> users[u].version, snapshot |-> sessions])
    /\ UNCHANGED <<now, storeVars>>

\* A row written since the snapshot fails the UPDATE (40001, mapped to 409).
ChangedSinceSnapshot(r) == users[request[r].user].version # request[r].version

\* The UPDATE of the user row waits for its lock.
LockForUpdate(r) ==
    /\ At(r, "updateUser")
    /\ CanLock(request[r].user)
    /\ IF ChangedSinceSnapshot(r)
       THEN Finish(r, "refused")
       ELSE Goto(r, "commitUpdate")
    /\ UNCHANGED <<now, storeVars>>

\* security.passwordChanged or security.deactivating
RevokesSessions(c) == c \cap {"deactivate", "password"} # {}

\* The sessions the second statement finds: those the snapshot shows unrevoked.
RevocableIn(r) ==
    {s \in Session : /\ request[r].snapshot[s] # None
                     /\ request[r].snapshot[s].user = request[r].user
                     /\ ~request[r].snapshot[s].revoked}

StatusAfter(u, c) ==
    IF "deactivate" \in c THEN "inactive"
    ELSE IF "reactivate" \in c THEN "active"
    ELSE users[u].status

\* The second statement and the commit.  A session row written since the
\* snapshot fails the whole transaction.
CommitUpdate(r) ==
    /\ At(r, "commitUpdate")
    /\ LET u == request[r].user
           c == request[r].change
           revoked == IF RevokesSessions(c) THEN RevocableIn(r) ELSE {}
       IN IF \E s \in revoked : sessions[s] # request[r].snapshot[s]
          THEN /\ Finish(r, "refused")
               /\ UNCHANGED <<users, sessions>>
          ELSE /\ users' = [users EXCEPT ![u] =
                              Rewritten(u, StatusAfter(u, c), "password" \in c)]
               /\ sessions' = [s \in Session |->
                                 IF s \in revoked
                                 THEN [sessions[s] EXCEPT !.revoked = TRUE]
                                 ELSE sessions[s]]
               /\ Finish(r, "granted")
    /\ UNCHANGED <<now, consumed, resetTokens, mailed>>

\* DELETE /users/:id.  The foreign keys of auth_sessions and
\* password_reset_tokens restrict it.
DeleteUser(u) ==
    /\ Exists(u)
    /\ CanLock(u)
    /\ \A s \in Session : SessionExists(s) => sessions[s].user # u
    /\ \A k \in ResetToken : resetTokens[k] # None => resetTokens[k].user # u
    /\ users' = [users EXCEPT ![u] = Rewritten(u, "deleted", FALSE)]
    /\ UNCHANGED <<now, sessions, consumed, resetTokens, mailed, request>>
=============================================================================
