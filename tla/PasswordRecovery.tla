-------------------------- MODULE PasswordRecovery --------------------------
(***************************************************************************)
(* Forgotten passwords and the first password of a client contact:         *)
(* AuthPasswordResetProvider, PasswordRecoveryRepository, and the part of  *)
(* the client portal that provisions a login and initiates its set-up.     *)
(***************************************************************************)
EXTENDS IdentityStore

\* WHERE email AND isActive AND passwordHash IS NOT NULL
HasActiveCredentials(u) == Active(u) /\ users[u].password # 0

RecoveryState(pc, u, clock) == [pc |-> pc, user |-> u, clock |-> clock]

\* POST /auth/forgot-password.
FindActiveCredentials(r, u) ==
    /\ IsFree(r)
    /\ HasActiveCredentials(u)
    /\ Become(r, RecoveryState("lockForReplace", u, now))
    /\ UNCHANGED <<now, storeVars>>

\* establishPortalAccess inserts a login without a password; when its
\* transaction has committed, the service initiates the set-up.
ProvisionContactUser(r, u) ==
    /\ IsFree(r)
    /\ users[u].status = "absent"
    /\ users[u].version < MaxWrites
    /\ users' = [users EXCEPT ![u] = Rewritten(u, "active", FALSE)]
    /\ Become(r, RecoveryState("initiateSetup", u, 0))
    /\ UNCHANGED <<now, sessions, consumed, resetTokens, mailed>>

\* A grant repeated for a login that has no password yet asks for the set-up
\* again; establishPortalAccess waits for the row lock meanwhile.
RepeatGrant(r, u) ==
    /\ IsFree(r)
    /\ Exists(u)
    /\ users[u].password = 0
    /\ RowFree(u)
    /\ Become(r, RecoveryState("initiateSetup", u, 0))
    /\ UNCHANGED <<now, storeVars>>

\* initiate is request: it starts with the same lookup, and a lookup that
\* finds nobody ends it in silence.
InitiateSetup(r) ==
    /\ At(r, "initiateSetup")
    /\ IF HasActiveCredentials(request[r].user)
       THEN Become(r, RecoveryState("lockForReplace", request[r].user, now))
       ELSE Finish(r, "granted")
    /\ UNCHANGED <<now, storeVars>>

----------------------------------------------------------------------------
(* Issuing a token *)

UnusedOf(u) ==
    {k \in ResetToken : /\ resetTokens[k] # None
                        /\ resetTokens[k].user = u
                        /\ ~resetTokens[k].used}

\* UPDATE password_reset_tokens SET used_at WHERE used_at IS NULL, on one row.
MarkedUsed(k) ==
    IF resetTokens[k] = None THEN None
    ELSE [resetTokens[k] EXCEPT !.used = TRUE]

\* A new random token: not stored, not mailed, not in the hands of a request.
FreshKeys ==
    {k \in ResetToken : /\ resetTokens[k] = None
                        /\ k \notin mailed
                        /\ \A r \in Request :
                             request[r].pc \in Issuing => request[r].key # k}

IssueState(u, k, issuedAt, retired) ==
    [pc |-> "createResetToken", user |-> u, key |-> k, clock |-> issuedAt,
     retire |-> retired]

\* Broken form of LockForReplace: the statements run without the row lock.
LockForReplace_NoLock(r) ==
    /\ At(r, "lockForReplace")
    /\ \E k \in FreshKeys, issuedAt \in request[r].clock .. now :
         Become(r, IssueState(request[r].user, k, issuedAt,
                              UnusedOf(request[r].user)))
    /\ UNCHANGED <<now, storeVars>>

\* replacePasswordResetToken locks the user row, and its next statement finds
\* the tokens to retire.
LockForReplace(r) ==
    /\ At(r, "lockForReplace")
    /\ RowFree(request[r].user)
    /\ \E k \in FreshKeys, issuedAt \in request[r].clock .. now :
         Become(r, IssueState(request[r].user, k, issuedAt,
                              UnusedOf(request[r].user)))
    /\ UNCHANGED <<now, storeVars>>

\* The tokens after the ones of "retired" are used and k is inserted for u.
Replaced(retired, k, u, issuedAt) ==
    [x \in ResetToken |->
        IF x = k
        THEN [user |-> u, expiresAt |-> issuedAt + ResetTtl, used |-> FALSE]
        ELSE IF x \in retired
        THEN MarkedUsed(x)
        ELSE resetTokens[x]]

\* The transaction commits.  For a user deactivated meanwhile it wrote
\* nothing, and the caller goes on all the same.
CreateResetToken(r) ==
    /\ At(r, "createResetToken")
    /\ resetTokens' =
         IF Active(request[r].user)
         THEN Replaced(request[r].retire, request[r].key, request[r].user,
                       request[r].clock)
         ELSE resetTokens
    /\ Goto(r, "enqueueMail")
    /\ UNCHANGED <<now, users, sessions, consumed, mailed>>

\* The queue takes the mail, or the call fails, even if the queue has taken it.
EnqueueMail(r) ==
    /\ At(r, "enqueueMail")
    /\ \/ /\ mailed' = mailed \cup {request[r].key}
          /\ Finish(r, "granted")
       \/ /\ mailed' \in {mailed, mailed \cup {request[r].key}}
          /\ Goto(r, "retireUndelivered")
    /\ UNCHANGED <<now, users, sessions, consumed, resetTokens>>

\* retireUndeliveredToken; the caller answers as if nothing had happened.
RetireUndelivered(r) ==
    /\ At(r, "retireUndelivered")
    /\ resetTokens' = [resetTokens EXCEPT ![request[r].key] =
                          MarkedUsed(request[r].key)]
    /\ Finish(r, "granted")
    /\ UNCHANGED <<now, users, sessions, consumed, mailed>>

----------------------------------------------------------------------------
(* Using a token *)

\* POST /auth/reset-password with the token of a mail: the candidate row
\* names the user to lock.
FindCandidate(r, k) ==
    /\ IsFree(r)
    /\ k \in mailed
    /\ resetTokens[k] # None
    /\ Become(r, [pc |-> "lockForReset", user |-> resetTokens[k].user, key |-> k])
    /\ UNCHANGED <<now, storeVars>>

\* Broken form of ResetTokenUsable: only the expiry is checked.
ResetTokenUsable_Replay(k) == resetTokens[k].expiresAt > now

\* WHERE usedAt IS NULL AND expiresAt > now
ResetTokenUsable(k) == ~resetTokens[k].used /\ resetTokens[k].expiresAt > now

\* Under the lock the token is looked up again, with its user.
LockForReset(r) ==
    /\ At(r, "lockForReset")
    /\ CanLock(request[r].user)
    /\ IF ResetTokenUsable(request[r].key) /\ Active(request[r].user)
       THEN Goto(r, "consumeResetToken")
       ELSE Finish(r, "refused")
    /\ UNCHANGED <<now, storeVars>>

\* The token is consumed, the password set, the other tokens retired and
\* every session revoked; a token that expired meanwhile changes nothing.
ConsumeResetToken(r) ==
    /\ At(r, "consumeResetToken")
    /\ LET u == request[r].user
           k == request[r].key
       IN IF ResetTokenUsable(k)
          THEN /\ users' = [users EXCEPT ![u] =
                              Rewritten(u, users[u].status, TRUE)]
               /\ resetTokens' =
                    [x \in ResetToken |->
                       IF x = k \/ x \in UnusedOf(u) THEN MarkedUsed(x)
                                                     ELSE resetTokens[x]]
               /\ sessions' = AllRevoked(u)
               /\ Finish(r, "granted")
          ELSE /\ Finish(r, "refused")
               /\ UNCHANGED <<users, resetTokens, sessions>>
    /\ UNCHANGED <<now, consumed, mailed>>
=============================================================================
