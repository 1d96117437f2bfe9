--------------------------- MODULE AdminRetention ---------------------------
(***************************************************************************)
(* The rule that a tenant keeps an active system administrator: the two    *)
(* transactions that could break it, deactivation of a user and revocation *)
(* of a role, run under SERIALIZABLE and count first; role grants run      *)
(* under READ COMMITTED, where the database does not track their reads     *)
(* and writes.                                                             *)
(*                                                                         *)
(* SERIALIZABLE is modelled by what PostgreSQL guarantees: a transaction   *)
(* reads the snapshot of its start, aborts when a row it writes was        *)
(* written since, and aborts rather than complete a dangerous structure    *)
(* of read-write dependencies.  A transaction has read exactly the rows    *)
(* that decide its queries; it may also abort for no reason.               *)
(***************************************************************************)
EXTENDS Integers, FiniteSets

CONSTANTS
    User,
    Assignment,   \* ids of user_roles rows of the role system_admin
    Transaction,  \* HTTP requests, each one transaction
    NoUser,       \* not a user
    MaxGrants     \* bound: grants of the role

ASSUME NoUserAssumption == NoUser \notin User
ASSUME MaxGrantsAssumption == MaxGrants \in Nat

VARIABLES
    db,           \* the committed rows: active users, unrevoked assignments
    owner,        \* owner[a]: the user of row a, or NoUser when it does not exist
    transaction,  \* transaction[r]: what request r has begun
    clock,        \* orders starts and commits
    granted       \* what the bound counts

retentionVars == <<db, owner, transaction, clock, granted>>

Rows == [active : SUBSET User, held : SUBSET Assignment]

NotBegun == [pc |-> "idle"]

RetentionInit ==
    /\ owner \in [Assignment -> User \cup {NoUser}]
    /\ db = [active |-> User, held |-> {a \in Assignment : owner[a] # NoUser}]
    /\ \A a, b \in db.held : owner[a] = owner[b] => a = b
    /\ db.held # {}
    /\ transaction = [r \in Transaction |-> NotBegun]
    /\ clock = 0
    /\ granted = 0

Is(r, pc) == transaction[r].pc = pc

Turn(r, state) == transaction' = [transaction EXCEPT ![r] = state]

\* Users with a row of d, and those the guard and the counts look for.
Holders(d) == {owner[a] : a \in d.held}
Admins(d) == d.active \cap Holders(d)

\* Broken form of Counted: it forgets to look at the user.
Counted_AnyUser(d) == d.held

\* The assignments counted before a revocation: those of active users.
Counted(d) == {a \in d.held : owner[a] \in d.active}

----------------------------------------------------------------------------
(* What a serializable transaction reads and writes *)

ReadOf(t, d) ==
    CASE t.op = "deactivate" -> IF t.user \in Admins(d) THEN Admins(d) ELSE {}
      [] t.op = "activate"   -> {}
      [] t.op = "revoke"     -> Counted(d)

WriteOf(t, d) ==
    CASE t.op = "deactivate" -> [d EXCEPT !.active = @ \ {t.user}]
      [] t.op = "activate"   -> [d EXCEPT !.active = @ \cup {t.user}]
      [] t.op = "revoke"     -> [d EXCEPT !.held = @ \ {t.assignment}]

\* A role revocation writes the assignment, the others the user.
SameRow(s, t) ==
    IF s.op = "revoke" THEN t.op = "revoke" /\ s.assignment = t.assignment
                       ELSE t.op # "revoke" /\ s.user = t.user

Overlap(s, t) == s.start < t.end /\ t.start < s.end

\* s has not seen what t wrote.
ReadsBefore(s, t) ==
    /\ Overlap(s, t)
    /\ ReadOf(s, s.snapshot) # ReadOf(s, WriteOf(t, s.snapshot))

Committed == {transaction[r] : r \in {q \in Transaction : Is(q, "committed")}}

\* Broken form of Serializes: the default isolation level.
Serializes_ReadCommitted(x) == TRUE

\* The transaction may commit: no row it writes was written meanwhile, and it
\* completes no dangerous structure, s before p before t with t the first to
\* commit.
Serializes(x) ==
    /\ ~\E t \in Committed : Overlap(x, t) /\ SameRow(x, t)
    /\ ~\E s, t \in Committed :
          ReadsBefore(s, x) /\ ReadsBefore(x, t) /\ t.end <= s.end
    /\ ~\E p, t \in Committed :
          ReadsBefore(x, p) /\ ReadsBefore(p, t) /\ t.end < p.end

----------------------------------------------------------------------------
(* The requests of a system administrator *)

\* SystemAdminGuard lets in active administrators: there is one to ask.
Asked == Admins(db) # {}

\* A transaction takes its snapshot.
Begin(r, op, user, assignment) ==
    /\ clock' = clock + 1
    /\ Turn(r, [pc |-> "open", op |-> op, user |-> user,
                  assignment |-> assignment, snapshot |-> db,
                  start |-> clock'])

\* UserRepository.update starts, for isActive = false or true.
BeginUpdate(r, u, op) ==
    /\ Is(r, "idle")
    /\ Asked
    /\ Begin(r, op, u, NoUser)
    /\ UNCHANGED <<db, owner, granted>>

\* revokeUserRole refuses to revoke one's own role and looks the assignment up
\* in a transaction of its own.
FindAssignment(r, by, a) ==
    /\ Is(r, "idle")
    /\ by \in Admins(db) \ {owner[a]}
    /\ a \in db.held
    /\ Turn(r, [pc |-> "found", assignment |-> a])
    /\ UNCHANGED <<db, owner, clock, granted>>

\* RolePermissionRepository.revokeAssignment starts.
BeginRevoke(r) ==
    /\ Is(r, "found")
    /\ Begin(r, "revoke", owner[transaction[r].assignment], transaction[r].assignment)
    /\ UNCHANGED <<db, owner, granted>>

\* What the counts of update and revokeAssignment decide on the snapshot.
WouldLeaveNone(t) ==
    CASE t.op = "deactivate" -> /\ t.user \in Admins(t.snapshot)
                                /\ Cardinality(Admins(t.snapshot)) <= 1
      [] t.op = "activate"   -> FALSE
      [] t.op = "revoke"     -> Cardinality(Counted(t.snapshot)) <= 1

\* The transaction ends: refused by its count, aborted by the database, or
\* committed.
Finish(r) ==
    /\ Is(r, "open")
    /\ \/ Turn(r, [pc |-> "refused"]) /\ UNCHANGED <<db, clock>>
       \/ LET x == [pc |-> "committed", op |-> transaction[r].op,
                    user |-> transaction[r].user,
                    assignment |-> transaction[r].assignment,
                    snapshot |-> transaction[r].snapshot,
                    start |-> transaction[r].start, end |-> clock + 1]
          IN /\ ~WouldLeaveNone(x)
             /\ Serializes(x)
             /\ db' = WriteOf(x, db)
             /\ clock' = clock + 1
             /\ Turn(r, x)
    /\ UNCHANGED <<owner, granted>>

\* RoleAssignmentRepository.ensureAssignment for a user without the role,
\* under READ COMMITTED and the lock of the user's row.
Grant(u, a) ==
    /\ Asked
    /\ u \notin Holders(db)
    /\ owner[a] = NoUser
    /\ granted < MaxGrants
    /\ granted' = granted + 1
    /\ owner' = [owner EXCEPT ![a] = u]
    /\ db' = [db EXCEPT !.held = @ \cup {a}]
    /\ UNCHANGED <<transaction, clock>>

RetentionNext ==
    \/ \E r \in Transaction :
         \/ \E u \in User, op \in {"deactivate", "activate"} : BeginUpdate(r, u, op)
         \/ \E by \in User, a \in Assignment : FindAssignment(r, by, a)
         \/ BeginRevoke(r)
         \/ Finish(r)
    \/ \E u \in User, a \in Assignment : Grant(u, a)

RetentionSpec == RetentionInit /\ [][RetentionNext]_retentionVars

----------------------------------------------------------------------------
(* Properties *)

\* The tenant retains an active system administrator.
AdminRetained == Admins(db) # {}

\* Only a deactivation that had started when its user was granted the role can
\* have left the tenant without one: it had nothing to count.
LostOnlyToGrantRace ==
    Admins(db) = {} =>
        \E t \in Committed :
            /\ t.op = "deactivate"
            /\ t.user \notin Holders(t.snapshot)
            /\ t.user \in Holders(db)
=============================================================================
