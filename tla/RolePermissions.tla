-------------------------- MODULE RolePermissions --------------------------
(***************************************************************************)
(* The permission matrix of one tenant, workflow_action_role_permissions:  *)
(* its replacement role by role in SERIALIZABLE transactions, and the      *)
(* seeder, which adds the definitions and rows of codes that are new in a  *)
(* release, statement by statement, while the service runs.                *)
(***************************************************************************)
EXTENDS AccessPolicy

CONSTANTS
    Role,      \* the roles that are looked at
    Code,      \* the codes that are looked at
    New,       \* codes of a later release, without definition and rows
    Request,   \* HTTP requests
    Sets,      \* the sets of codes that requests ask for
    None       \* no replacement

ASSUME RoleAssumption == Role \subseteq RoleCode
ASSUME CodeAssumption == Code \subseteq RouteCode /\ New \subseteq Code /\ New # Code
ASSUME SetsAssumption == Sets \subseteq SUBSET Code
ASSUME NoneAssumption == None \notin [role : Role, codes : Sets,
                                      rows : SUBSET Code, doomed : BOOLEAN]

VARIABLES
    catalogue,   \* the codes with a definition
    rows,        \* rows[c]: the codes that role c has a row for
    allowed,     \* allowed[c]: those whose row says so
    replacing,   \* replacing[r]: the open transaction of r, or None
    asked,       \* history: the set last written for c, at first the seed's
    late         \* history: the codes the seeder added to c since the
                 \* snapshot of that write

permissionVars == <<catalogue, rows, allowed, replacing, asked, late>>

Replacement == [role : Role, codes : Sets, rows : SUBSET Code, doomed : BOOLEAN]

PermissionTypes ==
    /\ catalogue \subseteq Code
    /\ rows \in [Role -> SUBSET Code]
    /\ allowed \in [Role -> SUBSET Code]
    /\ replacing \in [Request -> Replacement \cup {None}]
    /\ asked \in [Role -> SUBSET Code]
    /\ late \in [Role -> SUBSET Code]

Released == Code \ New

\* The rows of the sign-up, perhaps replaced since.
PermissionInit ==
    /\ catalogue = Released
    /\ rows = [c \in Role |-> Released]
    /\ asked \in [Role -> SUBSET Released]
    /\ \A c \in Role : asked[c] \in {SeedGrants[c] \cap Released} \cup Sets
    /\ allowed = asked
    /\ replacing = [r \in Request |-> None]
    /\ late = [c \in Role |-> {}]

----------------------------------------------------------------------------
(* The replacement of a role's permissions *)

\* setRolePermissions has checked that every code has a definition; the
\* transaction takes its snapshot.
BeginReplace(r, c, S) ==
    /\ replacing[r] = None
    /\ S \in Sets
    /\ S \subseteq catalogue
    /\ replacing' = [replacing EXCEPT ![r] =
                        [role |-> c, codes |-> S, rows |-> rows[c],
                         doomed |-> FALSE]]
    /\ UNCHANGED <<catalogue, rows, allowed, asked, late>>

\* Broken form of Conflicts: the default isolation level.
Conflicts_ReadCommitted(x, y) == FALSE

\* Both update a row: the one that commits second is aborted.
Conflicts(x, y) == x.role = y.role /\ x.rows \cap y.rows # {}

\* Every row of the snapshot is forbidden, the rows of the codes are allowed or
\* created.  A code whose row appeared since the snapshot cannot be written.
CommitReplace(r) ==
    LET x == replacing[r]
    IN  /\ x # None
        /\ ~x.doomed
        /\ x.codes \cap (rows[x.role] \ x.rows) = {}
        /\ allowed' = [allowed EXCEPT ![x.role] = (@ \ x.rows) \cup x.codes]
        /\ rows' = [rows EXCEPT ![x.role] = @ \cup x.codes]
        /\ asked' = [asked EXCEPT ![x.role] = x.codes]
        /\ late' = [late EXCEPT ![x.role] = @ \ x.rows]
        /\ replacing' = [q \in Request |->
              IF q = r THEN None
              ELSE IF replacing[q] # None /\ Conflicts(replacing[q], x)
                   THEN [role |-> replacing[q].role, codes |-> replacing[q].codes,
                         rows |-> replacing[q].rows, doomed |-> TRUE]
                   ELSE replacing[q]]
        /\ UNCHANGED catalogue

\* The transaction is aborted or times out.
FailReplace(r) ==
    /\ replacing[r] # None
    /\ replacing' = [replacing EXCEPT ![r] = None]
    /\ UNCHANGED <<catalogue, rows, allowed, asked, late>>

----------------------------------------------------------------------------
(* The seeder of a release; it may run again at any time *)

\* initializeTenantPermissions first upserts every definition.
SeedDefinition(p) ==
    /\ p \notin catalogue
    /\ catalogue' = catalogue \cup {p}
    /\ UNCHANGED <<rows, allowed, replacing, asked, late>>

\* Broken form of Upserted: an existing row is set as well.
Upserted_Reset(c, p) ==
    IF p \in SeedGrants[c] THEN allowed[c] \cup {p} ELSE allowed[c] \ {p}

\* The row of code p is created as the seed says and never updated.
Upserted(c, p) ==
    IF p \in SeedGrants[c] \ rows[c] THEN allowed[c] \cup {p} ELSE allowed[c]

\* Then it upserts the row of every role and code.
SeedRow(c, p) ==
    /\ catalogue = Code
    /\ allowed' = [allowed EXCEPT ![c] = Upserted(c, p)]
    /\ rows' = [rows EXCEPT ![c] = @ \cup {p}]
    /\ late' = [late EXCEPT ![c] = IF p \in rows[c] THEN @ ELSE @ \cup {p}]
    /\ UNCHANGED <<catalogue, replacing, asked>>

Seed == (\E p \in Code : SeedDefinition(p)) \/ (\E c \in Role, p \in Code : SeedRow(c, p))

----------------------------------------------------------------------------
(* Properties *)

\* A role has exactly the permissions an administrator asked for last, with the
\* seed's grants of codes that the seeder added since: no race of replacements
\* (RolePermissionRepository.replaceRolePermissions) mixes two sets, and a run
\* of the seeder gives nothing back that was taken away.
PermissionsAreAsked ==
    \A c \in Role : allowed[c] = asked[c] \cup (late[c] \cap SeedGrants[c])

\* What keeps it: a transaction that can still commit has in its snapshot
\* every row of a code that was asked for.
SnapshotsCoverAsked ==
    \A r \in Request : replacing[r] # None =>
        /\ Released \subseteq replacing[r].rows
        /\ replacing[r].rows \subseteq rows[replacing[r].role]
        /\ ~replacing[r].doomed => asked[replacing[r].role] \subseteq replacing[r].rows

RowsExist ==
    \A c \in Role : /\ Released \subseteq rows[c]
                    /\ asked[c] \subseteq rows[c]
                    /\ late[c] \subseteq rows[c]
                    /\ allowed[c] \subseteq rows[c]
=============================================================================
