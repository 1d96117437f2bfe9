-------------------------- MODULE AuthorityProofs ---------------------------
(***************************************************************************)
(* Proofs about Authority, for any number of members, roles, codes, teams  *)
(* and requests: the permission matrix of a tenant is what its             *)
(* administrators asked for, and nobody gets what it was not granted; and  *)
(* about AdminRetention, for any number of users, rows and transactions:   *)
(* the tenant keeps an administrator, but for one race.                    *)
(***************************************************************************)
EXTENDS Authority, AdminRetention, FiniteSetTheorems, WellFoundedInduction, TLAPS

\* The fields of a request under way.
Fields == {"pc", "op", "actor", "goal", "entitled", "role", "linked", "rights",
           "leads", "found", "scope"}

\* A request under way is an actor's, and names what its operation is about.
IsTask(q) ==
    /\ DOMAIN q = Fields
    /\ q.op \in Op
    /\ q.actor \in Member
    /\ q.goal \in Goals[q.op]

Named ==
    /\ DOMAIN request = Request
    /\ \A r \in Request : Active(r) => IsTask(request[r])

MatrixInv == PermissionTypes /\ RowsExist /\ SnapshotsCoverAsked /\ PermissionsAreAsked

----------------------------------------------------------------------------
(* What requests do to the matrix *)

LEMMA GoalRole ==
    ASSUME NEW op \in Op, NEW goal \in Goals[op], "role" \in Names(op).needs
    PROVE  goal.role \in Role
BY DEF Goals, Values

LEMMA Becoming ==
    ASSUME Named, NEW r \in Request, NEW q, Become(r, q),
           q.pc \in Working => IsTask(q)
    PROVE  Named'
<1>1. DOMAIN request' = Request
  BY DEF Named, Become
<1>2. ASSUME NEW s \in Request, Active(s)' PROVE IsTask(request[s])'
  <2>1. CASE s = r
    <3>1. request'[s] = q
      BY <2>1 DEF Named, Become
    <3>2. QED
      BY <1>2, <3>1 DEF Active, IsTask
  <2>2. CASE s # r
    <3>1. request'[s] = request[s]
      BY <2>2 DEF Named, Become
    <3>2. QED
      BY <1>2, <3>1 DEF Active, Named, IsTask
  <2>3. QED
    BY <2>1, <2>2
<1>3. QED
  BY <1>1, <1>2 DEF Named

\* What a request learns leaves what it asked for alone.
LEMMA SameGoal ==
    ASSUME Named, NEW r \in Request, Active(r), NEW q, Become(r, q),
           DOMAIN q = Fields, q.op = request[r].op, q.actor = request[r].actor,
           q.goal = request[r].goal
    PROVE  Named'
BY Becoming DEF Named, IsTask

LEMMA DoneNamed ==
    ASSUME Named, NEW r \in Request, Become(r, Done)
    PROVE  Named'
<1>1. Done.pc \notin Working
  BY DEF Done, Working
<1>2. QED
  BY <1>1, Becoming

LEMMA ArriveNamed ==
    ASSUME Named, NEW r \in Request, NEW m \in Member, NEW op \in Op, NEW goal \in Goals[op],
           Arrive(r, m, op, goal)
    PROVE  Named'
<1> DEFINE q == [pc |-> "arrived", op |-> op, actor |-> m, goal |-> goal,
                 entitled |-> May(op, OwnPowers(m, goal.team)),
                 role |-> None, linked |-> FALSE, rights |-> {}, leads |-> {},
                 found |-> NoTeam, scope |-> {}]
<1>1. DOMAIN q = Fields /\ q.op = op /\ q.actor = m /\ q.goal = goal
  BY DEF Fields
<1>2. Become(r, q)
  BY DEF Arrive
<1> HIDE DEF q
<1>3. QED
  BY <1>1, <1>2, Becoming DEF IsTask

LEMMA ReadNamed ==
    ASSUME Named, NEW r \in Request,
           ReadProfile(r) \/ ReadRights(r) \/ ReadLeads(r) \/ Load(r) \/ Decide(r)
    PROVE  Named'
<1>1. Active(r) /\ DOMAIN request[r] = Fields
  BY DEF ReadProfile, ReadRights, ReadLeads, Load, Decide, At, Active, Working, Named, IsTask
<1>2. CASE ReadProfile(r)
  BY <1>1, <1>2, SameGoal DEF ReadProfile, Fields
<1>3. CASE ReadRights(r)
  BY <1>1, <1>3, SameGoal DEF ReadRights, Fields
<1>4. CASE ReadLeads(r)
  BY <1>1, <1>4, SameGoal DEF ReadLeads, Fields
<1>5. CASE Load(r)
  BY <1>1, <1>5, SameGoal DEF Load, Fields
<1>6. CASE Decide(r)
  BY <1>1, <1>6, SameGoal DEF Decide, Fields
<1>7. QED
  BY <1>2, <1>3, <1>4, <1>5, <1>6

LEMMA ServeNamed ==
    ASSUME Named, NEW r \in Request, At(r, "decided") \/ At(r, "replacing"), Serve(r)
    PROVE  Named'
<1>1. Active(r) /\ DOMAIN request[r] = Fields
  BY DEF At, Active, Working, Named, IsTask
<1>2. QED
  BY <1>1, SameGoal DEF Serve, Fields

\* The steps of a handler that answers with one.
Serves(r) ==
    \/ Answer(r) \/ AssignDivisionLead(r) \/ RevokeDivisionLead(r)
    \/ \E t \in Team : CreateTeam(r, t)
    \/ AssignTeamLead(r) \/ DeleteTeam(r) \/ UpdateMember(r) \/ LinkAccess(r)
    \/ AssignUserRole(r) \/ RevokeUserRole(r) \/ Activate(r)

LEMMA ServesAlone ==
    ASSUME NEW r \in Request, Serves(r)
    PROVE  At(r, "decided") /\ Serve(r) /\ UNCHANGED permissionVars
BY DEF Serves, Answer, AssignDivisionLead, RevokeDivisionLead, CreateTeam, AssignTeamLead,
       DeleteTeam, UpdateMember, LinkAccess, AssignUserRole, RevokeUserRole, Activate, Handler

LEMMA StartNamed ==
    ASSUME Named, NEW r \in Request, StartReplacement(r)
    PROVE  /\ Named'
           /\ \E c \in Role : BeginReplace(r, c, request[r].goal.codes)
<1>1. /\ Active(r) /\ DOMAIN request[r] = Fields
      /\ request[r].op = <<"role_permission", "setRolePermissions">>
  BY DEF StartReplacement, Handler, At, Active, Working, Named, IsTask
<1>2. request[r].goal.role \in Role
  BY <1>1, GoalRole DEF Named, IsTask, Names, RolePermissionNames, Naming
<1>3. Named'
  BY <1>1, SameGoal DEF StartReplacement, Fields
<1>4. QED
  BY <1>2, <1>3 DEF StartReplacement

\* A step of a request begins, commits or ends a replacement, or leaves the
\* matrix alone.
LEMMA StepOfMatrix ==
    ASSUME Named, NEW r \in Request, Step(r)
    PROVE  /\ Named'
           /\ \/ UNCHANGED permissionVars
              \/ \E c \in Role : BeginReplace(r, c, request[r].goal.codes)
              \/ CommitReplace(r)
              \/ FailReplace(r)
<1>1. CASE \E m \in Member, op \in Op : \E goal \in Goals[op] : Arrive(r, m, op, goal)
  BY <1>1, ArriveNamed DEF Arrive
<1>2. CASE ReadProfile(r) \/ ReadRights(r) \/ ReadLeads(r) \/ Load(r) \/ Decide(r)
  <2>1. UNCHANGED permissionVars
    BY <1>2 DEF ReadProfile, ReadRights, ReadLeads, Load, Decide
  <2>2. QED
    BY <1>2, <2>1, ReadNamed
<1>3. CASE Fail(r) \/ Reply(r)
  BY <1>3, DoneNamed DEF Fail, Reply
<1>4. CASE Serves(r)
  BY <1>4, ServesAlone, ServeNamed
<1>5. CASE StartReplacement(r)
  BY <1>5, StartNamed
<1>6. CASE FinishReplacement(r)
  BY <1>6, ServeNamed, DoneNamed DEF FinishReplacement
<1>7. QED
  BY <1>1, <1>2, <1>3, <1>4, <1>5, <1>6 DEF Step, Serves

----------------------------------------------------------------------------
(* Replacements *)

LEMMA ReleasedExists == Released # {}
BY CodeAssumption DEF Released

LEMMA NoneIsNone == None \notin Replacement
BY NoneAssumption DEF Replacement

LEMMA BeginKeeps ==
    ASSUME MatrixInv, NEW r \in Request, NEW c \in Role, NEW S, BeginReplace(r, c, S)
    PROVE  MatrixInv'
<1> DEFINE x == [role |-> c, codes |-> S, rows |-> rows[c], doomed |-> FALSE]
<1>1. x \in Replacement
  BY DEF MatrixInv, PermissionTypes, Replacement, BeginReplace
<1>2. replacing' = [replacing EXCEPT ![r] = x] /\ UNCHANGED <<catalogue, rows, allowed, asked, late>>
  BY DEF BeginReplace
<1>3. x.role = c /\ x.rows = rows[c] /\ ~x.doomed
  OBVIOUS
<1> HIDE DEF x
<1>4. PermissionTypes'
  BY <1>1, <1>2 DEF MatrixInv, PermissionTypes
<1>5. SnapshotsCoverAsked'
  BY <1>2, <1>3 DEF MatrixInv, PermissionTypes, SnapshotsCoverAsked, RowsExist
<1>6. (RowsExist /\ PermissionsAreAsked)'
  BY <1>2 DEF MatrixInv, RowsExist, PermissionsAreAsked
<1>7. QED
  BY <1>4, <1>5, <1>6 DEF MatrixInv

LEMMA FailKeeps ==
    ASSUME MatrixInv, NEW r \in Request, FailReplace(r)
    PROVE  MatrixInv'
BY DEF MatrixInv, PermissionTypes, RowsExist, SnapshotsCoverAsked, PermissionsAreAsked,
       FailReplace

\* What a commit does to the replacements of other requests.
LEMMA OthersDoomed ==
    ASSUME MatrixInv, NEW r \in Request, CommitReplace(r), NEW q \in Request,
           replacing'[q] # None
    PROVE  /\ replacing[q] \in Replacement
           /\ replacing'[q] \in Replacement
           /\ replacing'[q].role = replacing[q].role
           /\ replacing'[q].rows = replacing[q].rows
           /\ ~replacing'[q].doomed =>
                 /\ ~replacing[q].doomed
                 /\ ~Conflicts(replacing[q], replacing[r])
<1>1. q # r /\ replacing[q] # None
  BY DEF CommitReplace
<1>2. replacing[q] \in Replacement
  BY <1>1 DEF MatrixInv, PermissionTypes
<1>3. CASE Conflicts(replacing[q], replacing[r])
  <2>1. replacing'[q] = [role |-> replacing[q].role, codes |-> replacing[q].codes,
                         rows |-> replacing[q].rows, doomed |-> TRUE]
    BY <1>1, <1>3 DEF CommitReplace
  <2>2. QED
    BY <1>2, <2>1 DEF Replacement
<1>4. CASE ~Conflicts(replacing[q], replacing[r])
  BY <1>1, <1>2, <1>4 DEF CommitReplace
<1>5. QED
  BY <1>3, <1>4

LEMMA CommitKeeps ==
    ASSUME MatrixInv, NEW r \in Request, CommitReplace(r)
    PROVE  MatrixInv'
<1> DEFINE x == replacing[r]
           c == x.role
<1>1. x \in Replacement /\ ~x.doomed
  BY DEF CommitReplace, MatrixInv, PermissionTypes
<1>2. c \in Role /\ x.codes \subseteq Code /\ x.rows \subseteq Code
  BY <1>1, SetsAssumption DEF Replacement
<1>3. /\ allowed' = [allowed EXCEPT ![c] = (@ \ x.rows) \cup x.codes]
      /\ rows' = [rows EXCEPT ![c] = @ \cup x.codes]
      /\ asked' = [asked EXCEPT ![c] = x.codes]
      /\ late' = [late EXCEPT ![c] = @ \ x.rows]
      /\ UNCHANGED catalogue
  BY DEF CommitReplace
<1>4. asked[c] \subseteq x.rows /\ Released \subseteq x.rows
  BY <1>1, NoneIsNone DEF MatrixInv, SnapshotsCoverAsked
<1> HIDE DEF x, c
<1>5. PermissionTypes'
  <2>1. replacing' \in [Request -> Replacement \cup {None}]
    <3>1. \A q \in Request : replacing'[q] \in Replacement \cup {None}
      BY OthersDoomed
    <3>2. replacing' = [q \in Request |-> replacing'[q]]
      BY DEF CommitReplace
    <3>3. QED
      BY <3>1, <3>2
  <2>2. /\ allowed' \in [Role -> SUBSET Code] /\ rows' \in [Role -> SUBSET Code]
        /\ asked' \in [Role -> SUBSET Code] /\ late' \in [Role -> SUBSET Code]
    BY <1>2, <1>3 DEF MatrixInv, PermissionTypes
  <2>3. QED
    BY <1>3, <2>1, <2>2 DEF MatrixInv, PermissionTypes
<1>6. RowsExist'
  BY <1>2, <1>3 DEF MatrixInv, PermissionTypes, RowsExist, Released
<1>7. PermissionsAreAsked'
  <2> SUFFICES ASSUME NEW d \in Role
               PROVE  allowed'[d] = asked'[d] \cup (late'[d] \cap SeedGrants[d])
    BY DEF PermissionsAreAsked
  <2>1. allowed[d] = asked[d] \cup (late[d] \cap SeedGrants[d])
    BY DEF MatrixInv, PermissionsAreAsked
  <2>2. CASE d # c
    BY <1>2, <1>3, <2>1, <2>2 DEF MatrixInv, PermissionTypes
  <2>3. CASE d = c
    <3>1. /\ allowed'[d] = (allowed[d] \ x.rows) \cup x.codes
          /\ asked'[d] = x.codes
          /\ late'[d] = late[d] \ x.rows
      BY <1>2, <1>3, <2>3 DEF MatrixInv, PermissionTypes
    <3>2. QED
      BY <1>4, <2>1, <2>3, <3>1
  <2>4. QED
    BY <2>2, <2>3
<1>8. SnapshotsCoverAsked'
  <2> SUFFICES ASSUME NEW q \in Request, replacing'[q] # None
               PROVE  /\ Released \subseteq replacing'[q].rows
                      /\ replacing'[q].rows \subseteq rows'[replacing'[q].role]
                      /\ ~replacing'[q].doomed =>
                            asked'[replacing'[q].role] \subseteq replacing'[q].rows
    BY DEF SnapshotsCoverAsked, Released
  <2>1. /\ replacing[q] \in Replacement
        /\ replacing'[q].role = replacing[q].role
        /\ replacing'[q].rows = replacing[q].rows
        /\ ~replacing'[q].doomed => ~replacing[q].doomed /\ ~Conflicts(replacing[q], x)
    BY OthersDoomed DEF x
  <2>2. /\ Released \subseteq replacing[q].rows
        /\ replacing[q].rows \subseteq rows[replacing[q].role]
        /\ ~replacing[q].doomed => asked[replacing[q].role] \subseteq replacing[q].rows
    BY <2>1, NoneIsNone DEF MatrixInv, SnapshotsCoverAsked
  <2>3. replacing[q].role \in Role
    BY <2>1 DEF Replacement
  <2>4. rows[replacing[q].role] \subseteq rows'[replacing[q].role]
    BY <1>3, <2>3 DEF MatrixInv, PermissionTypes
  <2>5. ASSUME ~replacing'[q].doomed
        PROVE  asked'[replacing[q].role] = asked[replacing[q].role]
    <3>1. replacing[q].role # c
      BY <1>4, <2>1, <2>2, <2>5, ReleasedExists DEF Conflicts, c
    <3>2. QED
      BY <1>2, <1>3, <2>3, <3>1 DEF MatrixInv, PermissionTypes
  <2>6. QED
    BY <2>1, <2>2, <2>4, <2>5
<1>9. QED
  BY <1>5, <1>6, <1>7, <1>8 DEF MatrixInv

----------------------------------------------------------------------------
(* The seeder *)

LEMMA SeedRowKeeps ==
    ASSUME MatrixInv, NEW c \in Role, NEW p \in Code, SeedRow(c, p)
    PROVE  MatrixInv'
<1>1. /\ allowed' = [allowed EXCEPT ![c] = Upserted(c, p)]
      /\ rows' = [rows EXCEPT ![c] = @ \cup {p}]
      /\ late' = [late EXCEPT ![c] = IF p \in rows[c] THEN @ ELSE @ \cup {p}]
      /\ UNCHANGED <<catalogue, replacing, asked>>
  BY DEF SeedRow
<1>2. Upserted(c, p) = IF p \in SeedGrants[c] /\ p \notin rows[c] THEN allowed[c] \cup {p}
                       ELSE allowed[c]
  BY DEF Upserted
<1>3. PermissionTypes'
  BY <1>1, <1>2 DEF MatrixInv, PermissionTypes
<1>4. RowsExist'
  BY <1>1, <1>2 DEF MatrixInv, PermissionTypes, RowsExist, Released
<1>5. SnapshotsCoverAsked'
  <2>1. \A d \in Role : rows[d] \subseteq rows'[d]
    BY <1>1 DEF MatrixInv, PermissionTypes
  <2>2. \A r \in Request : replacing[r] # None => replacing[r].role \in Role
    BY DEF MatrixInv, PermissionTypes, Replacement
  <2>3. QED
    BY <1>1, <2>1, <2>2 DEF MatrixInv, SnapshotsCoverAsked, Released
<1>6. PermissionsAreAsked'
  <2> SUFFICES ASSUME NEW d \in Role
               PROVE  allowed'[d] = asked[d] \cup (late'[d] \cap SeedGrants[d])
    BY <1>1 DEF PermissionsAreAsked
  <2>1. allowed[d] = asked[d] \cup (late[d] \cap SeedGrants[d])
    BY DEF MatrixInv, PermissionsAreAsked
  <2>2. CASE d # c
    BY <1>1, <2>1, <2>2 DEF MatrixInv, PermissionTypes
  <2>3. CASE d = c /\ p \in rows[c]
    BY <1>1, <1>2, <2>1, <2>3 DEF MatrixInv, PermissionTypes
  <2>4. CASE d = c /\ p \notin rows[c]
    <3>1. allowed'[d] = IF p \in SeedGrants[d] THEN allowed[d] \cup {p} ELSE allowed[d]
      BY <1>1, <1>2, <2>4 DEF MatrixInv, PermissionTypes
    <3>2. late'[d] = late[d] \cup {p}
      BY <1>1, <2>4 DEF MatrixInv, PermissionTypes
    <3>3. QED
      BY <2>1, <3>1, <3>2
  <2>5. QED
    BY <2>2, <2>3, <2>4
<1>7. QED
  BY <1>3, <1>4, <1>5, <1>6 DEF MatrixInv

LEMMA SeedDefinitionKeeps ==
    ASSUME MatrixInv, NEW p \in Code, SeedDefinition(p)
    PROVE  MatrixInv'
BY DEF MatrixInv, PermissionTypes, RowsExist, SnapshotsCoverAsked, PermissionsAreAsked,
       SeedDefinition, Released

----------------------------------------------------------------------------
(* The invariant *)

LEMMA InitMatrix == Init => MatrixInv /\ Named
<1> SUFFICES ASSUME Init PROVE MatrixInv /\ Named
  OBVIOUS
<1>1. PermissionInit
  BY DEF Init
<1>2. PermissionTypes
  BY <1>1 DEF PermissionInit, PermissionTypes, Released
<1>3. RowsExist /\ SnapshotsCoverAsked /\ PermissionsAreAsked
  BY <1>1 DEF PermissionInit, RowsExist, SnapshotsCoverAsked, PermissionsAreAsked, Released
<1>4. Named
  BY DEF Init, Named, Idle, Active, Working
<1>5. QED
  BY <1>2, <1>3, <1>4 DEF MatrixInv

LEMMA NextMatrix == MatrixInv /\ Named /\ [Next]_vars => (MatrixInv /\ Named)'
<1> SUFFICES ASSUME MatrixInv, Named, [Next]_vars PROVE (MatrixInv /\ Named)'
  OBVIOUS
<1>1. ASSUME UNCHANGED permissionVars PROVE MatrixInv'
  BY <1>1 DEF permissionVars, MatrixInv, PermissionTypes, RowsExist, SnapshotsCoverAsked,
              PermissionsAreAsked, Released
<1>2. CASE UNCHANGED vars
  BY <1>1, <1>2 DEF vars, Named, Active
<1>3. CASE \E r \in Request : Step(r)
  BY <1>1, <1>3, StepOfMatrix, BeginKeeps, CommitKeeps, FailKeeps
<1>4. CASE Release
  BY <1>4, SeedRowKeeps, SeedDefinitionKeeps DEF Release, Seed, Named, Active
<1>5. QED
  BY <1>2, <1>3, <1>4 DEF Next

\* However replacements of a role's permissions
\* (RolePermissionRepository.replaceRolePermissions) overlap with each other and
\* with the seeder, a role has the set that was asked for last and the seed's
\* grants of the codes that are new since.
THEOREM MatrixAsAsked == Spec => []PermissionsAreAsked
<1>1. MatrixInv => PermissionsAreAsked
  BY DEF MatrixInv
<1>2. QED
  BY <1>1, InitMatrix, NextMatrix, PTL DEF Spec

----------------------------------------------------------------------------
(* The powers of an actor.  A request reads role, permissions, led         *)
(* divisions and team at different times; the invariant says that all of   *)
(* it, and all that is still to be read, is part of powers that entitle to *)
(* no more than those its actor had on arrival.                            *)

----------------------------------------------------------------------------
(* Routes *)

LEMMA Handlers ==
    ASSUME NEW op \in Operations
    PROVE  op[1] \in DOMAIN Controllers /\ op[2] \in DOMAIN Controllers[op[1]]
BY DEF Operations

\* What the guards of the modelled controllers ask for.
LEMMA TeamNeeds ==
    ASSUME NEW op \in Operations, op[1] = "team", NEW c, NEW R, Passes(op, c, R)
    PROVE  IF op[2] = "findOne" THEN "ASSIGN_MEMBER" \in R ELSE "ADD_TEAM" \in R
<1>1. RouteOf(op) = TeamController[op[2]] /\ op[2] \in DOMAIN TeamController
  BY Handlers DEF Controllers, RouteOf
<1>2. RouteOf(op) = Scoped(IF op[2] = "findOne" THEN {"ASSIGN_MEMBER"} ELSE {"ADD_TEAM"})
  BY <1>1 DEF TeamController
<1>3. RouteOf(op).needs \subseteq R
  BY <1>2 DEF Passes, Permitted, Scoped, Guarded
<1>4. QED
  BY <1>2, <1>3 DEF Scoped, Guarded

LEMMA MembershipNeeds ==
    ASSUME NEW op \in Operations, op[1] = "team_membership", NEW c, NEW R, Passes(op, c, R)
    PROVE  "ASSIGN_MEMBER" \in R
BY Handlers DEF Controllers, TeamMembershipController, Passes, Permitted, RouteOf, Scoped,
                Guarded

LEMMA MemberNeeds ==
    ASSUME NEW op \in Operations, op[1] = "member", NEW c, NEW R, Passes(op, c, R)
    PROVE  "ADD_MEMBER" \in R
BY Handlers DEF Controllers, MemberController, Passes, Permitted, RouteOf, Scoped, Guarded

LEMMA LeadNeeds ==
    ASSUME NEW op \in Operations, op[1] = "division_lead", NEW c, NEW R, Passes(op, c, R)
    PROVE  c \in {"system_admin", "division_head"} /\ "ASSIGN_LEADER" \in R
BY Handlers DEF Controllers, DivisionLeadController, Passes, Permitted, AdminAdmitted, RouteOf,
                ScopedAdmin, Guarded

LEMMA AdminNeeds ==
    ASSUME NEW op \in Operations, NEW c, NEW R, Passes(op, c, R)
    PROVE  /\ op[1] \in {"role_permission", "user_role", "user", "company"} => c = "system_admin"
           /\ op[1] \in DOMAIN AdminCode => c = "system_admin" /\ AdminCode[op[1]] \in R
<1>1. CASE op[1] = "role_permission"
  BY <1>1, Handlers DEF Controllers, RolePermissionController, Passes, AdminAdmitted, RouteOf,
                        ForAdmins, Guarded, AdminCode
<1>2. CASE op[1] = "user_role"
  BY <1>2, Handlers DEF Controllers, UserRoleController, Passes, AdminAdmitted, RouteOf,
                        ForAdmins, Guarded, AdminCode
<1>3. CASE op[1] = "user"
  BY <1>3, Handlers DEF Controllers, UserController, Passes, AdminAdmitted, RouteOf,
                        ForAdmins, Guarded, AdminCode
<1>4. CASE op[1] = "company"
  BY <1>4, Handlers DEF Controllers, CompanyController, Passes, AdminAdmitted, RouteOf,
                        ScopedAdmin, Guarded, AdminCode
<1>5. CASE op[1] = "division"
  BY <1>5, Handlers DEF Controllers, DivisionController, Passes, AdminAdmitted, Permitted,
                        RouteOf, ScopedAdmin, Guarded, AdminCode
<1>6. CASE op[1] = "client"
  BY <1>6, Handlers DEF Controllers, ClientController, Passes, AdminAdmitted, Permitted,
                        RouteOf, ScopedAdmin, Guarded, AdminCode
<1>7. CASE op[1] = "client_contact"
  BY <1>7, Handlers DEF Controllers, ClientContactController, Passes, AdminAdmitted, Permitted,
                        RouteOf, ScopedAdmin, Guarded, AdminCode
<1>8. CASE op[1] = "client_portal_access"
  BY <1>8, Handlers DEF Controllers, ClientPortalAccessController, Passes, AdminAdmitted,
                        Permitted, RouteOf, ScopedAdmin, Guarded, AdminCode
<1>9. QED
  BY <1>1, <1>2, <1>3, <1>4, <1>5, <1>6, <1>7, <1>8 DEF AdminCode

\* Every modelled operation is of one of these kinds.
Kinds(op) ==
    \/ op[1] = "actor_profile"
    \/ op[1] \in {"role_permission", "user_role", "user", "company"}
    \/ op[1] \in DOMAIN AdminCode
    \/ op[1] = "division_lead"
    \/ op[1] = "team"
    \/ op[1] = "team_membership"
    \/ op[1] = "member" /\ op[2] \in {"create"} \cup MemberReads
    \/ op[1] = "member" /\ op[2] \in {"update", "linkAccess"}

LEMMA KindOf ==
    ASSUME NEW op \in Op
    PROVE  op \in Operations /\ Kinds(op)
<1>1. op \in Operations /\ op[1] \notin Elsewhere /\ op # <<"member", "delete">>
  BY AuthorityAssumption
<1>2. PICK c \in DOMAIN Controllers : \E h \in DOMAIN Controllers[c] : op = <<c, h>>
  BY <1>1 DEF Operations
<1>3. PICK h \in DOMAIN Controllers[c] : op = <<c, h>>
  BY <1>2
<1>4. CASE c = "member"
  <2>1. h \in {"create", "findAll", "findOne", "findLedDivisions", "update", "delete", "linkAccess"}
    BY <1>4 DEF Controllers, MemberController
  <2>2. QED
    BY <1>1, <1>3, <1>4, <2>1 DEF Kinds, MemberReads
<1>5. CASE c # "member"
  BY <1>1, <1>2, <1>3, <1>5 DEF Controllers, Elsewhere, Kinds, AdminCode
<1>6. QED
  BY <1>1, <1>4, <1>5

----------------------------------------------------------------------------
(* A decision stays within the powers it is made from *)

\* What q has read is part of the powers p.
Within(q, p) ==
    /\ q.role = p.role /\ p.role # None
    /\ q.rights \subseteq p.rights
    /\ q.leads \subseteq p.led
    /\ NamesTeam(q.op) =>
          /\ q.found.division \in Division
          /\ q.linked /\ q.found.lead = q.actor => q.found.division \in p.here
    /\ q.linked => LedTeamDivision(q.actor) \subseteq p.staffed

LEMMA DecisionWithin ==
    ASSUME NEW q, NEW p, q.op \in Op, Passes(q.op, q.role, q.rights), Within(q, p)
    PROVE  Scope(q) \subseteq May(q.op, p)
<1> DEFINE op == q.op
<1>1. op \in Operations /\ Kinds(op)
  BY KindOf
<1>2. CASE op[1] \in DOMAIN AdminCode \cup {"role_permission", "user_role", "user", "company"}
  BY <1>1, <1>2, AdminNeeds DEF Within, Scope, May, If, AdminCode
<1>3. CASE op[1] = "actor_profile"
  BY <1>3 DEF Within, Scope, May, If, AdminCode
<1>4. CASE op[1] = "division_lead"
  BY <1>1, <1>4, LeadNeeds DEF Within, Scope, May, If, AdminCode
<1>5. CASE op[1] = "team" /\ op[2] # "findOne"
  <2>1. "ADD_TEAM" \in p.rights
    BY <1>1, <1>5, TeamNeeds DEF Within
  <2>2. Scope(q) = ManageDivisions(q)
    BY <1>5 DEF Scope
  <2>3. May(op, p) = Manages(p)
    BY <1>5, <2>1 DEF May, If, AdminCode
  <2>4. QED
    BY <2>2, <2>3 DEF ManageDivisions, Manages, Within
<1>6. CASE op[1] = "team_membership" \/ (op[1] = "team" /\ op[2] = "findOne")
  <2>1. "ASSIGN_MEMBER" \in p.rights
    BY <1>1, <1>6, TeamNeeds, MembershipNeeds DEF Within
  <2>2. NamesTeam(op)
    BY <1>6 DEF NamesTeam, Names, TeamNames, TeamMembershipNames, Naming
  <2>3. op = <<"team", "findOne">> \/ op[1] = "team_membership"
    BY <1>1, <1>6 DEF Operations
  <2>4. May(op, p) = Manages(p) \cup p.here
    BY <2>1, <2>3 DEF May, If, AdminCode
  <2>5. Scope(q) \subseteq ManageDivisions(q) \cup MembershipDivisions(q)
    BY <2>3 DEF Scope
  <2>6. ManageDivisions(q) \subseteq Manages(p)
    BY DEF ManageDivisions, Manages, Within
  <2>7. MembershipDivisions(q) \subseteq Manages(p) \cup p.here
    BY <2>2 DEF MembershipDivisions, Manages, Within, If
  <2>8. QED
    BY <2>4, <2>5, <2>6, <2>7
<1>7. CASE op[1] = "member" /\ op[2] \in {"create"} \cup MemberReads
  <2>1. "ADD_MEMBER" \in p.rights
    BY <1>1, <1>7, MemberNeeds DEF Within
  <2>2. May(op, p) = Staffs(p)
    BY <1>7, <2>1 DEF May, If, AdminCode, MemberReads
  <2>3. Scope(q) = ReadableDivisions(q)
    BY <1>7 DEF Scope, MemberReads
  <2>4. QED
    BY <2>2, <2>3 DEF ReadableDivisions, ActorDivisions, Staffs, Within, If
<1>8. CASE op[1] = "member" /\ op[2] \in {"update", "linkAccess"}
  <2>1. "ADD_MEMBER" \in p.rights
    BY <1>1, <1>8, MemberNeeds DEF Within
  <2>2. QED
    BY <1>8, <2>1 DEF Scope, May, If, AdminCode, MemberReads, Within
<1>9. QED
  BY <1>1, <1>2, <1>3, <1>4, <1>5, <1>6, <1>7, <1>8 DEF Kinds
----------------------------------------------------------------------------
(* The invariant *)

\* The powers o are no more than p.
Fewer(o, p) ==
    /\ o.role = p.role
    /\ o.rights \subseteq p.rights
    /\ o.led \subseteq p.led
    /\ o.staffed \subseteq p.staffed
    /\ o.here \subseteq p.here

\* What r has read and may still read is part of the powers p, which entitle to no
\* more than its actor was entitled to on arrival.
Powered(r, p) ==
    LET q == request[r]
    IN  /\ May(q.op, p) \subseteq q.entitled
        /\ Fewer(Held(r), p)
        /\ q.pc # "arrived" => p.role # None
        /\ q.pc \in {"rights", "actor", "loaded"} => q.rights \subseteq p.rights
        /\ q.pc \in {"leads", "actor", "loaded"} => q.leads \subseteq p.led
        /\ q.pc = "loaded" =>
              /\ Passes(q.op, q.role, q.rights)
              /\ NamesTeam(q.op) =>
                    /\ q.found.division \in Division
                    /\ q.linked /\ q.found.lead = q.actor => q.found.division \in p.here

Limited(r) ==
    IF request[r].pc \in Undecided THEN \E p : Powered(r, p)
    ELSE request[r].scope \subseteq request[r].entitled

AuthorityInv ==
    /\ Named
    /\ DOMAIN team = Team
    /\ \A t \in Team : Exists(t) => team[t].division \in Division
    /\ \A r \in Request : Active(r) /\ ~gained[r] => Limited(r)

----------------------------------------------------------------------------
(* What steps leave alone *)

\* No team changes its division.
Stays ==
    /\ DOMAIN team' = Team
    /\ \A t \in Team : Exists(t)' => team'[t].division \in Division

\* The steps before a decision, which change nothing but the request.
Reads(r) ==
    \/ \E m \in Member, op \in Op : \E goal \in Goals[op] : Arrive(r, m, op, goal)
    \/ ReadProfile(r) \/ ReadRights(r) \/ ReadLeads(r) \/ Load(r) \/ Decide(r)
    \/ Fail(r)

LEMMA ReadsAlone ==
    ASSUME NEW r \in Request, Reads(r)
    PROVE  UNCHANGED <<permissionVars, orgVars>>
BY DEF Reads, Arrive, ReadProfile, ReadRights, ReadLeads, Load, Decide, Fail

LEMMA StepStays ==
    ASSUME AuthorityInv, NEW r \in Request, Step(r)
    PROVE  Stays
<1> USE DEF AuthorityInv, Stays, Exists
<1>1. CASE Reads(r)
  BY <1>1, ReadsAlone DEF orgVars
<1>2. CASE Answer(r) \/ StartReplacement(r) \/ FinishReplacement(r) \/ Reply(r)
  BY <1>2 DEF Answer, StartReplacement, FinishReplacement, Reply, orgVars
<1>3. CASE RevokeDivisionLead(r) \/ UpdateMember(r) \/ AssignUserRole(r) \/ RevokeUserRole(r)
           \/ Activate(r)
  BY <1>3 DEF RevokeDivisionLead, UpdateMember, AssignUserRole, RevokeUserRole, Activate
<1>4. CASE AssignDivisionLead(r)
  BY <1>4 DEF AssignDivisionLead
<1>5. CASE LinkAccess(r)
  BY <1>5 DEF LinkAccess
<1>6. CASE \E t \in Team : CreateTeam(r, t)
  <2>1. PICK t \in Team : CreateTeam(r, t)
    BY <1>6
  <2>2. request[r].op = <<"team", "create">> /\ request[r].goal \in Goals[request[r].op]
    BY <2>1 DEF CreateTeam, Handler, At, Active, Working, Named, IsTask
  <2>3. request[r].goal.division \in Division
    <3>1. "division" \in Names(request[r].op).needs
      BY <2>2 DEF Names, TeamNames, Naming
    <3>2. request[r].op \in Op
      BY <2>1 DEF CreateTeam, Handler, At, Active, Working, Named, IsTask
    <3>3. QED
      BY <2>2, <3>1, <3>2 DEF Goals, Values
  <2>4. /\ team' = [team EXCEPT ![t] = [division |-> request[r].goal.division,
                                        lead |-> request[r].goal.member]]
        /\ team[t] = None
        /\ UNCHANGED linked
    BY <2>1 DEF CreateTeam
  <2>5. QED
    BY <2>3, <2>4
<1>7. CASE AssignTeamLead(r)
  BY <1>7 DEF AssignTeamLead
<1>8. CASE DeleteTeam(r)
  BY <1>8 DEF DeleteTeam
<1>9. QED
  BY <1>1, <1>2, <1>3, <1>4, <1>5, <1>6, <1>7, <1>8 DEF Step, Reads

LEMMA OthersAlone ==
    ASSUME Named, NEW r \in Request, Step(r), NEW s \in Request, s # r
    PROVE  request'[s] = request[s]
<1>1. \E q : Become(r, q)
  <2>1. CASE Reads(r)
    BY <2>1 DEF Reads, Arrive, ReadProfile, ReadRights, ReadLeads, Load, Decide, Fail
  <2>2. CASE Serves(r)
    BY <2>2, ServesAlone DEF Serve
  <2>3. CASE StartReplacement(r) \/ FinishReplacement(r) \/ Reply(r)
    BY <2>3 DEF StartReplacement, FinishReplacement, Reply, Serve
  <2>4. QED
    BY <2>1, <2>2, <2>3 DEF Step, Reads, Serves
<1>2. QED
  BY <1>1 DEF Become, Named

LEMMA FewerAgain ==
    ASSUME NEW a, NEW b, NEW c, Fewer(a, b), Fewer(b, c)
    PROVE  Fewer(a, c)
BY DEF Fewer

\* Powers entitle to no more than those they are part of.
LEMMA MayFewer ==
    ASSUME NEW op, op \in Op, NEW o, NEW p, Fewer(o, p)
    PROVE  May(op, o) \subseteq May(op, p)
<1>1. Kinds(op) /\ op \in Operations
  BY KindOf
<1>2. Manages(o) \subseteq Manages(p) /\ Staffs(o) \subseteq Staffs(p)
  BY DEF Fewer, Manages, Staffs
<1>3. o.role = p.role /\ o.rights \subseteq p.rights /\ o.here \subseteq p.here
  BY DEF Fewer
<1>4. CASE op[1] \in DOMAIN AdminCode \cup {"role_permission", "user_role", "user", "company"}
  BY <1>3, <1>4 DEF May, If, AdminCode
<1>5. CASE op[1] = "actor_profile"
  BY <1>3, <1>5 DEF May, If, AdminCode
<1>6. CASE op[1] = "division_lead"
  BY <1>3, <1>6 DEF May, If, AdminCode
<1>7. CASE op[1] = "team" /\ op[2] # "findOne"
  BY <1>2, <1>3, <1>7 DEF May, If, AdminCode
<1>8. CASE op[1] = "team_membership" \/ (op[1] = "team" /\ op[2] = "findOne")
  <2>1. op = <<"team", "findOne">> \/ op[1] = "team_membership"
    BY <1>1, <1>8 DEF Operations
  <2>2. May(op, o) = If("ASSIGN_MEMBER" \in o.rights, Manages(o) \cup o.here)
    BY <1>8, <2>1 DEF May, If, AdminCode
  <2>3. May(op, p) = If("ASSIGN_MEMBER" \in p.rights, Manages(p) \cup p.here)
    BY <1>8, <2>1 DEF May, If, AdminCode
  <2>4. QED
    BY <1>2, <1>3, <2>2, <2>3 DEF If
<1>9. CASE op[1] = "member" /\ op[2] \in {"create"} \cup MemberReads
  BY <1>2, <1>3, <1>9 DEF May, If, AdminCode, MemberReads
<1>10. CASE op[1] = "member" /\ op[2] \in {"update", "linkAccess"}
  BY <1>3, <1>10 DEF May, If, AdminCode, MemberReads
<1>11. QED
  BY <1>1, <1>4, <1>5, <1>6, <1>7, <1>8, <1>9, <1>10 DEF Kinds

\* A request that does not move stays limited while it is given nothing.
LEMMA WaitingLimited ==
    ASSUME AuthorityInv, NEW r \in Request, Active(r), Limited(r),
           request'[r] = request[r], request[r].pc \in Undecided => ~Grows(r)
    PROVE  Limited(r)'
<1>1. CASE request[r].pc \in Undecided
  <2>1. PICK p : Powered(r, p)
    BY <1>1 DEF Limited
  <2>2. PICK o, n : o = Held(r) /\ n = Held(r)'
    OBVIOUS
  <2>3. request[r].op \in Op /\ Fewer(o, p) /\ May(request[r].op, p) \subseteq request[r].entitled
    BY <2>1, <2>2 DEF Powered, AuthorityInv, Named, IsTask
  <2>4. CASE n.role = o.role
    <3>1. Fewer(n, o)
      BY <1>1, <2>2, <2>4 DEF Grows, Fewer
    <3>2. Fewer(n, p)
      BY <2>3, <3>1, FewerAgain
    <3>3. Powered(r, p)'
      BY <2>1, <2>2, <3>2 DEF Powered
    <3>4. QED
      BY <1>1, <3>3 DEF Limited
  <2>5. CASE n.role # o.role
    <3>1. request[r].pc = "arrived"
      BY <2>2, <2>5 DEF Held, Powers, At
    <3>2. May(request[r].op, n) \subseteq May(request[r].op, o)
      BY <1>1, <2>2, <2>5 DEF Grows
    <3>3. May(request[r].op, o) \subseteq May(request[r].op, p)
      BY <2>3, MayFewer
    <3>4. May(request[r].op, n) \subseteq request[r].entitled
      BY <2>3, <3>2, <3>3
    <3>5. Fewer(n, n)
      BY DEF Fewer
    <3>6. Powered(r, n)'
      BY <2>2, <3>1, <3>4, <3>5 DEF Powered
    <3>7. QED
      BY <1>1, <3>6 DEF Limited
  <2>6. QED
    BY <2>4, <2>5
<1>2. CASE request[r].pc \notin Undecided
  BY <1>2 DEF Limited
<1>3. QED
  BY <1>1, <1>2

----------------------------------------------------------------------------
(* The steps of the request itself *)

\* Before the decision a request changes nobody's powers.
LEMMA SamePowers ==
    ASSUME UNCHANGED <<permissionVars, orgVars>>
    PROVE  /\ \A m, c, b, t : Powers(m, c, b, t)' = Powers(m, c, b, t)
           /\ \A m, t : OwnPowers(m, t)' = OwnPowers(m, t)
<1>1. \A m, c, b, t : Powers(m, c, b, t)' = Powers(m, c, b, t)
  BY DEF permissionVars, orgVars, Powers, Exists
<1>2. \A m, t : OwnPowers(m, t)' = OwnPowers(m, t)
  BY <1>1 DEF OwnPowers, orgVars, permissionVars, Powers, Exists
<1>3. QED
  BY <1>1, <1>2

LEMMA ArriveLimited ==
    ASSUME AuthorityInv, NEW r \in Request, NEW m \in Member, NEW op \in Op,
           NEW goal \in Goals[op], Arrive(r, m, op, goal)
    PROVE  Limited(r)'
<1>1. PICK p : p = OwnPowers(m, goal.team)
  OBVIOUS
<1>2. /\ request'[r].pc = "arrived" /\ request'[r].op = op /\ request'[r].actor = m
      /\ request'[r].goal = goal /\ request'[r].entitled = May(op, p)
  BY <1>1 DEF Arrive, Become, AuthorityInv, Named
<1>3. OwnPowers(m, goal.team)' = p
  BY <1>1, SamePowers DEF Arrive
<1>4. Held(r)' = p
  BY <1>2, <1>3 DEF Held, At, OwnPowers, Powers, Exists
<1>5. Powered(r, p)'
  BY <1>2, <1>4 DEF Powered, Fewer
<1>6. QED
  BY <1>2, <1>5 DEF Limited, Undecided

\* What a step adds to the record of a request that goes by the powers p.
LEMMA LearnLimited ==
    ASSUME AuthorityInv, NEW r \in Request, NEW p, Powered(r, p),
           UNCHANGED <<permissionVars, orgVars>>, NEW q, Become(r, q),
           q.pc \in Undecided, q.pc # "arrived",
           q.op = request[r].op, q.actor = request[r].actor, q.goal = request[r].goal,
           q.entitled = request[r].entitled,
           Powers(q.actor, q.role, q.linked, q.goal.team) = Held(r), p.role # None,
           q.pc \in {"rights", "actor", "loaded"} => q.rights \subseteq p.rights,
           q.pc \in {"leads", "actor", "loaded"} => q.leads \subseteq p.led,
           q.pc = "loaded" =>
              /\ Passes(q.op, q.role, q.rights)
              /\ NamesTeam(q.op) =>
                    /\ q.found.division \in Division
                    /\ q.linked /\ q.found.lead = q.actor => q.found.division \in p.here
    PROVE  Limited(r)'
<1>1. request'[r] = q
  BY DEF Become, AuthorityInv, Named
<1>2. Powers(q.actor, q.role, q.linked, q.goal.team)'
        = Powers(q.actor, q.role, q.linked, q.goal.team)
  BY SamePowers
<1>3. Held(r)' = Held(r)
  <2>1. Held(r)' = Powers(q.actor, q.role, q.linked, q.goal.team)'
    BY <1>1 DEF Held, At
  <2>2. QED
    BY <1>2, <2>1
<1>4. Fewer(Held(r), p) /\ May(q.op, p) \subseteq q.entitled
  BY DEF Powered
<1>5. Powered(r, p)'
  BY <1>1, <1>3, <1>4 DEF Powered
<1>6. QED
  BY <1>1, <1>5 DEF Limited

LEMMA ReadProfileLimited ==
    ASSUME AuthorityInv, NEW r \in Request, NEW p, Powered(r, p), ReadProfile(r)
    PROVE  Limited(r)'
<1> DEFINE m == request[r].actor
           q == [request[r] EXCEPT !.pc = "profile", !.role = acting[m],
                                   !.linked = acting[m] \in linked[m]]
<1>1. IsTask(request[r]) /\ request[r].pc = "arrived" /\ acting[m] # None
  BY DEF ReadProfile, At, Active, Working, AuthorityInv, Named
<1>2. /\ q.pc = "profile" /\ q.op = request[r].op /\ q.actor = m
      /\ q.goal = request[r].goal /\ q.entitled = request[r].entitled
      /\ q.role = acting[m] /\ q.linked = (acting[m] \in linked[m])
  BY <1>1 DEF IsTask, Fields
<1>3. Held(r) = Powers(m, acting[m], acting[m] \in linked[m], request[r].goal.team)
  BY <1>1 DEF Held, At, OwnPowers
<1>4. p.role # None
  BY <1>1, <1>3 DEF Powered, Fewer, Powers
<1>5. UNCHANGED <<permissionVars, orgVars>> /\ Become(r, q)
  BY DEF ReadProfile
<1> HIDE DEF q
<1>6. QED
  BY <1>2, <1>3, <1>4, <1>5, LearnLimited DEF Undecided

\* What the actor has in the role that r has read.
LEMMA HeldInRole ==
    ASSUME NEW r \in Request, NEW p, Powered(r, p), request[r].pc # "arrived"
    PROVE  LET q == request[r]
           IN  /\ Held(r) = Powers(q.actor, q.role, q.linked, q.goal.team)
               /\ q.role = p.role /\ p.role # None
               /\ allowed[q.role] \subseteq p.rights
               /\ {d \in Division : q.linked /\ led[d] = q.actor} \subseteq p.led
               /\ \A u \in Team : q.linked /\ Exists(u) /\ team[u].lead = q.actor =>
                     /\ team[u].division \in p.staffed
                     /\ u = q.goal.team => team[u].division \in p.here
<1> DEFINE q == request[r]
           mine == {u \in Team : q.linked /\ Exists(u) /\ team[u].lead = q.actor}
<1>1. Held(r) = Powers(q.actor, q.role, q.linked, q.goal.team)
  BY DEF Held, At
<1>2. Fewer(Powers(q.actor, q.role, q.linked, q.goal.team), p) /\ p.role # None
  BY <1>1 DEF Powered
<1>3. /\ q.role = p.role
      /\ allowed[q.role] \subseteq p.rights
      /\ {d \in Division : q.linked /\ led[d] = q.actor} \subseteq p.led
      /\ {team[u].division : u \in mine} \subseteq p.staffed
      /\ {team[u].division : u \in mine \cap {q.goal.team}} \subseteq p.here
  BY <1>2 DEF Fewer, Powers
<1>4. QED
  BY <1>1, <1>2, <1>3

LEMMA ReadRightsLimited ==
    ASSUME AuthorityInv, NEW r \in Request, NEW p, Powered(r, p), ReadRights(r)
    PROVE  Limited(r)'
<1> DEFINE s == IF At(r, "profile") THEN "rights" ELSE "actor"
           q == [request[r] EXCEPT !.pc = s, !.rights = allowed[request[r].role]]
<1>1. IsTask(request[r]) /\ request[r].pc \in {"profile", "leads"}
  BY DEF ReadRights, At, Active, Working, AuthorityInv, Named
<1>2. /\ q.pc = s /\ q.op = request[r].op /\ q.actor = request[r].actor
      /\ q.goal = request[r].goal /\ q.entitled = request[r].entitled
      /\ q.role = request[r].role /\ q.linked = request[r].linked
      /\ q.leads = request[r].leads /\ q.rights = allowed[request[r].role]
  BY <1>1 DEF IsTask, Fields
<1>3. s = "actor" => request[r].leads \subseteq p.led
  BY <1>1 DEF Powered, At
<1>4. /\ Held(r) = Powers(q.actor, q.role, q.linked, q.goal.team)
      /\ p.role # None /\ q.rights \subseteq p.rights
  BY <1>1, <1>2, HeldInRole
<1>5. UNCHANGED <<permissionVars, orgVars>> /\ Become(r, q)
  BY DEF ReadRights
<1>6. s \in {"rights", "actor"}
  OBVIOUS
<1> HIDE DEF q, s
<1>7. QED
  BY <1>2, <1>3, <1>4, <1>5, <1>6, LearnLimited DEF Undecided

LEMMA ReadLeadsLimited ==
    ASSUME AuthorityInv, NEW r \in Request, NEW p, Powered(r, p), ReadLeads(r)
    PROVE  Limited(r)'
<1> DEFINE s == IF At(r, "profile") THEN "leads" ELSE "actor"
           L == {d \in Division : request[r].linked /\ led[d] = request[r].actor}
           q == [request[r] EXCEPT !.pc = s, !.leads = L]
<1>1. IsTask(request[r]) /\ request[r].pc \in {"profile", "rights"}
  BY DEF ReadLeads, At, Active, Working, AuthorityInv, Named
<1>2. /\ q.pc = s /\ q.op = request[r].op /\ q.actor = request[r].actor
      /\ q.goal = request[r].goal /\ q.entitled = request[r].entitled
      /\ q.role = request[r].role /\ q.linked = request[r].linked
      /\ q.rights = request[r].rights /\ q.leads = L
  BY <1>1 DEF IsTask, Fields
<1>3. s = "actor" => request[r].rights \subseteq p.rights
  BY <1>1 DEF Powered, At
<1>4. /\ Held(r) = Powers(q.actor, q.role, q.linked, q.goal.team)
      /\ p.role # None /\ q.leads \subseteq p.led
  BY <1>1, <1>2, HeldInRole
<1>5. UNCHANGED <<permissionVars, orgVars>> /\ Become(r, q)
  BY DEF ReadLeads
<1>6. s \in {"leads", "actor"}
  OBVIOUS
<1> HIDE DEF q, s, L
<1>7. QED
  BY <1>2, <1>3, <1>4, <1>5, <1>6, LearnLimited DEF Undecided

\* A request about a team names one.
LEMMA TeamNamed ==
    ASSUME NEW q, IsTask(q), NamesTeam(q.op)
    PROVE  q.goal.team \in Team /\ q.goal.team # None
<1>1. q.goal.team \in Team
  BY DEF IsTask, Goals, Values, NamesTeam
<1>2. QED
  BY <1>1, AuthorityAssumption

LEMMA NamingTeams ==
    ASSUME NEW op, NamesTeam(op)
    PROVE  op[1] \in {"team", "team_membership"}
BY DEF NamesTeam, Names, MemberNames, DivisionLeadNames, RolePermissionNames, UserRoleNames,
       ActorProfileNames, Naming

LEMMA LoadLimited ==
    ASSUME AuthorityInv, NEW r \in Request, NEW p, Powered(r, p), Load(r)
    PROVE  Limited(r)'
<1> DEFINE o == request[r]
           q == [o EXCEPT !.pc = "loaded", !.found = Found(o)]
<1>1. IsTask(o) /\ o.pc = "actor" /\ Passes(o.op, o.role, o.rights)
  BY DEF Load, At, Active, Working, AuthorityInv, Named
<1>2. /\ q.pc = "loaded" /\ q.op = o.op /\ q.actor = o.actor
      /\ q.goal = o.goal /\ q.entitled = o.entitled
      /\ q.role = o.role /\ q.linked = o.linked
      /\ q.rights = o.rights /\ q.leads = o.leads /\ q.found = Found(o)
  BY <1>1 DEF IsTask, Fields
<1>3. o.rights \subseteq p.rights /\ o.leads \subseteq p.led
  BY <1>1 DEF Powered
<1>4. /\ Held(r) = Powers(q.actor, q.role, q.linked, q.goal.team) /\ p.role # None
      /\ \A u \in Team : o.linked /\ Exists(u) /\ team[u].lead = o.actor /\ u = o.goal.team =>
            team[u].division \in p.here
  BY <1>1, <1>2, HeldInRole
<1>5. ASSUME NamesTeam(o.op)
      PROVE  /\ Found(o).division \in Division
             /\ o.linked /\ Found(o).lead = o.actor => Found(o).division \in p.here
  <2>1. o.goal.team \in Team /\ o.goal.team # None /\ Exists(o.goal.team)
    BY <1>1, <1>5, TeamNamed DEF Load
  <2>2. Found(o) = team[o.goal.team]
    <3>1. Exists(o.goal.team) /\ o.op[1] \in {"team", "team_membership"}
      BY <1>1, <1>5, <2>1, NamingTeams DEF IsTask
    <3>2. QED
      BY <2>1, <3>1 DEF Found
  <2>3. Found(o).division \in Division
    BY <2>1, <2>2 DEF AuthorityInv
  <2>4. o.linked /\ Found(o).lead = o.actor => Found(o).division \in p.here
    BY <1>4, <2>1, <2>2
  <2>5. QED
    BY <2>3, <2>4
<1>6. UNCHANGED <<permissionVars, orgVars>> /\ Become(r, q)
  BY DEF Load
<1> HIDE DEF q, o
<1>7. QED
  BY <1>1, <1>2, <1>3, <1>4, <1>5, <1>6, LearnLimited DEF Undecided, o

LEMMA DecideLimited ==
    ASSUME AuthorityInv, NEW r \in Request, NEW p, Powered(r, p), Decide(r)
    PROVE  Limited(r)'
<1> DEFINE o == request[r]
<1>1. IsTask(o) /\ o.pc = "loaded"
  BY DEF Decide, At, Active, Working, AuthorityInv, Named
<1>2. May(o.op, p) \subseteq o.entitled /\ Passes(o.op, o.role, o.rights)
  BY <1>1 DEF Powered
<1>3. Within(o, p)
  <2>1. /\ o.role = p.role /\ p.role # None
        /\ \A u \in Team : o.linked /\ Exists(u) /\ team[u].lead = o.actor =>
              team[u].division \in p.staffed
    BY <1>1, HeldInRole
  <2>2. o.linked => LedTeamDivision(o.actor) \subseteq p.staffed
    BY <2>1 DEF LedTeamDivision
  <2>3. QED
    BY <1>1, <2>1, <2>2 DEF Powered, Within
<1>4. Scope(o) \subseteq o.entitled
  BY <1>1, <1>2, <1>3, DecisionWithin DEF IsTask
<1>5. request'[r] = [o EXCEPT !.pc = "decided", !.scope = Reach(o)]
  BY DEF Decide, Become, AuthorityInv, Named
<1>6. request'[r].pc = "decided" /\ request'[r].scope = Reach(o)
      /\ request'[r].entitled = o.entitled
  BY <1>1, <1>5 DEF IsTask, Fields
<1>7. Reach(o) \subseteq Scope(o)
  BY DEF Reach
<1>8. QED
  BY <1>4, <1>6, <1>7 DEF Limited, Undecided

\* What follows a decision does not touch it.
LEMMA DecidedLimited ==
    ASSUME AuthorityInv, NEW r \in Request, Active(r), Limited(r),
           request[r].pc \notin Undecided,
           NEW s \in {"replacing", "served"}, Become(r, [request[r] EXCEPT !.pc = s])
    PROVE  Limited(r)'
<1>1. IsTask(request[r])
  BY DEF AuthorityInv, Named
<1>2. request'[r] = [request[r] EXCEPT !.pc = s]
  BY DEF Become, AuthorityInv, Named
<1>3. request'[r].pc = s /\ request'[r].scope = request[r].scope
      /\ request'[r].entitled = request[r].entitled
  BY <1>1, <1>2 DEF IsTask, Fields
<1>4. QED
  BY <1>3 DEF Limited, Undecided

LEMMA OwnLimited ==
    ASSUME AuthorityInv, NEW r \in Request, Step(r), Active(r)', ~gained[r]
    PROVE  Limited(r)'
<1>1. CASE \E m \in Member, op \in Op : \E goal \in Goals[op] : Arrive(r, m, op, goal)
  BY <1>1, ArriveLimited
<1>2. CASE ReadProfile(r) \/ ReadRights(r) \/ ReadLeads(r) \/ Load(r) \/ Decide(r)
  <2>1. request[r].pc \in Undecided /\ Active(r)
    BY <1>2 DEF ReadProfile, ReadRights, ReadLeads, Load, Decide, At, Active, Working, Undecided
  <2>2. PICK p : Powered(r, p)
    BY <2>1 DEF AuthorityInv, Limited
  <2>3. QED
    BY <1>2, <2>2, ReadProfileLimited, ReadRightsLimited, ReadLeadsLimited, LoadLimited,
       DecideLimited
<1>3. ASSUME Become(r, Done) PROVE FALSE
  BY <1>3 DEF Become, Done, Active, Working, AuthorityInv, Named
<1>4. CASE Fail(r) \/ Reply(r)
  BY <1>3, <1>4 DEF Fail, Reply
<1>5. ASSUME At(r, "decided") \/ At(r, "replacing"),
             NEW s \in {"replacing", "served"}, Become(r, [request[r] EXCEPT !.pc = s])
      PROVE  Limited(r)'
  <2>1. Active(r) /\ request[r].pc \notin Undecided
    BY <1>5 DEF At, Active, Working, Undecided
  <2>2. QED
    BY <1>5, <2>1, DecidedLimited DEF AuthorityInv
<1>6. CASE Serves(r)
  BY <1>5, <1>6, ServesAlone DEF Serve
<1>7. CASE StartReplacement(r)
  BY <1>5, <1>7 DEF StartReplacement, Handler
<1>8. CASE FinishReplacement(r)
  BY <1>3, <1>5, <1>8 DEF FinishReplacement, Serve
<1>9. QED
  BY <1>1, <1>2, <1>4, <1>6, <1>7, <1>8 DEF Step, Serves

\* Whoever is still without a gain was given nothing in this step.
LEMMA StillWithout ==
    ASSUME AuthorityInv, Next, NEW r \in Request, Active(r)', ~gained'[r]
    PROVE  /\ ~gained[r]
           /\ request[r].pc \in Undecided => ~Grows(r)
<1>1. request'[r] # Done
  BY DEF Active, Working, Done
<1>2. gained'[r] = (request'[r] # Done /\
          \/ gained[r]
          \/ request[r].pc \in Undecided /\ Grows(r))
  BY DEF Next
<1>3. QED
  BY <1>1, <1>2

LEMMA ReleaseStays ==
    ASSUME AuthorityInv, Release
    PROVE  Stays
BY DEF Release, orgVars, Stays, AuthorityInv, Exists

LEMMA InitAuthority == Init => AuthorityInv
<1> SUFFICES ASSUME Init PROVE AuthorityInv
  OBVIOUS
<1>1. DOMAIN team = Team
  BY DEF Init
<1>2. \A t \in Team : Exists(t) => team[t].division \in Division
  BY DEF Init, Exists, TeamRow
<1>3. \A r \in Request : ~Active(r)
  BY DEF Init, Idle, Active, Working
<1>4. QED
  BY <1>1, <1>2, <1>3, InitMatrix DEF AuthorityInv

LEMMA NextAuthority == AuthorityInv /\ [Next]_vars => AuthorityInv'
<1> SUFFICES ASSUME AuthorityInv, [Next]_vars PROVE AuthorityInv'
  OBVIOUS
<1>1. CASE UNCHANGED vars
  <2>1. UNCHANGED <<permissionVars, orgVars, request, gained>>
    BY <1>1 DEF vars
  <2>2. Stays /\ Named'
    BY <2>1 DEF orgVars, Stays, AuthorityInv, Exists, Named, Active, IsTask
  <2>3. \A r \in Request : Held(r)' = Held(r)
    BY <2>1 DEF permissionVars, orgVars, Held, OwnPowers, Powers, Exists, At
  <2>4. \A r \in Request : Active(r)' /\ ~gained'[r] => Limited(r)'
    BY <2>1, <2>3, WaitingLimited DEF AuthorityInv, Active, Grows
  <2>5. QED
    BY <2>2, <2>4 DEF AuthorityInv, Stays
<1>2. CASE Next
  <2>1. Stays /\ Named'
    BY <1>2, StepStays, ReleaseStays, StepOfMatrix DEF Next, AuthorityInv, Release, Named, Active,
                                                       IsTask
  <2>2. ASSUME NEW r \in Request, Active(r)', ~gained'[r]
        PROVE  Limited(r)'
    <3>1. ~gained[r] /\ (request[r].pc \in Undecided => ~Grows(r))
      BY <1>2, <2>2, StillWithout
    <3>2. CASE Step(r)
      BY <2>2, <3>1, <3>2, OwnLimited
    <3>3. CASE request'[r] = request[r]
      <4>1. Active(r) /\ Limited(r)
        BY <2>2, <3>1, <3>3 DEF AuthorityInv, Active
      <4>2. QED
        BY <2>1, <3>1, <3>3, <4>1, WaitingLimited
    <3>4. QED
      BY <1>2, <3>2, <3>3, OthersAlone DEF Next, Release, AuthorityInv
  <2>3. QED
    BY <2>1, <2>2 DEF AuthorityInv, Stays
<1>3. QED
  BY <1>1, <1>2

\* For any number of actors, requests, roles and teams, and whatever else runs
\* meanwhile, a request that is served (TeamService, MemberService and the other
\* handlers behind ObjectScopeGuard) reaches only what its actor was entitled to
\* on arrival, unless the actor was given something while it ran; having a role
\* taken away or exchanged for one that entitles it to no more does not count.
THEOREM NobodyExceedsGrants == Spec => []NothingUngranted
<1>1. AuthorityInv => NothingUngranted
  BY DEF AuthorityInv, NothingUngranted, At, Active, Working, Limited, Undecided
<1>2. QED
  BY <1>1, InitAuthority, NextAuthority, PTL DEF Spec

----------------------------------------------------------------------------
(* The last administrator.  Transactions decide on old snapshots, so no    *)
(* single state shows that one remains.  The invariant says what each      *)
(* transaction still knows, and that the order PostgreSQL guarantees is    *)
(* there (NoStructure); the theorem looks at the removal that comes last   *)
(* in that order.                                                          *)

\* The rows of d have owners, and nobody has two.
Owned(d) ==
    /\ \A a \in d.held : owner[a] \in User
    /\ \A a, b \in d.held : owner[a] = owner[b] => a = b

\* A transaction that has begun.
Begun(x) ==
    /\ x.op \in {"deactivate", "activate", "revoke"}
    /\ x.op = "activate" => x.user \in User
    /\ x.snapshot \in Rows /\ Owned(x.snapshot)
    /\ x.start \in Nat /\ x.start <= clock

\* A row that is not as x has seen it was written by a transaction that committed since.
Explained(x) ==
    /\ \A u \in x.snapshot.active \ db.active : \E t \in Committed :
          /\ x.start < t.end
          /\ t.op = "deactivate" /\ t.user = u /\ u \in t.snapshot.active
    /\ \A u \in db.active \ x.snapshot.active : \E t \in Committed :
          /\ x.start < t.end
          /\ t.op = "activate" /\ t.user = u
    /\ \A a \in x.snapshot.held \ db.held : \E t \in Committed :
          /\ x.start < t.end
          /\ t.op = "revoke" /\ t.assignment = a

\* What is known of a committed transaction: what it has counted was enough.
Settled(x) ==
    /\ x.end \in Nat /\ x.start < x.end /\ x.end <= clock
    /\ ~WouldLeaveNone(x)

\* No transaction reads before one that reads before an earlier one, unless it has
\* committed before all of them.
NoStructure ==
    \A s, p, t \in Committed :
        /\ s # p
        /\ ReadsBefore(s, p)
        /\ ReadsBefore(p, t)
        /\ t.end < p.end
        => s.end < t.end

\* The transactions that have removed an administrator they knew of.
Removal(x) ==
    \/ x.op = "revoke"
    \/ x.op = "deactivate" /\ x.user \in Admins(x.snapshot)

\* A deactivation that started before its user was granted the role.
Raced(x) == x.op = "deactivate" /\ x.user \notin Holders(x.snapshot)

RowsInv ==
    /\ db \in Rows /\ Owned(db)
    /\ owner \in [Assignment -> User \cup {NoUser}]
    /\ clock \in Nat

TransactionsInv ==
    /\ DOMAIN transaction = Transaction
    /\ \A r \in Transaction : Is(r, "open") \/ Is(r, "committed") =>
          Begun(transaction[r]) /\ Explained(transaction[r])
    /\ \A x \in Committed : Settled(x)
    /\ \A x, y \in Committed : x.end = y.end => x = y

\* Before anyone is removed, an administrator of the beginning is there.
FirstRemains ==
    \/ \E x \in Committed : Removal(x)
    \/ \E a \in db.held :
          \/ owner[a] \in db.active
          \/ \E t \in Committed : Raced(t) /\ t.user = owner[a]

RetentionInv == RowsInv /\ TransactionsInv /\ NoStructure /\ FirstRemains

----------------------------------------------------------------------------
(* Reading and writing *)

\* A grant gives a row an owner that had none: every snapshot is read as before.
OwnersKept == \A a \in Assignment : owner[a] \in User => owner'[a] = owner[a]

LEMMA SameReads ==
    ASSUME NEW d, d.held \subseteq Assignment, Owned(d), OwnersKept
    PROVE  /\ Owned(d)' /\ Holders(d)' = Holders(d)
           /\ Admins(d)' = Admins(d) /\ Counted(d)' = Counted(d)
<1>1. \A a \in d.held : owner'[a] = owner[a]
  BY DEF Owned, OwnersKept
<1> QED BY <1>1 DEF Owned, Holders, Admins, Counted

\* What a transaction writes.
LEMMA Written ==
    ASSUME NEW d \in Rows, NEW x, Begun(x), NEW e, e = WriteOf(x, d)
    PROVE  /\ e.active = CASE x.op = "deactivate" -> d.active \ {x.user}
                           [] x.op = "activate" -> d.active \cup {x.user}
                           [] x.op = "revoke" -> d.active
           /\ e.held = IF x.op = "revoke" THEN d.held \ {x.assignment} ELSE d.held
<1>1. CASE x.op = "deactivate"
  BY <1>1 DEF WriteOf, Rows
<1>2. CASE x.op = "activate"
  BY <1>2 DEF WriteOf, Rows
<1>3. CASE x.op = "revoke"
  BY <1>3 DEF WriteOf, Rows
<1> QED BY <1>1, <1>2, <1>3 DEF Begun

LEMMA WrittenOwned ==
    ASSUME NEW d \in Rows, Owned(d), NEW x, Begun(x), NEW e, e = WriteOf(x, d)
    PROVE  e.held \subseteq Assignment /\ Owned(e)
<1>1. e.held \subseteq d.held
  BY Written
<1> QED BY <1>1 DEF Owned, Rows

LEMMA SameReadsBefore ==
    ASSUME OwnersKept, NEW s, Begun(s), NEW t, Begun(t)
    PROVE  ReadsBefore(s, t)' <=> ReadsBefore(s, t)
<1>1. PICK e : e = WriteOf(t, s.snapshot)
  OBVIOUS
<1>2. ASSUME NEW d, d.held \subseteq Assignment, Owned(d)
      PROVE  ReadOf(s, d)' = ReadOf(s, d)
  BY <1>2, SameReads DEF ReadOf
<1>3. ReadOf(s, s.snapshot)' = ReadOf(s, s.snapshot)
  BY <1>2 DEF Begun, Rows
<1>4. ReadOf(s, e)' = ReadOf(s, e)
  BY <1>1, <1>2, WrittenOwned DEF Begun
<1> QED BY <1>1, <1>3, <1>4 DEF ReadsBefore, WriteOf, Overlap

LEMMA SameDecision ==
    ASSUME OwnersKept, NEW x, Begun(x)
    PROVE  /\ WouldLeaveNone(x)' <=> WouldLeaveNone(x)
           /\ Removal(x)' <=> Removal(x)
           /\ Raced(x)' <=> Raced(x)
<1>1. x.snapshot.held \subseteq Assignment /\ Owned(x.snapshot)
  BY DEF Begun, Rows
<1>2. PICK s : s = x.snapshot
  OBVIOUS
<1>3. /\ Holders(s)' = Holders(s)
      /\ Admins(s)' = Admins(s) /\ Counted(s)' = Counted(s)
  BY <1>1, <1>2, SameReads
<1> QED BY <1>2, <1>3 DEF WouldLeaveNone, Removal, Raced

\* Who reads the administrators sees one of them lose the account or the role.
LEMMA SeesDeactivation ==
    ASSUME NEW x, Begun(x), Removal(x), NEW t, Begun(t), t.op = "deactivate",
           t.user \in Admins(x.snapshot), Overlap(x, t)
    PROVE  ReadsBefore(x, t)
<1>1. PICK d \in Rows : d = x.snapshot /\ Owned(d)
  BY DEF Begun
<1>2. PICK e : e = WriteOf(t, d)
  OBVIOUS
<1>3. e.active = d.active \ {t.user} /\ e.held = d.held
  BY <1>2, Written
<1>4. t.user \in Admins(d) \ Admins(e)
  BY <1>1, <1>3 DEF Admins
<1>5. CASE x.op = "deactivate"
  <2>1. x.user \in Admins(d)
    BY <1>1, <1>5 DEF Removal
  <2>2. ReadOf(x, d) = Admins(d) /\ ReadOf(x, e) \subseteq Admins(e)
    BY <1>5, <2>1 DEF ReadOf
  <2> QED BY <1>1, <1>2, <1>4, <2>2 DEF ReadsBefore
<1>6. CASE x.op = "revoke"
  <2>1. ReadOf(x, d) = Counted(d) /\ ReadOf(x, e) = Counted(e)
    BY <1>6 DEF ReadOf
  <2>2. PICK a \in d.held : owner[a] = t.user
    BY <1>4 DEF Admins, Holders
  <2>3. a \in Counted(d) \ Counted(e)
    BY <1>3, <1>4, <2>2 DEF Counted, Admins
  <2> QED BY <1>1, <1>2, <2>1, <2>3 DEF ReadsBefore
<1> QED BY <1>5, <1>6 DEF Removal

LEMMA SeesRevocation ==
    ASSUME NEW x, Begun(x), Removal(x), NEW t, Begun(t), t.op = "revoke",
           t.assignment \in Counted(x.snapshot), Overlap(x, t)
    PROVE  ReadsBefore(x, t)
<1>1. PICK d \in Rows : d = x.snapshot /\ Owned(d)
  BY DEF Begun
<1>2. PICK e : e = WriteOf(t, d)
  OBVIOUS
<1>3. e.active = d.active /\ e.held = d.held \ {t.assignment}
  BY <1>2, Written
<1>4. t.assignment \in Counted(d) \ Counted(e)
  BY <1>1, <1>3 DEF Counted
<1>5. CASE x.op = "deactivate"
  <2>1. x.user \in Admins(d)
    BY <1>1, <1>5 DEF Removal
  <2>2. ReadOf(x, d) = Admins(d) /\ ReadOf(x, e) \subseteq Admins(e)
    BY <1>5, <2>1 DEF ReadOf
  <2>3. owner[t.assignment] \in Admins(d) \ Admins(e)
    BY <1>1, <1>3, <1>4 DEF Counted, Admins, Holders, Owned
  <2> QED BY <1>1, <1>2, <2>2, <2>3 DEF ReadsBefore
<1>6. CASE x.op = "revoke"
  <2>1. ReadOf(x, d) = Counted(d) /\ ReadOf(x, e) = Counted(e)
    BY <1>6 DEF ReadOf
  <2> QED BY <1>1, <1>2, <1>4, <2>1 DEF ReadsBefore
<1> QED BY <1>5, <1>6 DEF Removal

----------------------------------------------------------------------------
(* The order the committed transactions are equivalent to *)

LEMMA LeastNat ==
    ASSUME NEW S, S \subseteq Nat, S # {}
    PROVE  \E n \in S : \A m \in S : n <= m
<1>1. PICK n \in S : \A m \in S : <<m, n>> \notin OpToRel(<, Nat)
  BY NatLessThanWellFounded, WFMin
<1>2. \A m \in S : ~(m < n)
  BY <1>1 DEF OpToRel
<1> QED BY <1>2

\* A transaction takes effect when it commits, or right before the first of those that
\* have overwritten what it read.  Times are doubled to have room between them.
Points(x) ==
    {2 * x.end} \cup {2 * t.end - 1 : t \in {y \in Committed \ {x} : ReadsBefore(x, y)}}

Point(x) == CHOOSE n \in Points(x) : \A m \in Points(x) : n <= m

LEMMA PointType ==
    ASSUME TransactionsInv, clock \in Nat, NEW x \in Committed
    PROVE  /\ Point(x) \in Points(x) /\ Point(x) \in Nat /\ Point(x) <= 2 * clock
           /\ \A m \in Points(x) : Point(x) <= m
<1>1. \A t \in Committed : t.end \in Nat /\ t.end > 0 /\ t.end <= clock
  <2>1. \A t \in Committed : t.end \in Nat /\ t.start < t.end /\ t.start \in Nat /\ t.end <= clock
    BY DEF TransactionsInv, Settled, Committed, Begun
  <2> QED BY <2>1
<1>2. \A n \in Points(x) : n \in Nat
  BY <1>1 DEF Points
<1>3. 2 * x.end \in Points(x)
  BY DEF Points
<1>4. \E n \in Points(x) : \A m \in Points(x) : n <= m
  BY <1>2, <1>3, LeastNat
<1>5. Point(x) \in Points(x) /\ \A m \in Points(x) : Point(x) <= m
  BY <1>4 DEF Point
<1> QED BY <1>1, <1>2, <1>3, <1>5

\* Who reads before another takes effect before it.
LEMMA PointsFollowReads ==
    ASSUME TransactionsInv, clock \in Nat, NoStructure,
           NEW x \in Committed, NEW t \in Committed, x # t, ReadsBefore(x, t)
    PROVE  Point(x) < Point(t)
<1>1. x.end \in Nat /\ t.end \in Nat
  BY DEF TransactionsInv, Settled
<1>2. 2 * t.end - 1 \in Points(x) /\ 2 * x.end \in Points(x)
  BY DEF Points
<1>3. Point(x) <= 2 * t.end - 1 /\ Point(x) <= 2 * x.end /\ Point(x) \in Nat
  BY <1>2, PointType
<1>4. CASE Point(t) = 2 * t.end
  BY <1>1, <1>3, <1>4
<1>5. CASE Point(t) # 2 * t.end
  <2>1. PICK y \in Committed \ {t} : ReadsBefore(t, y) /\ Point(t) = 2 * y.end - 1
    BY <1>5, PointType DEF Points
  <2>2. Point(t) <= 2 * t.end
    BY PointType DEF Points
  <2>3. y.end \in Nat /\ y.end # t.end
    BY <2>1 DEF TransactionsInv, Settled
  <2>4. y.end < t.end
    BY <1>1, <2>1, <2>2, <2>3
  <2>5. x.end < y.end
    BY <2>1, <2>4 DEF NoStructure
  <2> QED BY <1>1, <1>3, <2>1, <2>3, <2>5
<1> QED BY <1>4, <1>5

\* Who starts after another has committed takes effect after it.
LEMMA PointsFollowTime ==
    ASSUME TransactionsInv, clock \in Nat,
           NEW x \in Committed, NEW t \in Committed, x.end <= t.start
    PROVE  Point(x) < Point(t)
<1>1. x.end \in Nat /\ t.end \in Nat /\ t.start \in Nat /\ t.start < t.end
  BY DEF TransactionsInv, Settled, Begun, Committed
<1>2. Point(x) <= 2 * x.end /\ Point(x) \in Nat
  BY PointType DEF Points
<1>3. CASE Point(t) = 2 * t.end
  BY <1>1, <1>2, <1>3
<1>4. CASE Point(t) # 2 * t.end
  <2>1. PICK y \in Committed : ReadsBefore(t, y) /\ Point(t) = 2 * y.end - 1
    BY <1>4, PointType DEF Points
  <2>2. y.end \in Nat /\ t.start < y.end
    BY <2>1 DEF TransactionsInv, Settled, ReadsBefore, Overlap
  <2> QED BY <1>1, <1>2, <2>1, <2>2
<1> QED BY <1>3, <1>4

\* One removal takes effect last.
LEMMA LastRemoval ==
    ASSUME TransactionsInv, clock \in Nat, \E x \in Committed : Removal(x)
    PROVE  \E x \in Committed : Removal(x) /\
             \A t \in Committed : Removal(t) => Point(t) <= Point(x)
<1>1. PICK R : R = {x \in Committed : Removal(x)}
  OBVIOUS
<1>2. PICK S : S = {2 * clock - Point(x) : x \in R}
  OBVIOUS
<1>3. \A x \in R : Point(x) \in Nat /\ Point(x) <= 2 * clock
  BY <1>1, PointType
<1>4. S \subseteq Nat /\ S # {}
  BY <1>1, <1>2, <1>3
<1>5. PICK n \in S : \A m \in S : n <= m
  BY <1>4, LeastNat
<1>6. PICK x \in R : n = 2 * clock - Point(x)
  BY <1>2
<1>7. ASSUME NEW t \in R PROVE Point(t) <= Point(x)
  <2>1. n <= 2 * clock - Point(t)
    BY <1>2, <1>5
  <2> QED BY <1>3, <1>6, <2>1
<1> QED BY <1>1, <1>7

\* What is not counted as one at most has a member other than any given one.
LEMMA MoreThanOne ==
    ASSUME NEW S, ~(Cardinality(S) <= 1), NEW v
    PROVE  \E w \in S : w # v
<1>1. Cardinality({}) = 0 /\ Cardinality({v}) = 1
  BY FS_EmptySet, FS_Singleton
<1>2. S # {} /\ S # {v}
  BY <1>1
<1> QED BY <1>2

\* Whoever removes an administrator has seen another one.
LEMMA SeesAnother ==
    ASSUME NEW x, Begun(x), Removal(x), ~WouldLeaveNone(x)
    PROVE  \E a \in Counted(x.snapshot) :
             IF x.op = "revoke" THEN a # x.assignment ELSE owner[a] # x.user
<1>1. CASE x.op = "revoke"
  <2>1. PICK S : S = Counted(x.snapshot)
    OBVIOUS
  <2>2. ~(Cardinality(S) <= 1)
    BY <1>1, <2>1 DEF WouldLeaveNone
  <2>3. PICK a \in S : a # x.assignment
    BY <2>2, MoreThanOne
  <2> QED BY <1>1, <2>1, <2>3
<1>2. CASE x.op = "deactivate"
  <2>1. PICK S : S = Admins(x.snapshot)
    OBVIOUS
  <2>2. ~(Cardinality(S) <= 1)
    BY <1>2, <2>1 DEF WouldLeaveNone, Removal
  <2>3. PICK u \in S : u # x.user
    BY <2>2, MoreThanOne
  <2> QED BY <1>2, <2>1, <2>3 DEF Admins, Holders, Counted
<1> QED BY <1>1, <1>2 DEF Removal

\* The last removal has seen another administrator.  Whoever removed that one has not been
\* seen by it, so it takes effect later or was a deactivation that raced a grant.
LEMMA RetainedOrRaced ==
    ASSUME RetentionInv
    PROVE  LostOnlyToGrantRace
<1> SUFFICES ASSUME Admins(db) = {},
                    \A t \in Committed : Raced(t) => t.user \notin Holders(db)
             PROVE  FALSE
  BY DEF LostOnlyToGrantRace, Raced
<1>1. PICK x \in Committed : Removal(x) /\
        \A t \in Committed : Removal(t) => Point(t) <= Point(x)
  <2>1. \E x \in Committed : Removal(x)
    BY DEF RetentionInv, FirstRemains, Admins, Holders
  <2> QED BY <2>1, LastRemoval DEF RetentionInv, RowsInv
<1>2. \A t \in Committed : Begun(t) /\ Explained(t) /\ Settled(t)
  BY DEF RetentionInv, TransactionsInv, Committed
<1>3. PICK a \in Counted(x.snapshot) :
        IF x.op = "revoke" THEN a # x.assignment ELSE owner[a] # x.user
  BY <1>1, <1>2, SeesAnother DEF Settled
<1>4. ASSUME NEW t \in Committed, t # x, Removal(t), x.start < t.end,
             Overlap(x, t) => ReadsBefore(x, t)
      PROVE  FALSE
  <2>1. Overlap(x, t) \/ x.end <= t.start
    BY <1>2, <1>4 DEF Overlap, Begun, Settled
  <2>2. Point(x) < Point(t)
    BY <1>4, <2>1, PointsFollowReads, PointsFollowTime DEF RetentionInv, RowsInv
  <2>3. Point(t) <= Point(x)
    BY <1>1, <1>4
  <2>4. Point(x) \in Nat /\ Point(t) \in Nat
    BY PointType DEF RetentionInv, RowsInv
  <2> QED BY <2>2, <2>3, <2>4
<1>5. a \in db.held
  <2> SUFFICES ASSUME a \notin db.held PROVE FALSE
    OBVIOUS
  <2>1. PICK t \in Committed : x.start < t.end /\ t.op = "revoke" /\ t.assignment = a
    BY <1>2, <1>3 DEF Explained, Counted
  <2>2. t # x /\ Removal(t)
    BY <1>3, <2>1 DEF Removal
  <2> QED BY <1>1, <1>2, <1>3, <1>4, <2>1, <2>2, SeesRevocation
<1>6. owner[a] \in x.snapshot.active /\ owner[a] \in Admins(x.snapshot) /\ owner[a] \in Holders(db)
  BY <1>3, <1>5 DEF Counted, Admins, Holders
<1>7. owner[a] \notin db.active
  BY <1>6 DEF Admins
<1>8. PICK t \in Committed :
        x.start < t.end /\ t.op = "deactivate" /\ t.user = owner[a] /\ owner[a] \in t.snapshot.active
  BY <1>2, <1>6, <1>7 DEF Explained
<1>9. t # x /\ Removal(t)
  BY <1>3, <1>6, <1>8 DEF Removal, Raced, Admins
<1> QED BY <1>1, <1>2, <1>4, <1>6, <1>8, <1>9, SeesDeactivation

----------------------------------------------------------------------------
(* The invariant is kept *)

LEMMA InitRetained == RetentionInit => RetentionInv
<1> SUFFICES ASSUME RetentionInit PROVE RetentionInv
  OBVIOUS
<1>1. db.active = User /\ db.held = {a \in Assignment : owner[a] # NoUser} /\ db \in Rows
  BY DEF RetentionInit, Rows
<1>2. RowsInv
  BY <1>1 DEF RetentionInit, RowsInv, Owned
<1>3. \A r \in Transaction : ~Is(r, "open") /\ ~Is(r, "committed")
  BY DEF RetentionInit, NotBegun, Is
<1>4. Committed = {}
  BY <1>3 DEF Committed
<1>5. TransactionsInv
  BY <1>3, <1>4 DEF TransactionsInv, RetentionInit
<1>6. FirstRemains
  BY <1>1, <1>2 DEF RetentionInit, FirstRemains, RowsInv, Owned
<1> QED BY <1>2, <1>4, <1>5, <1>6 DEF RetentionInv, NoStructure

\* Nothing commits: what the rows were is what they are, but for a row that is granted.
Quiet ==
    /\ OwnersKept
    /\ Committed' = Committed
    /\ db'.active = db.active
    /\ db.held \subseteq db'.held
    /\ clock \in Nat => clock' \in Nat /\ clock <= clock'

LEMMA QuietKeepsRecord ==
    ASSUME Quiet, clock \in Nat, NEW x, Begun(x), Explained(x)
    PROVE  Begun(x)' /\ Explained(x)'
<1>1. Begun(x)'
  <2>1. PICK d : d = x.snapshot
    OBVIOUS
  <2>2. Owned(d)'
    BY <2>1, SameReads DEF Quiet, Begun, Rows
  <2> QED BY <2>1, <2>2 DEF Quiet, Begun
<1>2. Explained(x)'
  BY DEF Quiet, Explained
<1> QED BY <1>1, <1>2

\* The records that are kept, and those that are new.
LEMMA QuietKeeps ==
    ASSUME RetentionInv, Quiet, RowsInv', DOMAIN transaction' = Transaction,
           \A r \in Transaction : Is(r, "open")' \/ Is(r, "committed")' =>
               \/ transaction'[r] = transaction[r]
               \/ (Begun(transaction[r]) /\ transaction[r].snapshot = db)'
    PROVE  RetentionInv'
<1>1. \A x \in Committed : Begun(x) /\ Explained(x) /\ Settled(x)
  BY DEF RetentionInv, TransactionsInv, Committed
<1>2. \A r \in Transaction : Is(r, "open")' \/ Is(r, "committed")' =>
          (Begun(transaction[r]) /\ Explained(transaction[r]))'
  <2> SUFFICES ASSUME NEW r \in Transaction, Is(r, "open")' \/ Is(r, "committed")'
               PROVE  (Begun(transaction[r]) /\ Explained(transaction[r]))'
    OBVIOUS
  <2>1. PICK x : x = transaction'[r]
    OBVIOUS
  <2>2. CASE x = transaction[r]
    <3>1. Begun(x) /\ Explained(x)
      BY <2>1, <2>2 DEF RetentionInv, TransactionsInv, Is
    <3> QED BY <2>1, <3>1, QuietKeepsRecord DEF RetentionInv, RowsInv
  <2>3. CASE (Begun(transaction[r]) /\ transaction[r].snapshot = db)'
    BY <2>3 DEF Explained
  <2> QED BY <2>1, <2>2, <2>3
<1>3. \A x \in Committed : Settled(x)'
  BY <1>1, SameDecision DEF Quiet, Settled, RetentionInv, RowsInv, Begun
<1>4. TransactionsInv'
  BY <1>2, <1>3 DEF Quiet, TransactionsInv, RetentionInv
<1>5. NoStructure'
  BY <1>1, SameReadsBefore DEF Quiet, NoStructure, RetentionInv
<1>6. FirstRemains'
  <2>1. CASE \E x \in Committed : Removal(x)
    BY <1>1, <2>1, SameDecision DEF Quiet, FirstRemains
  <2>2. CASE \E a \in db.held :
               \/ owner[a] \in db.active
               \/ \E t \in Committed : Raced(t) /\ t.user = owner[a]
    <3>1. PICK a \in db.held :
               \/ owner[a] \in db.active
               \/ \E t \in Committed : Raced(t) /\ t.user = owner[a]
      BY <2>2
    <3>2. owner'[a] = owner[a] /\ a \in db'.held
      BY <3>1 DEF Quiet, OwnersKept, RetentionInv, RowsInv, Rows, Owned
    <3> QED BY <1>1, <3>1, <3>2, SameDecision DEF Quiet, FirstRemains
  <2> QED BY <2>1, <2>2 DEF FirstRemains, RetentionInv
<1> QED BY <1>4, <1>5, <1>6 DEF RetentionInv

\* A request that has not begun or committed yet does not become a committed one.
LEMMA TurnsQuietly ==
    ASSUME RetentionInv, NEW r \in Transaction, ~Is(r, "committed"),
           NEW x, x.pc # "committed", Turn(r, x)
    PROVE  /\ Committed' = Committed
           /\ DOMAIN transaction' = Transaction
           /\ transaction'[r] = x
           /\ \A q \in Transaction \ {r} : transaction'[q] = transaction[q]
<1>1. /\ DOMAIN transaction' = Transaction /\ transaction'[r] = x
      /\ \A q \in Transaction \ {r} : transaction'[q] = transaction[q]
  BY DEF Turn, RetentionInv, TransactionsInv
<1> QED BY <1>1 DEF Committed, Is

LEMMA OpeningKeeps ==
    ASSUME RetentionInv, NEW r \in Transaction, ~Is(r, "committed"),
           NEW op \in {"deactivate", "activate", "revoke"}, NEW u, NEW a,
           op = "activate" => u \in User,
           Begin(r, op, u, a), UNCHANGED <<db, owner, granted>>
    PROVE  RetentionInv'
<1>1. PICK x : x = [pc |-> "open", op |-> op, user |-> u, assignment |-> a,
                    snapshot |-> db, start |-> clock + 1]
  OBVIOUS
<1>2. Turn(r, x) /\ clock' = clock + 1
  BY <1>1 DEF Begin
<1>3. /\ Committed' = Committed /\ DOMAIN transaction' = Transaction /\ transaction'[r] = x
      /\ \A q \in Transaction \ {r} : transaction'[q] = transaction[q]
  BY <1>1, <1>2, TurnsQuietly
<1>4. Quiet
  BY <1>2, <1>3 DEF Quiet, OwnersKept
<1>5. RowsInv'
  BY <1>2 DEF RetentionInv, RowsInv, Owned
<1>6. Begun(x)' /\ x.snapshot = db'
  <2>1. x.op = op /\ x.user = u /\ x.snapshot = db /\ x.start = clock'
    BY <1>1, <1>2
  <2> QED BY <1>5, <2>1 DEF Begun, RowsInv, Owned
<1>7. (Begun(transaction[r]) /\ transaction[r].snapshot = db)'
  BY <1>3, <1>6 DEF Begun, Owned
<1>8. ASSUME NEW q \in Transaction
      PROVE  transaction'[q] = transaction[q] \/ (Begun(transaction[q]) /\ transaction[q].snapshot = db)'
  BY <1>3, <1>7
<1> QED BY <1>3, <1>4, <1>5, <1>8, QuietKeeps

\* A step that writes and times nothing.
LEMMA StillKeeps ==
    ASSUME RetentionInv, NEW r \in Transaction, ~Is(r, "committed"),
           NEW x, x.pc \notin {"open", "committed"}, Turn(r, x),
           UNCHANGED <<db, owner, clock, granted>>
    PROVE  RetentionInv'
<1>1. /\ Committed' = Committed /\ DOMAIN transaction' = Transaction /\ transaction'[r] = x
      /\ \A q \in Transaction \ {r} : transaction'[q] = transaction[q]
  BY TurnsQuietly
<1>2. Quiet /\ RowsInv'
  BY <1>1 DEF Quiet, OwnersKept, RetentionInv, RowsInv, Owned
<1>3. ~Is(r, "open")' /\ ~Is(r, "committed")'
  BY <1>1 DEF Is
<1> QED BY <1>1, <1>2, <1>3, QuietKeeps

\* A grant of the role.
LEMMA GrantKeeps ==
    ASSUME RetentionInv, NEW u \in User, NEW a \in Assignment, Grant(u, a)
    PROVE  RetentionInv'
<1>1. /\ owner' = [owner EXCEPT ![a] = u] /\ owner[a] = NoUser
      /\ db' = [db EXCEPT !.held = db.held \cup {a}]
      /\ transaction' = transaction /\ clock' = clock
  BY DEF Grant
<1>2. OwnersKept
  BY <1>1, NoUserAssumption DEF OwnersKept, RetentionInv, RowsInv
<1>3. db' \in Rows /\ db'.active = db.active /\ db'.held = db.held \cup {a}
  BY <1>1 DEF RetentionInv, RowsInv, Rows
<1>4. owner'[a] = u /\ \A b \in db.held : owner'[b] = owner[b] /\ owner[b] \in User /\ owner[b] # u
  <2>1. \A b \in db.held : owner[b] \in User /\ owner[b] # u
    BY DEF Grant, Holders, RetentionInv, RowsInv, Owned
  <2>2. \A b \in db.held : owner'[b] = owner[b]
    BY <1>2, <2>1 DEF OwnersKept, RetentionInv, RowsInv, Rows
  <2>3. owner'[a] = u
    BY <1>1 DEF RetentionInv, RowsInv
  <2> QED BY <2>1, <2>2, <2>3
<1>5. Owned(db)'
  BY <1>3, <1>4 DEF Owned, RetentionInv, RowsInv
<1>6. RowsInv'
  BY <1>1, <1>3, <1>5 DEF RetentionInv, RowsInv
<1>7. Quiet
  BY <1>1, <1>2, <1>3 DEF Quiet, Committed, Is
<1> QED BY <1>1, <1>6, <1>7, QuietKeeps DEF RetentionInv, TransactionsInv

\* What Finish does when it commits x.
Commits(r, x) ==
    /\ x.pc = "committed" /\ x.end = clock + 1
    /\ Begun(x) /\ Explained(x)
    /\ ~WouldLeaveNone(x)
    /\ Serializes(x)
    /\ db' = WriteOf(x, db)
    /\ clock' = clock + 1
    /\ Turn(r, x)
    /\ UNCHANGED <<owner, granted>>

LEMMA FinishCommits ==
    ASSUME RetentionInv, NEW r \in Transaction, Finish(r)
    PROVE  \/ Turn(r, [pc |-> "refused"]) /\ UNCHANGED <<db, owner, clock, granted>>
           \/ \E x : Commits(r, x)
<1>1. CASE Turn(r, [pc |-> "refused"]) /\ UNCHANGED <<db, clock>>
  BY <1>1 DEF Finish
<1>2. CASE ~(Turn(r, [pc |-> "refused"]) /\ UNCHANGED <<db, clock>>)
  <2>1. PICK x : x = [pc |-> "committed", op |-> transaction[r].op,
                      user |-> transaction[r].user,
                      assignment |-> transaction[r].assignment,
                      snapshot |-> transaction[r].snapshot,
                      start |-> transaction[r].start, end |-> clock + 1]
    OBVIOUS
  <2>2. /\ ~WouldLeaveNone(x) /\ Serializes(x)
        /\ db' = WriteOf(x, db) /\ clock' = clock + 1 /\ Turn(r, x)
        /\ UNCHANGED <<owner, granted>>
    BY <1>2, <2>1 DEF Finish
  <2>3. Begun(transaction[r]) /\ Explained(transaction[r])
    BY DEF Finish, RetentionInv, TransactionsInv
  <2>4. /\ x.pc = "committed" /\ x.end = clock + 1 /\ x.op = transaction[r].op
        /\ x.user = transaction[r].user
        /\ x.snapshot = transaction[r].snapshot /\ x.start = transaction[r].start
    BY <2>1
  <2>5. Begun(x) /\ Explained(x)
    BY <2>3, <2>4 DEF Begun, Explained
  <2> QED BY <2>2, <2>4, <2>5 DEF Commits
<1> QED BY <1>1, <1>2

\* What every part of the invariant needs to know of a commit.
LEMMA CommitFrame ==
    ASSUME RetentionInv, NEW r \in Transaction, Is(r, "open"), NEW x, Commits(r, x)
    PROVE  /\ OwnersKept /\ owner' = owner
           /\ Committed' = Committed \cup {x}
           /\ DOMAIN transaction' = Transaction
           /\ transaction'[r] = x
           /\ \A q \in Transaction \ {r} : transaction'[q] = transaction[q]
           /\ \A t \in Committed : Begun(t) /\ Explained(t) /\ Settled(t)
           /\ clock \in Nat /\ x.end = clock + 1 /\ x.start \in Nat /\ x.start < x.end
<1>1. /\ DOMAIN transaction' = Transaction /\ transaction'[r] = x
      /\ \A q \in Transaction \ {r} : transaction'[q] = transaction[q]
  BY DEF Commits, Turn, RetentionInv, TransactionsInv
<1>2. Committed' = Committed \cup {x}
  BY <1>1 DEF Committed, Is, Commits
<1>3. owner' = owner /\ OwnersKept
  BY DEF Commits, OwnersKept
<1>4. \A t \in Committed : Begun(t) /\ Explained(t) /\ Settled(t)
  BY DEF RetentionInv, TransactionsInv, Committed
<1>5. clock \in Nat /\ x.end = clock + 1 /\ x.start \in Nat /\ x.start < x.end
  BY DEF Commits, Begun, RetentionInv, RowsInv
<1> QED BY <1>1, <1>2, <1>3, <1>4, <1>5

LEMMA CommitWrites ==
    ASSUME RetentionInv, NEW r \in Transaction, NEW x, Commits(r, x)
    PROVE  /\ db'.active = CASE x.op = "deactivate" -> db.active \ {x.user}
                             [] x.op = "activate" -> db.active \cup {x.user}
                             [] x.op = "revoke" -> db.active
           /\ db'.held = IF x.op = "revoke" THEN db.held \ {x.assignment} ELSE db.held
BY Written DEF Commits, RetentionInv, RowsInv

\* Nobody else has written the row that a commit writes.
LEMMA NobodyWroteIt ==
    ASSUME RetentionInv, NEW r \in Transaction, Is(r, "open"), NEW x, Commits(r, x),
           NEW t \in Committed, x.start < t.end
    PROVE  ~SameRow(x, t)
<1>1. t.end \in Nat /\ t.start \in Nat /\ t.start < t.end /\ x.end \in Nat /\ t.end < x.end
  <2>1. Begun(t) /\ Settled(t) /\ clock \in Nat /\ x.end = clock + 1
    BY CommitFrame
  <2> QED BY <2>1 DEF Settled, Begun
<1>2. Overlap(x, t)
  BY <1>1 DEF Overlap
<1> QED BY <1>2 DEF Commits, Serializes

LEMMA CommitRows ==
    ASSUME RetentionInv, NEW r \in Transaction, Is(r, "open"), NEW x, Commits(r, x)
    PROVE  RowsInv'
<1>1. PICK e : e = WriteOf(x, db)
  OBVIOUS
<1>2. db \in Rows /\ Owned(db) /\ Begun(x)
  BY DEF RetentionInv, RowsInv, Commits
<1>3. Owned(e)
  BY <1>1, <1>2, WrittenOwned
<1>4. e \in Rows
  BY <1>1, <1>2 DEF WriteOf, Rows, Begun
<1> QED BY <1>1, <1>3, <1>4 DEF Commits, RetentionInv, RowsInv, Owned

\* What differs from the snapshot of q is explained by what q knew, or by x.
LEMMA CommitExplains ==
    ASSUME RetentionInv, NEW r \in Transaction, Is(r, "open"), NEW x, Commits(r, x),
           NEW q, Begun(q), Explained(q)
    PROVE  Explained(q)'
<1>1. /\ db'.active = CASE x.op = "deactivate" -> db.active \ {x.user}
                         [] x.op = "activate" -> db.active \cup {x.user}
                         [] x.op = "revoke" -> db.active
      /\ db'.held = IF x.op = "revoke" THEN db.held \ {x.assignment} ELSE db.held
  BY CommitWrites
<1>2. q.start < x.end
  BY CommitFrame DEF Begun
<1>3. Committed' = Committed \cup {x} /\ Begun(x) /\ Explained(x)
  BY CommitFrame DEF Commits
<1>4. ASSUME NEW u \in q.snapshot.active \ db'.active
      PROVE  \E t \in Committed' :
                /\ q.start < t.end
                /\ t.op = "deactivate" /\ t.user = u /\ u \in t.snapshot.active
  <2>1. CASE u \notin db.active
    BY <1>3, <1>4, <2>1 DEF Explained
  <2>2. CASE u \in db.active
    <3>1. x.op = "deactivate" /\ x.user = u
      BY <1>1, <1>3, <1>4, <2>2 DEF Begun
    <3>2. ASSUME u \notin x.snapshot.active PROVE FALSE
      <4>1. PICK t \in Committed : x.start < t.end /\ t.op = "activate" /\ t.user = u
        BY <1>3, <2>2, <3>2 DEF Explained
      <4>2. SameRow(x, t)
        BY <3>1, <4>1 DEF SameRow
      <4> QED BY <4>1, <4>2, NobodyWroteIt
    <3> QED BY <1>2, <1>3, <3>1, <3>2
  <2> QED BY <2>1, <2>2
<1>5. ASSUME NEW u \in db'.active \ q.snapshot.active
      PROVE  \E t \in Committed' :
                q.start < t.end /\ t.op = "activate" /\ t.user = u
  <2>1. CASE u \in db.active
    BY <1>3, <1>5, <2>1 DEF Explained
  <2>2. CASE u \notin db.active
    <3>1. x.op = "activate" /\ x.user = u
      BY <1>1, <1>3, <1>5, <2>2 DEF Begun
    <3> QED BY <1>2, <1>3, <3>1
  <2> QED BY <2>1, <2>2
<1>6. ASSUME NEW a \in q.snapshot.held \ db'.held
      PROVE  \E t \in Committed' :
                q.start < t.end /\ t.op = "revoke" /\ t.assignment = a
  <2>1. CASE a \notin db.held
    BY <1>3, <1>6, <2>1 DEF Explained
  <2>2. CASE a \in db.held
    <3>1. x.op = "revoke" /\ x.assignment = a
      BY <1>1, <1>6, <2>2
    <3> QED BY <1>2, <1>3, <3>1
  <2> QED BY <2>1, <2>2
<1> QED BY <1>4, <1>5, <1>6 DEF Explained

LEMMA CommitTransactions ==
    ASSUME RetentionInv, NEW r \in Transaction, Is(r, "open"), NEW x, Commits(r, x)
    PROVE  TransactionsInv'
<1>1. \A t \in Committed \cup {x} : Begun(t) /\ Explained(t)
  BY CommitFrame DEF Commits
<1>2. ASSUME NEW q, Begun(q), Explained(q) PROVE Begun(q)' /\ Explained(q)'
  <2>1. PICK d : d = q.snapshot
    OBVIOUS
  <2>2. Owned(d)'
    BY <1>2, <2>1, CommitFrame, SameReads DEF Begun, Rows
  <2>3. Begun(q)'
    BY <1>2, <2>1, <2>2, CommitFrame DEF Begun, Commits
  <2> QED BY <1>2, <2>3, CommitExplains
<1>3. \A q \in Transaction : Is(q, "open")' \/ Is(q, "committed")' =>
          (Begun(transaction[q]) /\ Explained(transaction[q]))'
  <2> SUFFICES ASSUME NEW q \in Transaction, Is(q, "open")' \/ Is(q, "committed")'
               PROVE  (Begun(transaction[q]) /\ Explained(transaction[q]))'
    OBVIOUS
  <2>1. PICK y : y = transaction'[q]
    OBVIOUS
  <2>2. Begun(y) /\ Explained(y)
    <3>1. CASE q = r
      BY <1>1, <2>1, <3>1, CommitFrame
    <3>2. CASE q # r
      <4>1. transaction'[q] = transaction[q]
        BY <3>2, CommitFrame
      <4> QED BY <2>1, <4>1 DEF RetentionInv, TransactionsInv, Is
    <3> QED BY <3>1, <3>2
  <2>3. Begun(y)' /\ Explained(y)'
    BY <1>2, <2>2
  <2> QED BY <2>1, <2>3
<1>4. \A t \in Committed \cup {x} : Settled(t)'
  <2>1. \A t \in Committed \cup {x} : ~WouldLeaveNone(t)
    BY CommitFrame DEF Commits, Settled
  <2>2. \A t \in Committed \cup {x} : ~WouldLeaveNone(t)'
    BY <1>1, <2>1, CommitFrame, SameDecision
  <2>3. clock' = clock + 1
    BY DEF Commits
  <2> QED BY <2>2, <2>3, CommitFrame DEF Settled
<1>5. \A s, t \in Committed \cup {x} : s.end = t.end => s = t
  <2>1. \A t \in Committed : t.end # x.end
    BY CommitFrame DEF Settled
  <2> QED BY <2>1 DEF RetentionInv, TransactionsInv
<1> QED BY <1>3, <1>4, <1>5, CommitFrame DEF TransactionsInv

LEMMA CommitStructure ==
    ASSUME RetentionInv, NEW r \in Transaction, Is(r, "open"), NEW x, Commits(r, x)
    PROVE  NoStructure'
<1>1. \A t \in Committed \cup {x} : Begun(t)
  BY CommitFrame DEF Commits
<1>2. \A s, t \in Committed \cup {x} : ReadsBefore(s, t)' <=> ReadsBefore(s, t)
  BY <1>1, CommitFrame, SameReadsBefore
<1>3. \A t \in Committed : t.end \in Nat /\ x.end \in Nat /\ t.end < x.end
  BY CommitFrame DEF Settled
<1>4. ASSUME NEW s \in Committed \cup {x}, NEW p \in Committed \cup {x},
             NEW t \in Committed \cup {x},
             s # p, ReadsBefore(s, p), ReadsBefore(p, t), t.end < p.end
      PROVE  s.end < t.end
  <2>1. t \in Committed
    BY <1>3, <1>4
  <2>2. CASE p = x
    BY <1>3, <1>4, <2>1, <2>2 DEF Commits, Serializes
  <2>3. CASE p # x /\ s = x
    BY <1>4, <2>1, <2>3 DEF Commits, Serializes
  <2>4. CASE p # x /\ s # x
    BY <1>4, <2>1, <2>4 DEF RetentionInv, NoStructure
  <2> QED BY <2>2, <2>3, <2>4
<1> QED BY <1>2, <1>4, CommitFrame DEF NoStructure

LEMMA CommitFirst ==
    ASSUME RetentionInv, NEW r \in Transaction, Is(r, "open"), NEW x, Commits(r, x)
    PROVE  FirstRemains'
<1>1. \A t \in Committed \cup {x} :
          Begun(t) /\ (Removal(t)' <=> Removal(t)) /\ (Raced(t)' <=> Raced(t))
  <2>1. \A t \in Committed \cup {x} : Begun(t)
    BY CommitFrame DEF Commits
  <2> QED BY <2>1, CommitFrame, SameDecision
<1>2. CASE \E t \in Committed \cup {x} : Removal(t)
  BY <1>1, <1>2, CommitFrame DEF FirstRemains
<1>3. CASE ~\E t \in Committed \cup {x} : Removal(t)
  <2>1. PICK a \in db.held :
             \/ owner[a] \in db.active
             \/ \E t \in Committed : Raced(t) /\ t.user = owner[a]
    BY <1>3 DEF RetentionInv, FirstRemains
  <2>2. a \in db'.held /\ owner'[a] = owner[a]
    <3>1. x.op # "revoke"
      BY <1>3 DEF Removal
    <3> QED BY <3>1, CommitFrame, CommitWrites
  <2>3. CASE \E t \in Committed : Raced(t) /\ t.user = owner[a]
    BY <1>1, <2>2, <2>3, CommitFrame DEF FirstRemains
  <2>4. CASE owner[a] \in db.active /\ ~(x.op = "deactivate" /\ x.user = owner[a])
    <3>1. owner[a] \in db'.active
      <4>1. x.op \in {"deactivate", "activate", "revoke"}
        BY DEF Commits, Begun
      <4> QED BY <2>4, <4>1, CommitWrites
    <3> QED BY <2>2, <3>1 DEF FirstRemains
  <2>5. CASE owner[a] \in db.active /\ x.op = "deactivate" /\ x.user = owner[a]
    <3>1. x.user \in x.snapshot.active
      <4>1. ASSUME x.user \notin x.snapshot.active PROVE FALSE
        <5>1. PICK t \in Committed : x.start < t.end /\ t.op = "activate" /\ t.user = x.user
          BY <2>5, <4>1 DEF Commits, Explained
        <5>2. SameRow(x, t)
          BY <2>5, <5>1 DEF SameRow
        <5> QED BY <5>1, <5>2, NobodyWroteIt
      <4> QED BY <4>1
    <3>2. Raced(x)
      BY <1>3, <2>5, <3>1 DEF Removal, Raced, Admins
    <3> QED BY <1>1, <2>2, <2>5, <3>2, CommitFrame DEF FirstRemains
  <2> QED BY <2>1, <2>3, <2>4, <2>5
<1> QED BY <1>2, <1>3

LEMMA RetentionSteps == RetentionInv /\ [RetentionNext]_retentionVars => RetentionInv'
<1> SUFFICES ASSUME RetentionInv, [RetentionNext]_retentionVars PROVE RetentionInv'
  OBVIOUS
<1>1. CASE UNCHANGED retentionVars
  <2>1. Quiet /\ RowsInv'
    BY <1>1 DEF retentionVars, Quiet, OwnersKept, Committed, Is, RetentionInv, RowsInv, Owned
  <2> QED BY <1>1, <2>1, QuietKeeps DEF retentionVars, RetentionInv, TransactionsInv
<1>2. ASSUME NEW r \in Transaction, NEW u \in User, NEW op \in {"deactivate", "activate"},
             BeginUpdate(r, u, op)
      PROVE  RetentionInv'
  <2>1. ~Is(r, "committed")
    BY <1>2 DEF BeginUpdate, Is
  <2> QED BY <1>2, <2>1, OpeningKeeps DEF BeginUpdate
<1>3. ASSUME NEW r \in Transaction, NEW by \in User, NEW a \in Assignment,
             FindAssignment(r, by, a)
      PROVE  RetentionInv'
  <2>1. PICK x : x = [pc |-> "found", assignment |-> a]
    OBVIOUS
  <2>2. x.pc \notin {"open", "committed"} /\ ~Is(r, "committed")
    BY <1>3, <2>1 DEF FindAssignment, Is
  <2> QED BY <1>3, <2>1, <2>2, StillKeeps DEF FindAssignment
<1>4. ASSUME NEW r \in Transaction, BeginRevoke(r) PROVE RetentionInv'
  <2>1. ~Is(r, "committed")
    BY <1>4 DEF BeginRevoke, Is
  <2> QED BY <1>4, <2>1, OpeningKeeps DEF BeginRevoke
<1>5. ASSUME NEW r \in Transaction, Finish(r) PROVE RetentionInv'
  <2>1. Is(r, "open") /\ ~Is(r, "committed")
    BY <1>5 DEF Finish, Is
  <2>2. CASE Turn(r, [pc |-> "refused"]) /\ UNCHANGED <<db, owner, clock, granted>>
    <3>1. PICK x : x = [pc |-> "refused"]
      OBVIOUS
    <3>2. x.pc \notin {"open", "committed"}
      BY <3>1
    <3> QED BY <2>1, <2>2, <3>1, <3>2, StillKeeps
  <2>3. CASE \E x : Commits(r, x)
    <3>1. PICK x : Commits(r, x)
      BY <2>3
    <3> QED BY <2>1, <3>1, CommitRows, CommitTransactions, CommitStructure, CommitFirst
            DEF RetentionInv
  <2> QED BY <1>5, <2>2, <2>3, FinishCommits
<1>6. ASSUME NEW u \in User, NEW a \in Assignment, Grant(u, a) PROVE RetentionInv'
  BY <1>6, GrantKeeps
<1> QED BY <1>1, <1>2, <1>3, <1>4, <1>5, <1>6 DEF RetentionNext

\* However many deactivations, reactivations and revocations of UserRepository and
\* RolePermissionRepository run under SERIALIZABLE, and whatever is granted meanwhile: only a
\* deactivation that started before its user was granted the role can have removed the last
\* administrator.
THEOREM OnlyGrantsLose == RetentionSpec => []LostOnlyToGrantRace
BY InitRetained, RetentionSteps, RetainedOrRaced, PTL DEF RetentionSpec
=============================================================================
