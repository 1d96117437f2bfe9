----------------------------- MODULE Authority -----------------------------
(***************************************************************************)
(* What an actor may do: requests whose role, permissions and led          *)
(* divisions are read once, statement by statement, when they pass the     *)
(* guards, and decided upon later, while other requests change roles,      *)
(* profiles, the permission matrix, division leads and teams.              *)
(*                                                                         *)
(* The rows behind a user's profiles are those of ActorAccess, seen as the *)
(* roles it has a grant and a profile for; the leads of a division those   *)
(* of LeadRegister; teams and home divisions those of TeamDirectory.       *)
(***************************************************************************)
EXTENDS RolePermissions, Integers, FiniteSets

CONSTANTS
    Member,      \* members, each with a user
    Division,    \* the divisions of the company
    Team,        \* ids of teams rows; the database orders them
    Op,          \* the operations requests may ask for
    Gone         \* a deleted team

\* Controllers whose handlers ask for no role or permission, and the one that
\* Identity models; the deletion of members is in ActorAccess and TeamDirectory.
Elsewhere == {"auth", "company_signup", "company_type", "session_administration"}

ASSUME AuthorityAssumption ==
    /\ {"system_admin", "division_lead"} \subseteq Role
    /\ Team \subseteq Int
    /\ Op \subseteq {op \in Operations : op[1] \notin Elsewhere} \ {<<"member", "delete">>}
    /\ None \notin Member \cup Division \cup Role
    /\ None \notin Team
    /\ Gone # None

VARIABLES
    home,      \* members.division_id
    grants,    \* grants[m]: the roles granted to the user of m
    linked,    \* linked[m]: the roles whose profile speaks for the member
    acting,    \* acting[m]: the role findActiveActor finds for the user
    led,       \* led[d]: the member with the unrevoked division_leads row
    team,      \* team[t]: the row, None before and Gone after it
    request,   \* request[r]: what r has read and decided
    gained     \* history: gained[r], the actor of r was given something meanwhile

orgVars == <<home, grants, linked, acting, led, team>>
vars == <<permissionVars, orgVars, request, gained>>

TeamRow == [division : Division, lead : Member \cup {None}]
NoTeam == [division |-> None, lead |-> None]

Exists(t) == team[t] \notin {None, Gone}

Goal == [division : Division \cup {None}, team : Team \cup {None},
         member : Member \cup {None}, role : Role \cup {None}, codes : Sets \cup {None}]

Idle == [pc |-> "idle"]
Done == [pc |-> "done"]

Working == {"arrived", "profile", "rights", "leads", "actor", "loaded",
            "decided", "replacing", "served"}

Active(r) == request[r].pc \in Working

Undecided == {"arrived", "profile", "rights", "leads", "actor", "loaded"}

TypeOK ==
    /\ PermissionTypes
    /\ home \in [Member -> Division]
    /\ grants \in [Member -> SUBSET Role]
    /\ linked \in [Member -> SUBSET Role]
    /\ acting \in [Member -> Role \cup {None}]
    /\ \A m \in Member : IF grants[m] = {} THEN acting[m] = None
                                           ELSE acting[m] \in grants[m]
    /\ led \in [Division -> Member \cup {None}]
    /\ team \in [Team -> TeamRow \cup {None, Gone}]
    /\ gained \in [Request -> BOOLEAN]
    /\ \A r \in Request : Active(r) =>
          /\ request[r].op \in Op
          /\ request[r].goal \in Goal
          /\ request[r].entitled \in SUBSET Division

Init ==
    /\ PermissionInit
    /\ home \in [Member -> Division]
    /\ grants \in [Member -> SUBSET Role]
    /\ linked \in [Member -> SUBSET Role]
    /\ acting \in [Member -> Role \cup {None}]
    /\ \A m \in Member : IF grants[m] = {} THEN acting[m] = None
                                           ELSE acting[m] \in grants[m]
    /\ led \in [Division -> Member \cup {None}]
    /\ team \in [Team -> TeamRow \cup {None}]
    /\ request = [r \in Request |-> Idle]
    /\ gained = [r \in Request |-> FALSE]

At(r, pc) == request[r].pc = pc

Become(r, state) == request' = [request EXCEPT ![r] = state]

Handler(r, controller, handler) ==
    At(r, "decided") /\ request[r].op = <<controller, handler>>

----------------------------------------------------------------------------
(* What an actor is entitled to, independently of how a request finds out  *)

\* What m may rely on in the role c, in a request about team t; it leads
\* divisions and teams if the profile of the role speaks for it.
Powers(m, c, speaks, t) ==
    LET mine == {u \in Team : speaks /\ Exists(u) /\ team[u].lead = m}
    IN  [role    |-> c,
         rights  |-> IF c = None THEN {} ELSE allowed[c],
         led     |-> {d \in Division : speaks /\ led[d] = m},
         staffed |-> {team[u].division : u \in mine},
         here    |-> {team[u].division : u \in mine \cap {t}}]

OwnPowers(m, t) == Powers(m, acting[m], acting[m] \in linked[m], t)

Manages(p) ==
    CASE p.role \in {"system_admin", "division_head"} -> Division
      [] p.role = "division_lead"                     -> p.led
      [] OTHER                                        -> {}

Staffs(p) ==
    CASE p.role = "system_admin"  -> Division
      [] p.role = "division_lead" -> p.led
      [] OTHER                    -> p.staffed

If(condition, divisions) == IF condition THEN divisions ELSE {}

\* Handlers that only read.
MemberReads == {"findAll", "findOne", "findLedDivisions"}
TeamReads == {"findAll", "findOne"}
RoleReads == {"findRoles", "findRole", "findPermissions", "findPermission", "findUserRoles"}

\* The code an administrator needs for what is reserved to administrators.
AdminCode == [division             |-> "ADD_DIVISION",
              client               |-> "MANAGE_CLIENT",
              client_contact       |-> "MANAGE_CLIENT_CONTACT",
              client_portal_access |-> "MANAGE_CLIENT_PORTAL_ACCESS"]

\* The divisions in which an actor with powers p may do op; all of them where op
\* is not about one.
May(op, p) ==
    CASE op[1] = "actor_profile" -> If(p.role # None, Division)
      [] op[1] \in {"role_permission", "user_role", "user", "company"} ->
            If(p.role = "system_admin", Division)
      [] op[1] \in DOMAIN AdminCode ->
            If(p.role = "system_admin" /\ AdminCode[op[1]] \in p.rights, Division)
      [] op[1] = "division_lead" ->
            If(/\ p.role \in {"system_admin", "division_head"}
               /\ "ASSIGN_LEADER" \in p.rights, Division)
      [] op[1] = "team" /\ op[2] # "findOne" ->
            If("ADD_TEAM" \in p.rights, Manages(p))
      [] op[1] = "team_membership" \/ op = <<"team", "findOne">> ->
            If("ASSIGN_MEMBER" \in p.rights, Manages(p) \cup p.here)
      [] op[1] = "member" /\ op[2] \in {"create"} \cup MemberReads ->
            If("ADD_MEMBER" \in p.rights, Staffs(p))
      [] op[1] = "member" /\ op[2] \in {"update", "linkAccess"} ->
            If(p.role = "system_admin" /\ "ADD_MEMBER" \in p.rights, Division)

\* What the actor of r has to go by: once r has read a role, that role, although
\* the actor may have lost or exchanged it.
Held(r) ==
    LET q == request[r]
    IN  IF At(r, "arrived") THEN OwnPowers(q.actor, q.goal.team)
                            ELSE Powers(q.actor, q.role, q.linked, q.goal.team)

\* The step gives it something it had not: a right, a lead or a team in its role,
\* or another role that entitles it to more.  What is taken away gives nothing.
Grows(r) ==
    LET before == Held(r)
        after == Held(r)'
    IN  IF after.role = before.role
        THEN \E k \in {"rights", "led", "staffed", "here"} : ~(after[k] \subseteq before[k])
        ELSE ~(May(request[r].op, after) \subseteq May(request[r].op, before))

----------------------------------------------------------------------------
(* A request arrives and passes the guards *)

\* What a request must and may name in its parameters, query and body.
Naming(needs, may) == [needs |-> needs, may |-> may]

TeamNames(handler) ==
    CASE handler = "create"     -> Naming({"division"}, {"member"})
      [] handler = "findAll"    -> Naming({}, {"division"})
      [] handler = "assignLead" -> Naming({"team", "member"}, {})
      [] OTHER                  -> Naming({"team"}, {})

TeamMembershipNames(handler) ==
    Naming({"team"} \cup (IF handler = "listMembers" THEN {} ELSE {"member"}), {})

MemberNames(handler) ==
    CASE handler = "create"     -> Naming({"division"}, {})
      [] handler = "findAll"    -> Naming({}, {"division"})
      [] handler = "update"     -> Naming({"member", "division"}, {})
      [] handler = "linkAccess" -> Naming({"member", "role"}, {})
      [] OTHER                  -> Naming({"member"}, {})

DivisionLeadNames(handler) ==
    Naming({"division"} \cup (IF handler = "assignLead" THEN {"member"} ELSE {}), {})

RolePermissionNames(handler) ==
    Naming(IF handler = "setRolePermissions" THEN {"role", "codes"} ELSE {}, {})

UserRoleNames(handler) ==
    Naming({"member"} \cup (IF handler = "findUserRoles" THEN {} ELSE {"role"}), {})

ActorProfileNames(handler) ==
    Naming(IF handler = "activate" THEN {"role"} ELSE {}, {})

Names(op) ==
    CASE op[1] = "team"            -> TeamNames(op[2])
      [] op[1] = "team_membership" -> TeamMembershipNames(op[2])
      [] op[1] = "member"          -> MemberNames(op[2])
      [] op[1] = "division_lead"   -> DivisionLeadNames(op[2])
      [] op[1] = "role_permission" -> RolePermissionNames(op[2])
      [] op[1] = "user_role"       -> UserRoleNames(op[2])
      [] op[1] = "actor_profile"   -> ActorProfileNames(op[2])
      [] OTHER                     -> Naming({}, {})

NamesTeam(op) == "team" \in Names(op).needs

Values(names, field, set) ==
    IF field \in names.needs THEN set
    ELSE {None} \cup (IF field \in names.may THEN set ELSE {})

Goals ==
    [op \in Op |->
       [division : Values(Names(op), "division", Division),
        team     : Values(Names(op), "team", Team),
        member   : Values(Names(op), "member", Member),
        role     : Values(Names(op), "role", Role),
        codes    : Values(Names(op), "codes", Sets)]]

Arrive(r, m, op, goal) ==
    /\ At(r, "idle")
    /\ Become(r, [pc |-> "arrived", op |-> op, actor |-> m, goal |-> goal,
                  entitled |-> May(op, OwnPowers(m, goal.team)),
                  role |-> None, linked |-> FALSE, rights |-> {}, leads |-> {},
                  found |-> NoTeam, scope |-> {}])
    /\ UNCHANGED <<permissionVars, orgVars>>

\* findActiveActor: the first statement finds the profile.
ReadProfile(r) ==
    LET m == request[r].actor
    IN  /\ At(r, "arrived")
        /\ acting[m] # None
        /\ Become(r, [request[r] EXCEPT !.pc = "profile", !.role = acting[m],
                                        !.linked = acting[m] \in linked[m]])
        /\ UNCHANGED <<permissionVars, orgVars>>

\* The permissions of its role and the divisions its member leads follow in
\* statements of their own, in any order.
ReadRights(r) ==
    /\ request[r].pc \in {"profile", "leads"}
    /\ Become(r, [request[r] EXCEPT
                    !.pc = IF At(r, "profile") THEN "rights" ELSE "actor",
                    !.rights = allowed[request[r].role]])
    /\ UNCHANGED <<permissionVars, orgVars>>

ReadLeads(r) ==
    /\ request[r].pc \in {"profile", "rights"}
    /\ Become(r, [request[r] EXCEPT
                    !.pc = IF At(r, "profile") THEN "leads" ELSE "actor",
                    !.leads = {d \in Division :
                                 request[r].linked /\ led[d] = request[r].actor}])
    /\ UNCHANGED <<permissionVars, orgVars>>

----------------------------------------------------------------------------
(* The handler loads what the request is about and decides *)

\* requireTeam and requireMember; the other handlers load nothing first.
Found(q) ==
    CASE q.goal.team # None /\ Exists(q.goal.team) -> team[q.goal.team]
      [] q.op[1] = "member" /\ q.op[2] \in {"findOne", "findLedDivisions"} ->
            [division |-> home[q.goal.member], lead |-> None]
      [] OTHER -> NoTeam

\* PermissionsGuard and SystemAdminGuard let the actor pass.
Load(r) ==
    LET q == request[r]
    IN  /\ At(r, "actor")
        /\ Passes(q.op, q.role, q.rights)
        /\ q.goal.team # None => Exists(q.goal.team)
        /\ Become(r, [q EXCEPT !.pc = "loaded", !.found = Found(q)])
        /\ UNCHANGED <<permissionVars, orgVars>>

\* resolveManageDivisionIds.
ManageDivisions(q) ==
    CASE q.role \in {"system_admin", "division_head"} -> Division
      [] q.role = "division_lead"                     -> q.leads
      [] OTHER                                        -> {}

\* assertCanManageMembership.
MembershipDivisions(q) ==
    If(\/ q.role \in {"system_admin", "division_head"}
       \/ q.role = "division_lead" /\ q.found.division \in q.leads
       \/ q.linked /\ q.found.lead = q.actor,
       {q.found.division})

\* findLedTeamDivisionId: the division of the first team the member leads.
LedTeamDivision(m) ==
    LET mine == {t \in Team : Exists(t) /\ team[t].lead = m}
    IN  {team[t].division : t \in {u \in mine : \A v \in mine : u <= v}}

\* Broken form of ActorDivisions: a lead without division falls back to its own.
ActorDivisions_Home(q) ==
    IF q.role = "division_lead" THEN If(q.leads = {}, {home[q.actor]}) \cup q.leads
    ELSE If(q.linked, LedTeamDivision(q.actor))

\* resolveActorDivisionIds: what an empty set is refused for.
ActorDivisions(q) ==
    IF q.role = "division_lead" THEN q.leads
    ELSE If(q.linked, LedTeamDivision(q.actor))

\* resolveReadableDivisionIds and assertCanCreate.
ReadableDivisions(q) ==
    IF q.role = "system_admin" THEN Division ELSE ActorDivisions(q)

\* The divisions the handler's checks leave, before it looks at the one that
\* was asked for.
Scope(q) ==
    CASE q.op[1] = "team" /\ q.op[2] # "findOne" -> ManageDivisions(q)
      [] q.op = <<"team", "findOne">> -> ManageDivisions(q) \cup MembershipDivisions(q)
      [] q.op[1] = "team_membership" -> MembershipDivisions(q)
      [] q.op[1] = "member" /\ q.op[2] \in {"create"} \cup MemberReads ->
            ReadableDivisions(q)
      [] q.op[1] = "member" /\ q.op[2] \in {"update", "linkAccess"} ->
            If(q.role = "system_admin", Division)
      [] OTHER -> Division

\* The division the request is about, None for a list of all and where the
\* operation is about no division of the actor's.
About(q) ==
    CASE q.found # NoTeam                                        -> q.found.division
      [] q.op[1] = "division_lead" \/ q.op = <<"member", "update">> -> None
      [] OTHER                                                   -> q.goal.division

Reach(q) == IF About(q) = None THEN Scope(q) ELSE Scope(q) \cap {About(q)}

\* assertEligibleMember for the lead of a team, assertDivisionMove for an update.
Eligible(q) ==
    /\ (q.op[1] = "team" /\ q.goal.member # None) =>
          home[q.goal.member] = About(q)
    /\ q.op = <<"member", "update">> =>
          \A t \in Team : Exists(t) /\ team[t].lead = q.goal.member
                             => team[t].division = q.goal.division

Decide(r) ==
    LET q == request[r]
    IN  /\ At(r, "loaded")
        /\ Reach(q) # {}
        /\ Eligible(q)
        /\ Become(r, [q EXCEPT !.pc = "decided", !.scope = Reach(q)])
        /\ UNCHANGED <<permissionVars, orgVars>>

\* Some guard, lookup or constraint refuses the request, or it is lost.
Fail(r) ==
    /\ Active(r) /\ request[r].pc \notin {"replacing", "served"}
    /\ Become(r, Done)
    /\ UNCHANGED <<permissionVars, orgVars>>

----------------------------------------------------------------------------
(* The handlers' writes *)

Serve(r) == Become(r, [request[r] EXCEPT !.pc = "served"])

\* Lists, details, and the operations that change nobody's authority.
Answer(r) ==
    /\ At(r, "decided")
    /\ \/ request[r].op[1] \in {"team_membership", "user", "company"} \cup DOMAIN AdminCode
       \/ request[r].op[2] \in RoleReads \cup {"findLead", "findForUser"}
       \/ request[r].op[1] = "team" /\ request[r].op[2] \in {"update"} \cup TeamReads
       \/ request[r].op[1] = "member" /\ request[r].op[2] \in {"create"} \cup MemberReads
    /\ Serve(r)
    /\ UNCHANGED <<permissionVars, orgVars>>

\* The first role of a user is the one it acts in.
Granted(m, c) ==
    /\ grants' = [grants EXCEPT ![m] = @ \cup {c}]
    /\ acting' = [acting EXCEPT ![m] = IF @ = None THEN c ELSE @]

AssignDivisionLead(r) ==
    LET g == request[r].goal
    IN  /\ Handler(r, "division_lead", "assignLead")
        /\ led' = [led EXCEPT ![g.division] = g.member]
        /\ Granted(g.member, "division_lead")
        /\ linked' = [linked EXCEPT ![g.member] = @ \cup {"division_lead"}]
        /\ Serve(r)
        /\ UNCHANGED <<permissionVars, home, team>>

RevokeDivisionLead(r) ==
    LET g == request[r].goal
    IN  /\ Handler(r, "division_lead", "revokeLead")
        /\ led[g.division] # None
        /\ led' = [led EXCEPT ![g.division] = None]
        /\ Serve(r)
        /\ UNCHANGED <<permissionVars, home, grants, linked, acting, team>>

CreateTeam(r, t) ==
    LET g == request[r].goal
    IN  /\ Handler(r, "team", "create")
        /\ team[t] = None
        /\ team' = [team EXCEPT ![t] = [division |-> g.division, lead |-> g.member]]
        /\ Serve(r)
        /\ UNCHANGED <<permissionVars, home, grants, linked, acting, led>>

AssignTeamLead(r) ==
    LET g == request[r].goal
    IN  /\ Handler(r, "team", "assignLead")
        /\ Exists(g.team)
        /\ team' = [team EXCEPT ![g.team] = [division |-> @.division, lead |-> g.member]]
        /\ Serve(r)
        /\ UNCHANGED <<permissionVars, home, grants, linked, acting, led>>

DeleteTeam(r) ==
    LET g == request[r].goal
    IN  /\ Handler(r, "team", "delete")
        /\ Exists(g.team)
        /\ team' = [team EXCEPT ![g.team] = Gone]
        /\ Serve(r)
        /\ UNCHANGED <<permissionVars, home, grants, linked, acting, led>>

UpdateMember(r) ==
    LET g == request[r].goal
    IN  /\ Handler(r, "member", "update")
        /\ home' = [home EXCEPT ![g.member] = g.division]
        /\ Serve(r)
        /\ UNCHANGED <<permissionVars, grants, linked, acting, led, team>>

LinkAccess(r) ==
    LET g == request[r].goal
    IN  /\ Handler(r, "member", "linkAccess")
        /\ g.role \in grants[g.member]
        /\ linked' = [linked EXCEPT ![g.member] = @ \cup {g.role}]
        /\ Serve(r)
        /\ UNCHANGED <<permissionVars, home, grants, acting, led, team>>

AssignUserRole(r) ==
    LET g == request[r].goal
    IN  /\ Handler(r, "user_role", "assignUserRole")
        /\ Granted(g.member, g.role)
        /\ Serve(r)
        /\ UNCHANGED <<permissionVars, home, linked, led, team>>

\* The roles m may act in once c is revoked: a profile counts while its role is
\* granted.
ActsAfter(m, c) ==
    CASE acting[m] # c    -> {acting[m]}
      [] grants[m] = {c} -> {None}
      [] OTHER           -> grants[m] \ {c}

\* Nobody revokes its own administration, and one administrator stays.
RevokeUserRole(r) ==
    LET g == request[r].goal
    IN  /\ Handler(r, "user_role", "revokeUserRole")
        /\ g.role \in grants[g.member]
        /\ g.role = "system_admin" =>
              /\ g.member # request[r].actor
              /\ \E m \in Member \ {g.member} : "system_admin" \in grants[m]
        /\ grants' = [grants EXCEPT ![g.member] = @ \ {g.role}]
        /\ \E c \in ActsAfter(g.member, g.role) :
              acting' = [acting EXCEPT ![g.member] = c]
        /\ Serve(r)
        /\ UNCHANGED <<permissionVars, home, linked, led, team>>

\* activate makes another profile of the user its default.
Activate(r) ==
    LET q == request[r]
    IN  /\ Handler(r, "actor_profile", "activate")
        /\ q.goal.role \in grants[q.actor]
        /\ acting' = [acting EXCEPT ![q.actor] = q.goal.role]
        /\ Serve(r)
        /\ UNCHANGED <<permissionVars, home, grants, linked, led, team>>

StartReplacement(r) ==
    /\ Handler(r, "role_permission", "setRolePermissions")
    /\ BeginReplace(r, request[r].goal.role, request[r].goal.codes)
    /\ Become(r, [request[r] EXCEPT !.pc = "replacing"])
    /\ UNCHANGED orgVars

FinishReplacement(r) ==
    /\ At(r, "replacing")
    /\ \/ CommitReplace(r) /\ Serve(r)
       \/ FailReplace(r) /\ Become(r, Done)
    /\ UNCHANGED orgVars

\* The response is sent.
Reply(r) ==
    /\ At(r, "served")
    /\ Become(r, Done)
    /\ UNCHANGED <<permissionVars, orgVars>>

Step(r) ==
    \/ \E m \in Member, op \in Op : \E goal \in Goals[op] : Arrive(r, m, op, goal)
    \/ ReadProfile(r) \/ ReadRights(r) \/ ReadLeads(r)
    \/ Load(r) \/ Decide(r) \/ Fail(r) \/ Answer(r)
    \/ AssignDivisionLead(r) \/ RevokeDivisionLead(r)
    \/ \E t \in Team : CreateTeam(r, t)
    \/ AssignTeamLead(r) \/ DeleteTeam(r)
    \/ UpdateMember(r) \/ LinkAccess(r)
    \/ AssignUserRole(r) \/ RevokeUserRole(r) \/ Activate(r)
    \/ StartReplacement(r) \/ FinishReplacement(r) \/ Reply(r)

\* A new release seeds its codes.
Release == Seed /\ UNCHANGED <<orgVars, request>>

Next ==
    /\ (\E r \in Request : Step(r)) \/ Release
    /\ gained' = [r \in Request |-> request'[r] # Done /\
          \/ gained[r]
          \/ request[r].pc \in Undecided /\ Grows(r)]

Spec == Init /\ [][Next]_vars

----------------------------------------------------------------------------
(* Properties *)

\* Nobody gets what it was not granted: although role, permissions and led
\* divisions are read at three moments and used at later ones
\* (findActiveActor, MemberScopeProvider, TeamScopeProvider), a request reaches
\* only divisions in which its actor was entitled to the operation on arrival,
\* also if its role was taken away or exchanged for one that entitles it to no
\* more; unless the actor was given something while the request ran.
NothingUngranted ==
    \A r \in Request : At(r, "served") =>
        gained[r] \/ request[r].scope \subseteq request[r].entitled
=============================================================================
