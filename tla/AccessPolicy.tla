---------------------------- MODULE AccessPolicy ----------------------------
(***************************************************************************)
(* Who may reach which handler: the guards every controller declares, as   *)
(* one function per controller from its handlers to routes, and what each  *)
(* guard decides.  An operation is a pair <<controller, handler>>.  The    *)
(* module has no state; Authority lets requests pass these guards while    *)
(* what they look up changes, Tenancy takes the way a request gets its     *)
(* tenant from here.                                                       *)
(***************************************************************************)

\* ActorRoleCode.
RoleCode ==
    {"system_admin", "ccr_coordinator", "division_head", "division_lead",
     "team_lead", "division_member", "tms_manager", "tms_drawing",
     "tms_checking", "tms_approval", "client_owner"}

\* The codes of WorkflowActionCode that a route asks for; the others belong to
\* workflows that have no handler yet.
RouteCode ==
    {"ADD_DIVISION", "ADD_TEAM", "ASSIGN_LEADER", "ASSIGN_MEMBER",
     "ADD_MEMBER", "MANAGE_CLIENT", "MANAGE_CLIENT_CONTACT",
     "MANAGE_CLIENT_PORTAL_ACCESS"}

\* The grants a tenant starts with, as far as routes ask for them.
SeedGrants ==
    [c \in RoleCode |->
        CASE c = "system_admin"  -> RouteCode
          [] c = "division_head" -> {"ADD_DIVISION", "ADD_TEAM", "ASSIGN_LEADER"}
          [] c = "division_lead" -> {"ADD_TEAM", "ASSIGN_MEMBER"}
          [] c = "team_lead"     -> {"ADD_MEMBER", "ASSIGN_MEMBER"}
          [] OTHER               -> {}]

----------------------------------------------------------------------------
(* Routes: the guards in front of a handler, the roles that                *)
(* @AllowActorRoles adds to the administrator, the codes that              *)
(* @Permissions requires.                                                  *)

SignedIn == {"AccessTokenGuard", "TenantContextGuard", "AuthenticationGuard"}

Guarded(guards, admits, needs) ==
    [guards |-> guards, admits |-> admits, needs |-> needs]

Open == Guarded({}, {}, {})
ByHeader == Guarded({"TenantContextGuard"}, {}, {})
ForUsers == Guarded(SignedIn, {}, {})
ForAdmins == Guarded(SignedIn \cup {"SystemAdminGuard"}, {}, {})

Scoped(needs) ==
    Guarded(SignedIn \cup {"ObjectScopeGuard", "PermissionsGuard"}, {}, needs)

ScopedAdmin(admits, needs) ==
    Guarded(SignedIn \cup {"ObjectScopeGuard", "SystemAdminGuard", "PermissionsGuard"},
            admits, needs)

RolePermissionController ==
    [h \in {"findRoles", "findRole", "setRolePermissions", "findPermissions",
            "findPermission"} |-> ForAdmins]

UserRoleController ==
    [h \in {"findUserRoles", "assignUserRole", "revokeUserRole"} |-> ForAdmins]

DivisionController ==
    [h \in {"create", "findAll", "findOne", "update", "delete"} |->
        ScopedAdmin({}, {"ADD_DIVISION"})]

DivisionLeadController ==
    [h \in {"assignLead", "findLead", "revokeLead"} |->
        ScopedAdmin({"division_head"}, {"ASSIGN_LEADER"})]

MemberController ==
    [h \in {"create", "findAll", "findOne", "findLedDivisions", "update",
            "delete", "linkAccess"} |-> Scoped({"ADD_MEMBER"})]

TeamController ==
    [h \in {"create", "findAll", "findOne", "update", "delete", "assignLead"} |->
        Scoped(IF h = "findOne" THEN {"ASSIGN_MEMBER"} ELSE {"ADD_TEAM"})]

TeamMembershipController ==
    [h \in {"listMembers", "addMember", "removeMember"} |->
        Scoped({"ASSIGN_MEMBER"})]

ClientController ==
    [h \in {"create", "findAll", "findOne", "update", "deactivate", "reactivate"} |->
        ScopedAdmin({}, {"MANAGE_CLIENT"})]

ClientContactController ==
    [h \in {"addContact", "findContacts", "findContact", "updateContact",
            "deactivateContact", "reactivateContact", "setPrimary"} |->
        ScopedAdmin({}, {"MANAGE_CLIENT_CONTACT"})]

ClientPortalAccessController ==
    [h \in {"grantPortalAccess", "revokePortalAccess"} |->
        ScopedAdmin({}, {"MANAGE_CLIENT_PORTAL_ACCESS"})]

CompanyController ==
    [h \in {"findAll", "findOne", "update"} |-> ScopedAdmin({}, {})]

CompanySignupController == [h \in {"signup"} |-> Open]

CompanyTypeController == [h \in {"findAll"} |-> Open]

UserController ==
    [h \in {"create", "findAll", "findOne", "update", "remove"} |-> ForAdmins]

AuthController ==
    [h \in {"login", "refresh", "forgotPassword", "resetPassword", "logout", "me"} |->
        CASE h \in {"login", "refresh"}                 -> Open
          [] h \in {"forgotPassword", "resetPassword"} -> ByHeader
          [] h \in {"logout", "me"}                     -> ForUsers]

ActorProfileController == [h \in {"findForUser", "activate"} |-> ForUsers]

SessionAdministrationController == [h \in {"revoke"} |-> ForAdmins]

Controllers ==
    [role_permission        |-> RolePermissionController,
     user_role              |-> UserRoleController,
     division               |-> DivisionController,
     division_lead          |-> DivisionLeadController,
     member                 |-> MemberController,
     team                   |-> TeamController,
     team_membership        |-> TeamMembershipController,
     client                 |-> ClientController,
     client_contact         |-> ClientContactController,
     client_portal_access   |-> ClientPortalAccessController,
     company                |-> CompanyController,
     company_signup         |-> CompanySignupController,
     company_type           |-> CompanyTypeController,
     user                   |-> UserController,
     auth                   |-> AuthController,
     actor_profile          |-> ActorProfileController,
     session_administration |-> SessionAdministrationController]

\* Every operation the service offers.
Operations ==
    UNION {{<<c, h>> : h \in DOMAIN Controllers[c]} : c \in DOMAIN Controllers}

RouteOf(op) == Controllers[op[1]][op[2]]

----------------------------------------------------------------------------
(* What the guards decide *)

\* SystemAdminGuard.
AdminAdmitted(route, role) ==
    "SystemAdminGuard" \in route.guards
        => role = "system_admin" \/ role \in route.admits

\* PermissionsGuard, where the actor's role has the codes rights.
Permitted(route, rights) ==
    "PermissionsGuard" \in route.guards => route.needs \subseteq rights

\* The guards behind the authentication.
Passes(op, role, rights) ==
    /\ AdminAdmitted(RouteOf(op), role)
    /\ Permitted(RouteOf(op), rights)

\* How a request gets its tenant: from its token, from a header, or in its
\* handler.
TenantSource(op) ==
    CASE "AccessTokenGuard" \in RouteOf(op).guards   -> "token"
      [] "TenantContextGuard" \in RouteOf(op).guards -> "header"
      [] OTHER                                       -> "handler"
=============================================================================
