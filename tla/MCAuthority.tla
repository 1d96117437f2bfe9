---------------------------- MODULE MCAuthority ----------------------------
(* Constants and scenarios for checking Authority *)
EXTENDS Authority, TLC

CONSTANTS boss, ann, east, west, r1, r2

MCRole == {"system_admin", "division_head", "division_lead", "team_lead"}
MCCode == {"ADD_TEAM", "ASSIGN_LEADER", "ASSIGN_MEMBER", "ADD_MEMBER", "ADD_DIVISION"}
MCNew == {"ADD_DIVISION"}
MCSets == {{"ADD_TEAM", "ADD_MEMBER"}, {"ADD_DIVISION"}}

\* What an actor with a scope of its own asks for.
AnnsOp == {<<"division_lead", "assignLead">>, <<"division_lead", "revokeLead">>,
           <<"team", "create">>, <<"team", "assignLead">>, <<"team", "delete">>,
           <<"team", "findAll">>, <<"team", "findOne">>,
           <<"team_membership", "addMember">>,
           <<"member", "create">>, <<"member", "findAll">>, <<"member", "findOne">>,
           <<"member", "findLedDivisions">>, <<"division_lead", "findLead">>,
           <<"actor_profile", "activate">>, <<"client", "create">>}

\* What an administrator changes meanwhile.
BossOp == {<<"division_lead", "assignLead">>, <<"division_lead", "revokeLead">>,
           <<"team", "assignLead">>, <<"team", "delete">>,
           <<"member", "update">>, <<"member", "linkAccess">>,
           <<"role_permission", "setRolePermissions">>,
           <<"user_role", "assignUserRole">>, <<"user_role", "revokeUserRole">>,
           <<"client", "create">>}

MCOp == AnnsOp \cup BossOp

\* An administrator and one more actor, with a role or two and perhaps leads of its
\* own.
MCInit ==
    /\ home = [m \in Member |-> IF m = boss THEN east ELSE west]
    /\ \E C \in {{c} : c \in Role \ {"system_admin"}} \cup {{"division_lead", "team_lead"}} :
          grants = [m \in Member |-> IF m = boss THEN {"system_admin"} ELSE C]
    /\ linked \in [Member -> {{}, {"division_lead", "team_lead"}}]
    /\ linked[boss] = {}
    /\ linked[ann] # {} => grants[ann] # {"division_head"}
    /\ led \in [Division -> {None, ann}] /\ led[west] = None
    /\ team \in [Team -> {None} \cup [division : {west}, lead : {None, ann}]]
    /\ \A t \in Team : team[t] # None => (team[t].lead = ann <=> led[east] = None)
    /\ \A t \in Team : team[t] = None => led[east] = None
    /\ \E S \in {SeedGrants["division_lead"], {"ADD_TEAM", "ADD_MEMBER"}} :
          /\ asked = [c \in Role |-> IF c = "division_lead" THEN S
                                     ELSE SeedGrants[c] \cap Released]
          /\ \/ S = SeedGrants["division_lead"]
             \/ "division_lead" \in grants[ann] /\ linked[ann] # {}
    /\ Init

MCSpec == MCInit /\ [][Next]_vars

Is(r, m, ops) ==
    Active(r) => request[r].actor = m /\ request[r].op \in ops

\* ann's request runs while an administrator changes what ann may do, whose own
\* guards nobody disturbs and are passed before; or two
\* administrators replace the permissions of a role, perhaps while a release
\* seeds its code.
Scenario ==
    \/ /\ catalogue = Released
       /\ Is(r1, ann, AnnsOp) /\ Is(r2, boss, BossOp)
       /\ \A r \in Request : Active(r) =>
             /\ request[r].goal.member # boss
             /\ request[r].goal.role \in {None, "division_lead", "team_lead"}
       /\ ~At(r1, "idle") => request[r2].pc \in {"decided", "replacing", "served", "done"}
    \/ \A r \in Request :
          /\ Is(r, boss, {<<"role_permission", "setRolePermissions">>})
          /\ Active(r) => request[r].goal.role = "division_head"
          /\ \A c \in Role \ {"division_head"} : rows[c] = Released
=============================================================================
