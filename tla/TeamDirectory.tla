--------------------------- MODULE TeamDirectory ---------------------------
(***************************************************************************)
(* Members, teams and team memberships of a company.                       *)
(*                                                                         *)
(* The services check in one transaction and write in the next, all of     *)
(* them READ COMMITTED, so a request is a sequence of steps other requests *)
(* interleave with; the foreign keys are checked when a row is written.    *)
(* A request may stop between two steps: a database error or a crash.      *)
(* Divisions are fixed here.  Which actor may call what is left out: an    *)
(* administrator may call everything.                                      *)
(***************************************************************************)
EXTENDS Integers, FiniteSets

CONSTANTS
    Division, Member, Team,
    Row,          \* ids of team_members rows; bounds how many are created
    Request,      \* HTTP requests that run at the same time
    Deletable,    \* the members that have no actor profile
    None          \* SQL null, or a row that does not exist

ASSUME RequestAssumption == IsFiniteSet(Request)
ASSUME DeletableAssumption == Deletable \subseteq Member

VARIABLES
    home,       \* home[m]: the division of m, None once deleted
    active,     \* members.is_active
    division,   \* division[t]: the division of t, None when t does not exist
    lead,       \* teams.lead_member_id
    row,        \* the rows of team_members
    request     \* request[r]: what r has checked and will write

vars == <<home, active, division, lead, row, request>>
members == <<home, active>>
teams == <<division, lead>>

\* left_at is set by the removal `left'.  The rest is history that only the
\* properties read: the rows of the pair that the addition saw, and the other
\* removals that had found the row when it was ended.
Membership ==
    [team : Team, member : Member, left : Request \cup {None},
     saw : SUBSET Row, rivals : SUBSET Request]

ASSUME NoneAssumption ==
    None \notin Division \cup Member \cup Team \cup BOOLEAN \cup Request \cup Membership

Idle == [pc |-> "idle"]

Pending ==
    {Idle}
    \cup [pc : {"create"}, division : Division, member : Member \cup {None}]
    \cup [pc : {"lead", "eligible", "remove"}, team : Team, member : Member]
    \cup [pc : {"add"}, team : Team, member : Member, saw : SUBSET Row]
    \cup [pc : {"end"}, row : Row]
    \cup [pc : {"disband"}, team : Team]
    \cup [pc : {"links", "update"}, member : Member,
          division : Division \cup {None}, isActive : BOOLEAN \cup {None}]
    \cup [pc : {"drop"}, member : Member]

TypeOK ==
    /\ home \in [Member -> Division \cup {None}]
    /\ active \in [Member -> BOOLEAN]
    /\ division \in [Team -> Division \cup {None}]
    /\ lead \in [Team -> Member \cup {None}]
    /\ row \in [Row -> Membership \cup {None}]
    /\ request \in [Request -> Pending]

\* Seeded members, no teams yet.
Init ==
    /\ home \in [Member -> Division]
    /\ active = [m \in Member |-> TRUE]
    /\ division = [t \in Team |-> None]
    /\ lead = [t \in Team |-> None]
    /\ row = [x \in Row |-> None]
    /\ request = [r \in Request |-> Idle]

At(r, pc) == request[r].pc = pc

Become(r, state) == request' = [request EXCEPT ![r] = state]

Exists(m) == home[m] # None

Rows == {x \in Row : row[x] # None}
RowsOf(t, m) == {x \in Rows : row[x].team = t /\ row[x].member = m}

\* Broken form of ActiveRows: leftAt is not compared.
ActiveRows_Ended(t, m) == RowsOf(t, m)

ActiveRows(t, m) == {x \in RowsOf(t, m) : row[x].left = None}

\* Broken form of Eligible: the division is not compared.
Eligible_AnyDivision(m, d) == Exists(m) /\ active[m]

\* TeamService.assertEligibleMember.
Eligible(m, d) == home[m] = d /\ active[m]

\* A database error, a lost constraint check, a crash: nothing more is written.
Fail(r) ==
    /\ ~At(r, "idle")
    /\ Become(r, Idle)
    /\ UNCHANGED <<members, teams, row>>

----------------------------------------------------------------------------
(* TeamService *)

CheckNewTeam(r, d, m) ==
    /\ At(r, "idle")
    /\ m # None => Eligible(m, d)
    /\ Become(r, [pc |-> "create", division |-> d, member |-> m])
    /\ UNCHANGED <<members, teams, row>>

CreateTeam(r, t) ==
    /\ At(r, "create")
    /\ division[t] = None
    /\ request[r].member # None => Exists(request[r].member)
    /\ division' = [division EXCEPT ![t] = request[r].division]
    /\ lead' = [lead EXCEPT ![t] = request[r].member]
    /\ Become(r, Idle)
    /\ UNCHANGED <<members, row>>

CheckLead(r, t, m) ==
    /\ At(r, "idle")
    /\ division[t] # None
    /\ Eligible(m, division[t])
    /\ Become(r, [pc |-> "lead", team |-> t, member |-> m])
    /\ UNCHANGED <<members, teams, row>>

AssignLead(r) ==
    /\ At(r, "lead")
    /\ division[request[r].team] # None
    /\ Exists(request[r].member)
    /\ lead' = [lead EXCEPT ![request[r].team] = request[r].member]
    /\ Become(r, Idle)
    /\ UNCHANGED <<members, division, row>>

\* Any membership row, ended ones included, blocks the deletion.
HasAnyMembership(t) == \E x \in Rows : row[x].team = t

CheckDisband(r, t) ==
    /\ At(r, "idle")
    /\ division[t] # None
    /\ ~HasAnyMembership(t)
    /\ Become(r, [pc |-> "disband", team |-> t])
    /\ UNCHANGED <<members, teams, row>>

\* team_members references teams ON DELETE RESTRICT.
DeleteTeam(r) ==
    LET t == request[r].team IN
    /\ At(r, "disband")
    /\ division[t] # None
    /\ ~HasAnyMembership(t)
    /\ division' = [division EXCEPT ![t] = None]
    /\ lead' = [lead EXCEPT ![t] = None]
    /\ Become(r, Idle)
    /\ UNCHANGED <<members, row>>

----------------------------------------------------------------------------
(* TeamMembershipService *)

CheckMember(r, t, m, pc) ==
    /\ At(r, "idle")
    /\ division[t] # None
    /\ Eligible(m, division[t])
    /\ Become(r, [pc |-> pc, team |-> t, member |-> m])
    /\ UNCHANGED <<members, teams, row>>

\* Broken form of Vacant: nobody looks for an active row.
Vacant_Unchecked(t, m) == TRUE

Vacant(t, m) == ActiveRows(t, m) = {}

CheckVacant(r) ==
    /\ At(r, "eligible")
    /\ Vacant(request[r].team, request[r].member)
    /\ LET t == request[r].team
           m == request[r].member
       IN  Become(r, [pc |-> "add", team |-> t, member |-> m, saw |-> RowsOf(t, m)])
    /\ UNCHANGED <<members, teams, row>>

AddMember(r, x) ==
    /\ At(r, "add")
    /\ row[x] = None
    /\ division[request[r].team] # None
    /\ Exists(request[r].member)
    /\ row' = [row EXCEPT ![x] = [team |-> request[r].team,
                                  member |-> request[r].member,
                                  left |-> None,
                                  saw |-> request[r].saw,
                                  rivals |-> {}]]
    /\ Become(r, Idle)
    /\ UNCHANGED <<members, teams>>

\* endMember finds one active row of the pair, and updates it by its id: a row
\* that was ended meanwhile is ended again.
FindActive(r) ==
    /\ At(r, "remove")
    /\ \E x \in ActiveRows(request[r].team, request[r].member) :
          Become(r, [pc |-> "end", row |-> x])
    /\ UNCHANGED <<members, teams, row>>

\* The other removals that have found x.
Finders(r, x) == {s \in Request \ {r} : At(s, "end") /\ request[s].row = x}

Ended(r, x) == [row[x] EXCEPT !.left = r, !.rivals = Finders(r, x)]

EndMember(r) ==
    /\ At(r, "end")
    /\ row' = [row EXCEPT ![request[r].row] = Ended(r, request[r].row)]
    /\ Become(r, Idle)
    /\ UNCHANGED <<members, teams>>

----------------------------------------------------------------------------
(* MemberService *)

\* update without a division checks no links; a move to the division the
\* member already has checks none either.
CheckUpdate(r, m, d, isActive) ==
    /\ At(r, "idle")
    /\ Exists(m)
    /\ Become(r, [pc |-> IF d \in {None, home[m]} THEN "update" ELSE "links",
                  member |-> m, division |-> d, isActive |-> isActive])
    /\ UNCHANGED <<members, teams, row>>

\* Broken form of HasCrossDivisionTeamLinks: teams the member leads are forgotten.
HasCrossDivisionTeamLinks_MembershipsOnly(m, d) ==
    \E t \in Team : division[t] # d /\ ActiveRows(t, m) # {}

HasCrossDivisionTeamLinks(m, d) ==
    \E t \in Team : division[t] # d /\ (lead[t] = m \/ ActiveRows(t, m) # {})

CheckLinks(r) ==
    /\ At(r, "links")
    /\ ~HasCrossDivisionTeamLinks(request[r].member, request[r].division)
    /\ Become(r, [request[r] EXCEPT !.pc = "update"])
    /\ UNCHANGED <<members, teams, row>>

Supplied(new, old) == IF new = None THEN old ELSE new

UpdateMember(r) ==
    LET q == request[r] IN
    /\ At(r, "update")
    /\ Exists(q.member)
    /\ home' = [home EXCEPT ![q.member] = Supplied(q.division, @)]
    /\ active' = [active EXCEPT ![q.member] = Supplied(q.isActive, @)]
    /\ Become(r, Idle)
    /\ UNCHANGED <<teams, row>>

\* Broken form of HasRows: ended memberships are not references.
HasRows_Active(m) == \E t \in Team : ActiveRows(t, m) # {}

HasRows(m) == \E x \in Rows : row[x].member = m

CheckDrop(r, m) ==
    /\ At(r, "idle")
    /\ Exists(m)
    /\ m \in Deletable
    /\ \A t \in Team : lead[t] # m
    /\ ~HasRows(m)
    /\ Become(r, [pc |-> "drop", member |-> m])
    /\ UNCHANGED <<members, teams, row>>

\* team_members references members ON DELETE RESTRICT, teams ON DELETE SET NULL.
DeleteMember(r) ==
    LET m == request[r].member IN
    /\ At(r, "drop")
    /\ Exists(m)
    /\ ~HasRows(m)
    /\ home' = [home EXCEPT ![m] = None]
    /\ active' = [active EXCEPT ![m] = FALSE]
    /\ lead' = [t \in Team |-> IF lead[t] = m THEN None ELSE lead[t]]
    /\ Become(r, Idle)
    /\ UNCHANGED <<division, row>>

----------------------------------------------------------------------------

Next ==
    \E r \in Request :
       \/ \E d \in Division, m \in Member \cup {None} : CheckNewTeam(r, d, m)
       \/ \E t \in Team : CreateTeam(r, t)
       \/ \E t \in Team, m \in Member : CheckLead(r, t, m)
       \/ AssignLead(r)
       \/ \E t \in Team : CheckDisband(r, t)
       \/ DeleteTeam(r)
       \/ \E t \in Team, m \in Member, pc \in {"eligible", "remove"} :
             CheckMember(r, t, m, pc)
       \/ CheckVacant(r)
       \/ \E x \in Row : AddMember(r, x)
       \/ FindActive(r)
       \/ EndMember(r)
       \/ \E m \in Member, d \in Division \cup {None}, b \in BOOLEAN \cup {None} :
             CheckUpdate(r, m, d, b)
       \/ CheckLinks(r)
       \/ UpdateMember(r)
       \/ \E m \in Member : CheckDrop(r, m)
       \/ DeleteMember(r)
       \/ Fail(r)

Spec == Init /\ [][Next]_vars

----------------------------------------------------------------------------
(* Properties *)

\* A member leads and belongs only to teams of its own division: what the
\* eligibility checks and the move check keep together.
LinksFollowDivision ==
    /\ \A t \in Team : lead[t] # None => home[lead[t]] = division[t]
    /\ \A x \in Rows : row[x].left = None => home[row[x].member] = division[row[x].team]

\* A member is active on a team twice only by additions that overlapped: each
\* had looked for an active row before the other inserted its own.  So a request
\* alone never adds a second one.
DuplicatesNeedOverlap ==
    \A t \in Team, m \in Member : \A x, y \in ActiveRows(t, m) :
        x # y => x \notin row[y].saw /\ y \notin row[x].saw

\* Whatever is deleted while others add, no membership and no team lead refers
\* to a member or a team that is gone.
NoDanglingLink ==
    /\ \A x \in Rows : Exists(row[x].member) /\ division[row[x].team] # None
    /\ \A t \in Team : lead[t] # None => division[t] # None /\ Exists(lead[t])

\* Membership history is never deleted, moved or reopened, and a membership ends
\* once, except that a removal which had found it active before it was ended ends
\* it again: only removals that overlap rewrite left_at.
HistoryKept ==
    [][\A x \in Rows :
          /\ row'[x] # None
          /\ row'[x].team = row[x].team /\ row'[x].member = row[x].member
          /\ row[x].left # None =>
                row'[x].left \in {row[x].left} \cup row[x].rivals]_vars
=============================================================================
