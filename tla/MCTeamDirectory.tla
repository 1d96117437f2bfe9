-------------------------- MODULE MCTeamDirectory --------------------------
(***************************************************************************)
(* Members, teams and memberships on small instances: one request at a     *)
(* time with every member and team, or two requests that interleave, with  *)
(* one member, one team at a time and two memberships.                     *)
(***************************************************************************)
EXTENDS TeamDirectory, TLC

CONSTANT m1

VARIABLE width    \* how many requests run at the same time

Few ==
    /\ Cardinality(Rows) <= 2
    /\ Cardinality({t \in Team : division[t] # None}) <= 1
    /\ \A r \in Request :
          "member" \in DOMAIN request[r] => request[r].member \in {m1, None}

MCInit == Init /\ width \in {1, 2}

MCNext ==
    /\ Next
    /\ UNCHANGED width
    /\ Cardinality({r \in Request : ~At(r, "idle")})' <= width
    /\ width = 2 => Few'

MCSpec == MCInit /\ [][MCNext]_<<vars, width>>

\* Taken one at a time, the requests of TeamService, TeamMembershipService and
\* MemberService keep the leads and members of a team in its division.
LinksFollowDivisionAlone == width = 1 => LinksFollowDivision

Symmetry ==
    Permutations(Division) \cup Permutations(Team)
        \cup Permutations(Row) \cup Permutations(Request)
=============================================================================
