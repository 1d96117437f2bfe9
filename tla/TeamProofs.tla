----------------------------- MODULE TeamProofs -----------------------------
(***************************************************************************)
(* Proofs about TeamDirectory for every set of divisions, members, teams,  *)
(* rows and requests, and about requests that are taken one at a time.     *)
(***************************************************************************)
EXTENDS MCTeamDirectory, FiniteSetTheorems, TLAPS

LEMMA NotNone == None \notin Division \cup Member \cup Team \cup Request \cup Membership
BY NoneAssumption

USE NotNone

----------------------------------------------------------------------------
(* The inductive invariant of all requests. *)

\* Rows are never deleted: the one that a removal has found is still there.
FoundIsThere == \A r \in Request : At(r, "end") => request[r].row \in Rows

----------------------------------------------------------------------------
(* Requests *)

\* A request is what its pc says.
LEMMA Shapes ==
    ASSUME TypeOK, NEW r \in Request
    PROVE  /\ At(r, "create") =>
                 request[r] \in [pc : {"create"}, division : Division, member : Member \cup {None}]
           /\ \A pc \in {"lead", "eligible", "remove"} : At(r, pc) =>
                 request[r] \in [pc : {pc}, team : Team, member : Member]
           /\ At(r, "add") =>
                 request[r] \in [pc : {"add"}, team : Team, member : Member, saw : SUBSET Row]
           /\ At(r, "end") => request[r] \in [pc : {"end"}, row : Row]
           /\ At(r, "disband") => request[r] \in [pc : {"disband"}, team : Team]
           /\ \A pc \in {"links", "update"} : At(r, pc) =>
                 request[r] \in [pc : {pc}, member : Member, division : Division \cup {None},
                                isActive : BOOLEAN \cup {None}]
           /\ At(r, "drop") => request[r] \in [pc : {"drop"}, member : Member]
BY DEF TypeOK, Pending, Idle, At

LEMMA Becomes ==
    ASSUME TypeOK, NEW r \in Request, NEW q \in Pending, Become(r, q)
    PROVE  /\ request' \in [Request -> Pending]
           /\ request'[r] = q
           /\ \A s \in Request \ {r} : request'[s] = request[s]
BY DEF TypeOK, Become

LEMMA IdleIsPending == Idle \in Pending /\ Idle.pc = "idle"
BY DEF Idle, Pending

----------------------------------------------------------------------------
(* Types and references. *)

RefInv == TypeOK /\ NoDanglingLink /\ FoundIsThere

LEMMA InitRef == Init => RefInv
BY DEF Init, RefInv, TypeOK, NoDanglingLink, FoundIsThere, Pending, Idle, At, Rows

\* Only a removal relies on what it has found.
LEMMA BecomeFound ==
    ASSUME RefInv, NEW r \in Request, NEW q \in Pending, Become(r, q),
           q.pc = "end" => q.row \in Rows',
           Rows \subseteq Rows'
    PROVE  FoundIsThere'
BY Becomes DEF RefInv, FoundIsThere, At

\* Only r moves, and what it has found is there.
Moves(r) ==
    /\ request' \in [Request -> Pending]
    /\ \A s \in Request \ {r} : request'[s] = request[s]
    /\ request'[r].pc = "end" => request'[r].row \in Rows

LEMMA ReadRef ==
    ASSUME RefInv, NEW r \in Request, Moves(r), UNCHANGED <<members, teams, row>>
    PROVE  RefInv'
<1>1. Rows' = Rows
  BY DEF Rows
<1>2. FoundIsThere'
  BY <1>1 DEF Moves, RefInv, FoundIsThere, At
<1>3. TypeOK'
  BY DEF Moves, RefInv, TypeOK, members, teams
<1>4. NoDanglingLink'
  BY <1>1 DEF RefInv, NoDanglingLink, Exists, members, teams
<1>5. QED
  BY <1>2, <1>3, <1>4 DEF RefInv

LEMMA CreateTeamRef ==
    ASSUME RefInv, NEW r \in Request, NEW t \in Team, CreateTeam(r, t)
    PROVE  RefInv'
<1>1. request[r] \in [pc : {"create"}, division : Division, member : Member \cup {None}]
  BY Shapes DEF RefInv, CreateTeam
<1>2. Rows' = Rows
  BY DEF CreateTeam, Rows
<1>3. FoundIsThere'
  BY <1>2, BecomeFound, IdleIsPending DEF CreateTeam
<1>4. TypeOK'
  BY <1>1, Becomes, IdleIsPending DEF RefInv, TypeOK, members, CreateTeam
<1>5. NoDanglingLink'
  BY <1>1, <1>2 DEF RefInv, TypeOK, NoDanglingLink, Exists, members, CreateTeam
<1>6. QED
  BY <1>3, <1>4, <1>5 DEF RefInv

LEMMA AssignLeadRef ==
    ASSUME RefInv, NEW r \in Request, AssignLead(r)
    PROVE  RefInv'
<1>1. request[r] \in [pc : {"lead"}, team : Team, member : Member]
  BY Shapes DEF RefInv, AssignLead
<1>2. Rows' = Rows
  BY DEF AssignLead, Rows
<1>3. FoundIsThere'
  BY <1>2, BecomeFound, IdleIsPending DEF AssignLead
<1>4. TypeOK'
  BY <1>1, Becomes, IdleIsPending DEF RefInv, TypeOK, members, AssignLead
<1>5. NoDanglingLink'
  BY <1>1, <1>2 DEF RefInv, TypeOK, NoDanglingLink, Exists, members, AssignLead
<1>6. QED
  BY <1>3, <1>4, <1>5 DEF RefInv

LEMMA DeleteTeamRef ==
    ASSUME RefInv, NEW r \in Request, DeleteTeam(r)
    PROVE  RefInv'
<1>1. request[r] \in [pc : {"disband"}, team : Team]
  BY Shapes DEF RefInv, DeleteTeam
<1>2. Rows' = Rows
  BY DEF DeleteTeam, Rows
<1>3. FoundIsThere'
  BY <1>2, BecomeFound, IdleIsPending DEF DeleteTeam
<1>4. TypeOK'
  BY <1>1, Becomes, IdleIsPending DEF RefInv, TypeOK, members, DeleteTeam
<1>5. NoDanglingLink'
  BY <1>1, <1>2
     DEF RefInv, TypeOK, NoDanglingLink, Exists, members, DeleteTeam, HasAnyMembership
<1>6. QED
  BY <1>3, <1>4, <1>5 DEF RefInv

LEMMA AddMemberRef ==
    ASSUME RefInv, NEW r \in Request, NEW x \in Row, AddMember(r, x)
    PROVE  RefInv' /\ Rows' = Rows \cup {x}
<1> DEFINE new == [team |-> request[r].team, member |-> request[r].member, left |-> None,
                   saw |-> request[r].saw, rivals |-> {}]
<1>1. request[r] \in [pc : {"add"}, team : Team, member : Member, saw : SUBSET Row]
  BY Shapes DEF RefInv, AddMember
<1>2. new \in Membership /\ new # None
  <2>1. request[r].team \in Team /\ request[r].member \in Member /\ request[r].saw \subseteq Row
    BY <1>1
  <2>2. new \in Membership
    BY <2>1 DEF Membership
  <2>3. QED
    BY <2>2
<1>3. row[x] = None /\ row' = [row EXCEPT ![x] = new]
  BY DEF AddMember
<1>4. Rows' = Rows \cup {x}
  BY <1>2, <1>3 DEF RefInv, TypeOK, Rows
<1>5. FoundIsThere'
  BY <1>4, BecomeFound, IdleIsPending DEF AddMember
<1>6. TypeOK'
  BY <1>2, <1>3, Becomes, IdleIsPending DEF RefInv, TypeOK, members, teams, AddMember
<1>7. NoDanglingLink'
  <2>1. \A y \in Rows' : row'[y] = IF y = x THEN new ELSE row[y]
    BY <1>3 DEF RefInv, TypeOK, Rows
  <2>2. UNCHANGED <<home, division, lead>>
    BY DEF AddMember, members, teams
  <2>3. Exists(request[r].member) /\ division[request[r].team] # None
    BY DEF AddMember
  <2>4. QED
    BY <2>1, <2>2, <2>3, <1>4 DEF RefInv, NoDanglingLink, Exists
<1>8. QED
  BY <1>4, <1>5, <1>6, <1>7 DEF RefInv

LEMMA EndedRow ==
    ASSUME NEW x, row[x] \in Membership, NEW r \in Request
    PROVE  /\ Ended(r, x) \in Membership /\ Ended(r, x) # None
           /\ Ended(r, x).team = row[x].team /\ Ended(r, x).member = row[x].member
           /\ Ended(r, x).saw = row[x].saw
           /\ Ended(r, x).left = r /\ Ended(r, x).rivals = Finders(r, x)
<1>1. PICK e \in Membership, F \in SUBSET Request : e = row[x] /\ F = Finders(r, x)
  BY DEF Finders
<1> DEFINE f == [e EXCEPT !.left = r, !.rivals = F]
<1>2. /\ f \in Membership
      /\ f.team = e.team /\ f.member = e.member /\ f.saw = e.saw
      /\ f.left = r /\ f.rivals = F
  BY DEF Membership
<1>3. f = Ended(r, x)
  BY <1>1 DEF Ended
<1> HIDE DEF f
<1>4. QED
  BY <1>1, <1>2, <1>3

\* An end rewrites one row, and there nothing but its end.
LEMMA EndMemberDoes ==
    ASSUME RefInv, NEW r \in Request, EndMember(r)
    PROVE  \E x \in Rows : /\ x = request[r].row
                          /\ row[x] \in Membership
                          /\ row' = [row EXCEPT ![x] = Ended(r, x)]
                          /\ Rows' = Rows
<1>1. PICK x \in Rows : x = request[r].row
  BY DEF RefInv, FoundIsThere, EndMember
<1>2. x \in Row /\ row[x] \in Membership /\ row \in [Row -> Membership \cup {None}]
  BY DEF RefInv, TypeOK, Rows
<1>3. row' = [row EXCEPT ![x] = Ended(r, x)]
  BY <1>1 DEF EndMember
<1>4. Ended(r, x) # None
  BY <1>2, EndedRow
<1>5. Rows' = Rows
  BY <1>2, <1>3, <1>4 DEF Rows
<1>6. QED
  BY <1>1, <1>2, <1>3, <1>5

LEMMA EndMemberRef ==
    ASSUME RefInv, NEW r \in Request, EndMember(r)
    PROVE  RefInv'
<1>1. PICK x \in Rows : /\ row[x] \in Membership
                        /\ row' = [row EXCEPT ![x] = Ended(r, x)]
                        /\ Rows' = Rows
  BY EndMemberDoes
<1>2. /\ Ended(r, x) \in Membership
      /\ Ended(r, x).team = row[x].team /\ Ended(r, x).member = row[x].member
  BY <1>1, EndedRow
<1>3. row \in [Row -> Membership \cup {None}]
  BY DEF RefInv, TypeOK
<1>4. FoundIsThere'
  BY <1>1, BecomeFound, IdleIsPending DEF EndMember
<1>5. row' \in [Row -> Membership \cup {None}]
  BY <1>1, <1>2, <1>3
<1>6. TypeOK'
  BY <1>5, Becomes, IdleIsPending DEF RefInv, TypeOK, members, teams, EndMember
<1>7. \A y \in Rows : row'[y].team = row[y].team /\ row'[y].member = row[y].member
  BY <1>1, <1>2, <1>3 DEF Rows
<1>8. NoDanglingLink'
  BY <1>1, <1>7 DEF RefInv, NoDanglingLink, Exists, members, teams, EndMember
<1>9. QED
  BY <1>4, <1>6, <1>8 DEF RefInv

LEMMA UpdateMemberRef ==
    ASSUME RefInv, NEW r \in Request, UpdateMember(r)
    PROVE  RefInv'
<1>1. request[r] \in [pc : {"update"}, member : Member, division : Division \cup {None},
                     isActive : BOOLEAN \cup {None}]
  BY Shapes DEF RefInv, UpdateMember
<1>2. Rows' = Rows
  BY DEF UpdateMember, Rows
<1>3. FoundIsThere'
  BY <1>2, BecomeFound, IdleIsPending DEF UpdateMember
<1>4. TypeOK'
  BY <1>1, NoneAssumption, Becomes, IdleIsPending DEF RefInv, TypeOK, teams, UpdateMember, Supplied
<1>5. \A m \in Member : Exists(m) => Exists(m)'
  BY <1>1 DEF RefInv, TypeOK, UpdateMember, Supplied, Exists
<1>6. NoDanglingLink'
  BY <1>2, <1>5 DEF RefInv, TypeOK, NoDanglingLink, teams, UpdateMember, Rows, Membership
<1>7. QED
  BY <1>3, <1>4, <1>6 DEF RefInv

LEMMA DeleteMemberRef ==
    ASSUME RefInv, NEW r \in Request, DeleteMember(r)
    PROVE  RefInv'
<1> DEFINE m == request[r].member
<1>1. m \in Member
  BY Shapes DEF RefInv, DeleteMember
<1>2. Rows' = Rows
  BY DEF DeleteMember, Rows
<1>3. FoundIsThere'
  BY <1>2, BecomeFound, IdleIsPending DEF DeleteMember
<1>4. TypeOK'
  BY <1>1, Becomes, IdleIsPending DEF RefInv, TypeOK, DeleteMember
<1>5. \A k \in Member : k # m => home'[k] = home[k]
  BY DEF RefInv, TypeOK, DeleteMember
<1>6. /\ \A x \in Rows : row[x].member # m /\ row[x].member \in Member
      /\ \A t \in Team : lead'[t] # None => lead'[t] = lead[t] /\ lead[t] # m
      /\ UNCHANGED <<division, row>>
  BY DEF RefInv, TypeOK, DeleteMember, HasRows, Rows, Membership
<1> HIDE DEF m
<1>7. NoDanglingLink'
  BY <1>2, <1>5, <1>6 DEF RefInv, TypeOK, NoDanglingLink, Exists
<1>8. QED
  BY <1>3, <1>4, <1>7 DEF RefInv

\* Requests that only read.
Reads(r) ==
    \/ \E d \in Division, m \in Member \cup {None} : CheckNewTeam(r, d, m)
    \/ \E t \in Team, m \in Member : CheckLead(r, t, m)
    \/ \E t \in Team : CheckDisband(r, t)
    \/ \E t \in Team, m \in Member, pc \in {"eligible", "remove"} : CheckMember(r, t, m, pc)
    \/ FindActive(r)
    \/ \E m \in Member, d \in Division \cup {None}, b \in BOOLEAN \cup {None} :
          CheckUpdate(r, m, d, b)
    \/ CheckLinks(r)
    \/ \E m \in Member : CheckDrop(r, m)
    \/ Fail(r)

\* Nothing is written, and r moves on to something of the given kind.
LEMMA ReadMoves ==
    ASSUME RefInv, NEW r \in Request, NEW q \in Pending, Become(r, q),
           q.pc = "end" => q.row \in Rows
    PROVE  Moves(r) /\ request'[r] = q
BY Becomes DEF RefInv, Moves

\* Each of them moves on to something else than an addition.
LEMMA ReadsMove ==
    ASSUME RefInv, NEW r \in Request, Reads(r)
    PROVE  /\ UNCHANGED <<members, teams, row>>
           /\ Moves(r)
           /\ request'[r].pc # "add"
<1>1. ASSUME NEW d \in Division, NEW m \in Member \cup {None}, CheckNewTeam(r, d, m)
      PROVE  Moves(r) /\ request'[r].pc # "add"
  <2>1. [pc |-> "create", division |-> d, member |-> m] \in Pending
    BY DEF Pending
  <2>2. QED
    BY <1>1, <2>1, ReadMoves DEF CheckNewTeam
<1>2. ASSUME NEW t \in Team, NEW m \in Member, CheckLead(r, t, m)
      PROVE  Moves(r) /\ request'[r].pc # "add"
  <2>1. [pc |-> "lead", team |-> t, member |-> m] \in Pending
    BY DEF Pending
  <2>2. QED
    BY <1>2, <2>1, ReadMoves DEF CheckLead
<1>3. ASSUME NEW t \in Team, CheckDisband(r, t)
      PROVE  Moves(r) /\ request'[r].pc # "add"
  <2>1. [pc |-> "disband", team |-> t] \in Pending
    BY DEF Pending
  <2>2. QED
    BY <1>3, <2>1, ReadMoves DEF CheckDisband
<1>4. ASSUME NEW t \in Team, NEW m \in Member, NEW pc \in {"eligible", "remove"},
             CheckMember(r, t, m, pc)
      PROVE  Moves(r) /\ request'[r].pc # "add"
  <2>1. [pc |-> pc, team |-> t, member |-> m] \in Pending
    BY DEF Pending
  <2>2. QED
    BY <1>4, <2>1, ReadMoves DEF CheckMember
<1>5. ASSUME FindActive(r)
      PROVE  Moves(r) /\ request'[r].pc # "add"
  <2>1. PICK x \in Rows : Become(r, [pc |-> "end", row |-> x])
    BY <1>5 DEF FindActive, ActiveRows, RowsOf
  <2>2. [pc |-> "end", row |-> x] \in Pending
    BY DEF Pending, Rows
  <2>3. QED
    BY <2>1, <2>2, ReadMoves
<1>6. ASSUME NEW m \in Member, NEW d \in Division \cup {None}, NEW b \in BOOLEAN \cup {None},
             CheckUpdate(r, m, d, b)
      PROVE  Moves(r) /\ request'[r].pc # "add"
  <2>1. PICK pc \in {"update", "links"} :
          Become(r, [pc |-> pc, member |-> m, division |-> d, isActive |-> b])
    BY <1>6 DEF CheckUpdate
  <2>2. [pc |-> pc, member |-> m, division |-> d, isActive |-> b] \in Pending
    BY DEF Pending
  <2>3. QED
    BY <2>1, <2>2, ReadMoves
<1>7. ASSUME CheckLinks(r)
      PROVE  Moves(r) /\ request'[r].pc # "add"
  <2>1. request[r] \in [pc : {"links"}, member : Member, division : Division \cup {None},
                       isActive : BOOLEAN \cup {None}]
    BY <1>7, Shapes DEF RefInv, CheckLinks
  <2>2. [request[r] EXCEPT !.pc = "update"] \in
          [pc : {"update"}, member : Member, division : Division \cup {None},
           isActive : BOOLEAN \cup {None}]
    BY <2>1
  <2>3. QED
    BY <1>7, <2>2, ReadMoves DEF CheckLinks, Pending
<1>8. ASSUME NEW m \in Member, CheckDrop(r, m)
      PROVE  Moves(r) /\ request'[r].pc # "add"
  <2>1. [pc |-> "drop", member |-> m] \in Pending
    BY DEF Pending
  <2>2. QED
    BY <1>8, <2>1, ReadMoves DEF CheckDrop
<1>9. ASSUME Fail(r)
      PROVE  Moves(r) /\ request'[r].pc # "add"
  BY <1>9, IdleIsPending, ReadMoves DEF Fail
<1>10. UNCHANGED <<members, teams, row>>
  BY DEF Reads, CheckNewTeam, CheckLead, CheckDisband, CheckMember, FindActive, CheckUpdate,
         CheckLinks, CheckDrop, Fail
<1>11. QED
  BY <1>1, <1>2, <1>3, <1>4, <1>5, <1>6, <1>7, <1>8, <1>9, <1>10 DEF Reads

LEMMA CheckVacantMoves ==
    ASSUME RefInv, NEW r \in Request, CheckVacant(r)
    PROVE  /\ UNCHANGED <<members, teams, row>>
           /\ Moves(r)
           /\ At(r, "eligible")
           /\ ActiveRows(request[r].team, request[r].member) = {}
           /\ request'[r].pc = "add"
           /\ request'[r].team = request[r].team /\ request'[r].member = request[r].member
           /\ request'[r].saw = RowsOf(request[r].team, request[r].member)
<1>1. PICK t \in Team, m \in Member : t = request[r].team /\ m = request[r].member
  BY Shapes DEF RefInv, CheckVacant
<1>2. PICK S \in SUBSET Row : S = RowsOf(t, m)
  BY DEF RowsOf, Rows
<1> DEFINE q == [pc |-> "add", team |-> t, member |-> m, saw |-> S]
<1>3. q \in [pc : {"add"}, team : Team, member : Member, saw : SUBSET Row]
  OBVIOUS
<1>4. q \in Pending
  BY <1>3 DEF Pending
<1>5. Become(r, q)
  BY <1>1, <1>2 DEF CheckVacant
<1>6. q.pc = "add" /\ q.team = t /\ q.member = m /\ q.saw = S
  OBVIOUS
<1> HIDE DEF q
<1>7. Moves(r) /\ request'[r] = q
  BY <1>4, <1>5, <1>6, ReadMoves
<1>8. QED
  BY <1>1, <1>2, <1>6, <1>7 DEF CheckVacant, Vacant

LEMMA NextCases ==
    ASSUME Next
    PROVE  \E r \in Request :
              \/ Reads(r) \/ CheckVacant(r)
              \/ \E t \in Team : CreateTeam(r, t)
              \/ AssignLead(r) \/ DeleteTeam(r)
              \/ \E x \in Row : AddMember(r, x)
              \/ EndMember(r) \/ UpdateMember(r) \/ DeleteMember(r)
BY DEF Next, Reads

\* Whoever takes a step is under way before it or after it.
LEMMA Busy ==
    ASSUME RefInv, NEW r \in Request,
           \/ Reads(r) \/ CheckVacant(r)
           \/ \E t \in Team : CreateTeam(r, t)
           \/ AssignLead(r) \/ DeleteTeam(r)
           \/ \E x \in Row : AddMember(r, x)
           \/ EndMember(r) \/ UpdateMember(r) \/ DeleteMember(r)
    PROVE  /\ \A s \in Request \ {r} : request'[s] = request[s]
           /\ ~At(r, "idle") \/ ~At(r, "idle")'
<1>1. CASE ~At(r, "idle")
  BY <1>1, ReadsMove, CheckVacantMoves, Becomes, IdleIsPending
     DEF RefInv, Moves, CreateTeam, AssignLead, DeleteTeam, AddMember, EndMember, UpdateMember,
         DeleteMember
<1>2. CASE At(r, "idle")
  <2>1. Reads(r)
    BY <1>2 DEF At, CheckVacant, CreateTeam, AssignLead, DeleteTeam, AddMember, EndMember,
                UpdateMember, DeleteMember
  <2>2. request'[r].pc # "idle"
    BY <1>2, <2>1
       DEF RefInv, TypeOK, At, Become, Reads, CheckNewTeam, CheckLead, CheckDisband, CheckMember,
           FindActive, CheckUpdate, CheckLinks, CheckDrop, Fail
  <2>3. QED
    BY <2>1, <2>2, ReadsMove DEF Moves, At
<1>3. QED
  BY <1>1, <1>2

LEMMA NextRef ==
    ASSUME RefInv, [Next]_vars
    PROVE  RefInv'
<1>1. ASSUME NEW r \in Request, Reads(r)
      PROVE  RefInv'
  BY <1>1, ReadsMove, ReadRef
<1>2. ASSUME NEW r \in Request, CheckVacant(r)
      PROVE  RefInv'
  BY <1>2, CheckVacantMoves, ReadRef
<1>3. ASSUME UNCHANGED vars
      PROVE  RefInv'
  BY <1>3 DEF vars, members, teams, RefInv, TypeOK, NoDanglingLink, FoundIsThere, Rows, Exists, At
<1>4. QED
  BY <1>1, <1>2, <1>3, NextCases, CreateTeamRef, AssignLeadRef, DeleteTeamRef, AddMemberRef,
     EndMemberRef, UpdateMemberRef, DeleteMemberRef

\* Whatever TeamService, TeamMembershipService and MemberService do at the same time, no
\* membership and no team lead refers to a member or a team that is gone.
THEOREM LinksAreToRows == Spec => []NoDanglingLink
<1>1. RefInv => NoDanglingLink
  BY DEF RefInv
<1>2. QED
  BY <1>1, InitRef, NextRef, PTL DEF Spec

----------------------------------------------------------------------------
(* Membership history. *)

\* Rows stay, of their pair, and stay ended.
Stays ==
    \A x \in Rows :
        /\ row'[x] # None
        /\ row'[x].team = row[x].team /\ row'[x].member = row[x].member
        /\ row'[x].saw = row[x].saw
        /\ row[x].left # None => row'[x].left # None

\* What an end does to the row x that r has found.
LEMMA EndMemberEnds ==
    ASSUME RefInv, NEW r \in Request, EndMember(r)
    PROVE  \E x \in Rows :
              /\ x = request[r].row
              /\ \A y \in Rows \ {x} : row'[y] = row[y]
              /\ row'[x] # None
              /\ row'[x].team = row[x].team /\ row'[x].member = row[x].member
              /\ row'[x].saw = row[x].saw
              /\ row'[x].left = r /\ row'[x].rivals = Finders(r, x)
<1>1. PICK x \in Rows : /\ x = request[r].row
                        /\ row[x] \in Membership
                        /\ row' = [row EXCEPT ![x] = Ended(r, x)]
  BY EndMemberDoes
<1>2. /\ \A y \in Rows \ {x} : row'[y] = row[y]
      /\ row'[x] = Ended(r, x)
  BY <1>1 DEF RefInv, TypeOK, Rows
<1>3. QED
  BY <1>1, <1>2, EndedRow

\* An addition leaves the rows alone and makes one.
LEMMA AddMemberAdds ==
    ASSUME RefInv, NEW r \in Request, NEW x \in Row, AddMember(r, x)
    PROVE  /\ Rows' = Rows \cup {x} /\ x \notin Rows
           /\ \A y \in Rows : row'[y] = row[y]
           /\ row'[x].team = request[r].team /\ row'[x].member = request[r].member
           /\ row'[x].left = None /\ row'[x].saw = request[r].saw
<1>1. row[x] = None /\ Rows' = Rows \cup {x}
  BY AddMemberRef DEF AddMember
<1>2. \A y \in Row : y # x => row'[y] = row[y]
  BY DEF RefInv, TypeOK, AddMember
<1>3. row'[x] = [team |-> request[r].team, member |-> request[r].member, left |-> None,
                 saw |-> request[r].saw, rivals |-> {}]
  BY DEF RefInv, TypeOK, AddMember
<1>4. /\ row'[x].team = request[r].team /\ row'[x].member = request[r].member
      /\ row'[x].left = None /\ row'[x].saw = request[r].saw
  BY <1>3
<1>5. QED
  BY <1>1, <1>2, <1>4 DEF Rows

\* Only these two write rows.
LEMMA RowWriters ==
    ASSUME RefInv, [Next]_vars
    PROVE  \/ UNCHANGED row
           \/ \E r \in Request, x \in Row : AddMember(r, x)
           \/ \E r \in Request : EndMember(r)
BY NextCases, ReadsMove, CheckVacantMoves
   DEF vars, CreateTeam, AssignLead, DeleteTeam, UpdateMember, DeleteMember

LEMMA NextStays ==
    ASSUME RefInv, [Next]_vars
    PROVE  Stays
<1>1. CASE UNCHANGED row
  BY <1>1 DEF Stays, Rows
<1>2. ASSUME NEW r \in Request, NEW y \in Row, AddMember(r, y)
      PROVE  Stays
  BY <1>2, AddMemberAdds DEF Stays, Rows
<1>3. ASSUME NEW r \in Request, EndMember(r)
      PROVE  Stays
  <2>1. PICK y \in Rows :
          /\ \A x \in Rows \ {y} : row'[x] = row[x]
          /\ row'[y] # None
          /\ row'[y].team = row[y].team /\ row'[y].member = row[y].member
          /\ row'[y].saw = row[y].saw
          /\ row'[y].left = r
    BY <1>3, EndMemberEnds
  <2>2. r # None
    OBVIOUS
  <2>3. QED
    BY <2>1, <2>2 DEF Stays, Rows
<1>4. QED
  BY <1>1, <1>2, <1>3, RowWriters

\* A removal that is about to end a row which has ended is one of those that had
\* found it too.
RivalsAreKnown ==
    \A s \in Request : At(s, "end") =>
        \/ row[request[s].row].left = None
        \/ s \in row[request[s].row].rivals

HistoryInv == RefInv /\ RivalsAreKnown

\* A request comes to end a row only by finding it active.
LEMMA Finds ==
    ASSUME RefInv, [Next]_vars, NEW s \in Request, At(s, "end")'
    PROVE  \/ At(s, "end") /\ request'[s] = request[s]
           \/ UNCHANGED row /\ row[request'[s].row].left = None
<1>1. CASE UNCHANGED vars
  BY <1>1 DEF vars, At
<1>2. ASSUME NEW r \in Request, r # s, \A u \in Request \ {r} : request'[u] = request[u]
      PROVE  At(s, "end") /\ request'[s] = request[s]
  BY <1>2 DEF At
<1>3. ASSUME NEW r \in Request, request'[r] = Idle, \A u \in Request \ {r} : request'[u] = request[u]
      PROVE  At(s, "end") /\ request'[s] = request[s]
  BY <1>3, IdleIsPending DEF At
<1>4. ASSUME FindActive(s)
      PROVE  UNCHANGED row /\ row[request'[s].row].left = None
  <2>1. PICK x \in Row : row[x].left = None /\ Become(s, [pc |-> "end", row |-> x])
    BY <1>4 DEF FindActive, ActiveRows, RowsOf, Rows
  <2>2. request'[s].row = x
    BY <2>1 DEF RefInv, TypeOK, Become
  <2>3. QED
    BY <1>4, <2>1, <2>2 DEF FindActive
<1>5. ASSUME Reads(s), ~FindActive(s)
      PROVE  FALSE
  <2>1. ASSUME NEW q, Become(s, q), q.pc # "end"
        PROVE  FALSE
    BY <2>1 DEF RefInv, TypeOK, Become, At
  <2>2. CASE CheckLinks(s)
    <3>1. request[s] \in [pc : {"links"}, member : Member, division : Division \cup {None},
                         isActive : BOOLEAN \cup {None}]
      BY <2>2, Shapes DEF RefInv, CheckLinks
    <3>2. [request[s] EXCEPT !.pc = "update"].pc = "update"
      BY <3>1
    <3>3. QED
      BY <2>1, <2>2, <3>2 DEF CheckLinks
  <2>3. ASSUME NEW m \in Member, NEW d \in Division \cup {None}, NEW b \in BOOLEAN \cup {None},
               CheckUpdate(s, m, d, b)
        PROVE  FALSE
    <3>1. PICK pc \in {"update", "links"} :
            Become(s, [pc |-> pc, member |-> m, division |-> d, isActive |-> b])
      BY <2>3 DEF CheckUpdate
    <3>2. QED
      BY <2>1, <3>1
  <2>4. \/ \E d \in Division, m \in Member \cup {None} : CheckNewTeam(s, d, m)
        \/ \E t \in Team, m \in Member : CheckLead(s, t, m)
        \/ \E t \in Team : CheckDisband(s, t)
        \/ \E t \in Team, m \in Member, pc \in {"eligible", "remove"} : CheckMember(s, t, m, pc)
        \/ \E m \in Member : CheckDrop(s, m)
        \/ Fail(s)
    BY <1>5, <2>2, <2>3 DEF Reads
  <2>5. QED
    BY <2>1, <2>4, IdleIsPending
       DEF CheckNewTeam, CheckLead, CheckDisband, CheckMember, CheckDrop, Fail
<1>6. CASE Next
  <2>1. PICK r \in Request :
          \/ Reads(r) \/ CheckVacant(r)
          \/ \E t \in Team : CreateTeam(r, t)
          \/ AssignLead(r) \/ DeleteTeam(r)
          \/ \E x \in Row : AddMember(r, x)
          \/ EndMember(r) \/ UpdateMember(r) \/ DeleteMember(r)
    BY <1>6, NextCases
  <2>2. CASE Reads(r)
    <3>1. \A u \in Request \ {r} : request'[u] = request[u]
      BY <2>2, ReadsMove DEF Moves
    <3>2. QED
      BY <1>2, <1>4, <1>5, <2>2, <3>1
  <2>3. CASE CheckVacant(r)
    <3>1. request'[r].pc = "add" /\ \A u \in Request \ {r} : request'[u] = request[u]
      BY <2>3, CheckVacantMoves DEF Moves
    <3>2. r # s
      BY <3>1 DEF At
    <3>3. QED
      BY <1>2, <3>1, <3>2
  <2>4. CASE ~(Reads(r) \/ CheckVacant(r))
    <3>1. request'[r] = Idle /\ \A u \in Request \ {r} : request'[u] = request[u]
      BY <2>1, <2>4, Becomes, IdleIsPending
         DEF RefInv, CreateTeam, AssignLead, DeleteTeam, AddMember, EndMember, UpdateMember,
             DeleteMember
    <3>2. QED
      BY <1>3, <3>1
  <2>5. QED
    BY <2>2, <2>3, <2>4
<1>7. QED
  BY <1>1, <1>6

LEMMA NextRivals ==
    ASSUME HistoryInv, [Next]_vars
    PROVE  RivalsAreKnown'
<1> SUFFICES ASSUME NEW s \in Request, At(s, "end")'
             PROVE  \/ row'[request'[s].row].left = None
                    \/ s \in row'[request'[s].row].rivals
  BY DEF RivalsAreKnown
<1>1. CASE UNCHANGED row /\ row[request'[s].row].left = None
  BY <1>1
<1>2. CASE At(s, "end") /\ request'[s] = request[s]
  <2>1. PICK x \in Rows : x = request[s].row /\ x = request'[s].row
    BY <1>2 DEF HistoryInv, RefInv, FoundIsThere
  <2>2. row[x].left = None \/ s \in row[x].rivals
    BY <1>2, <2>1 DEF HistoryInv, RivalsAreKnown
  <2>3. CASE row'[x] = row[x]
    BY <2>1, <2>2, <2>3
  <2>4. ASSUME NEW r \in Request, EndMember(r), x = request[r].row,
               row'[x].rivals = Finders(r, x)
        PROVE  s \in row'[x].rivals
    <3>1. request'[r].pc = "idle"
      BY <2>4, Becomes, IdleIsPending DEF HistoryInv, RefInv, EndMember
    <3>2. s # r
      BY <3>1 DEF At
    <3>3. QED
      BY <1>2, <2>1, <2>4, <3>2 DEF Finders
  <2>5. QED
    BY <2>1, <2>3, <2>4, RowWriters, AddMemberAdds, EndMemberEnds DEF HistoryInv
<1>3. QED
  BY <1>1, <1>2, Finds DEF HistoryInv

\* What HistoryKept says of a step.
Keeps ==
    \A x \in Rows :
        /\ row'[x] # None
        /\ row'[x].team = row[x].team /\ row'[x].member = row[x].member
        /\ row[x].left # None => row'[x].left \in {row[x].left} \cup row[x].rivals

LEMMA NextKeeps ==
    ASSUME HistoryInv, [Next]_vars
    PROVE  Keeps
<1> SUFFICES ASSUME NEW x \in Rows, row[x].left # None
             PROVE  row'[x].left \in {row[x].left} \cup row[x].rivals
  BY NextStays DEF HistoryInv, Stays, Keeps
<1>1. ASSUME NEW r \in Request, EndMember(r)
      PROVE  row'[x].left \in {row[x].left} \cup row[x].rivals
  <2>1. PICK y \in Rows :
          y = request[r].row /\ row'[y].left = r /\ \A z \in Rows \ {y} : row'[z] = row[z]
    BY <1>1, EndMemberEnds DEF HistoryInv
  <2>2. CASE x = y
    <3>1. r \in row[x].rivals
      BY <1>1, <2>1, <2>2 DEF HistoryInv, RivalsAreKnown, EndMember
    <3>2. QED
      BY <2>1, <2>2, <3>1
  <2>3. QED
    BY <2>1, <2>2
<1>2. QED
  BY <1>1, RowWriters, AddMemberAdds DEF HistoryInv

\* TeamMembershipService only adds rows of team_members and sets left_at: no handler
\* deletes a row, gives it to another pair or reopens it, and left_at is written again
\* only by a removal that had found the row active before it was ended.
THEOREM HistoryIsKept == Spec => HistoryKept
<1>1. Init => HistoryInv
  BY InitRef DEF HistoryInv, RivalsAreKnown, Init, At, Idle
<1>2. HistoryInv /\ [Next]_vars => HistoryInv'
  BY NextRef, NextRivals DEF HistoryInv
<1>3. HistoryInv /\ [Next]_vars => [Keeps]_vars
  BY NextKeeps
<1>4. QED
  BY <1>1, <1>2, <1>3, PTL DEF Spec, HistoryKept, Keeps

----------------------------------------------------------------------------
(* Duplicates.  What an addition saw of its pair had ended, and stays so:  *)
(* whatever is active was not seen.                                        *)

Ends(S) == S \subseteq Rows /\ \A y \in S : row[y].left # None

SawEnded ==
    /\ \A x \in Rows : Ends(row[x].saw)
    /\ \A r \in Request : At(r, "add") => Ends(request[r].saw)

DuplicateInv == RefInv /\ SawEnded

LEMMA NextEnds ==
    ASSUME RefInv, [Next]_vars, NEW S, Ends(S)
    PROVE  Ends(S)'
<1>1. Rows \subseteq Rows'
  BY NextStays DEF Stays, RefInv, TypeOK, Rows
<1>2. QED
  BY <1>1, NextStays DEF Stays, Ends

\* The rows that were seen are those of the check.
LEMMA Sees ==
    ASSUME DuplicateInv, [Next]_vars, NEW s \in Request, At(s, "add")'
    PROVE  Ends(request'[s].saw)
<1>1. CASE UNCHANGED vars
  BY <1>1 DEF vars, At, DuplicateInv, SawEnded
<1>2. ASSUME NEW r \in Request, r # s, \A u \in Request \ {r} : request'[u] = request[u]
      PROVE  Ends(request'[s].saw)
  BY <1>2 DEF At, DuplicateInv, SawEnded
<1>3. ASSUME CheckVacant(s)
      PROVE  Ends(request'[s].saw)
  <2>1. PICK t, m : request'[s].saw = RowsOf(t, m) /\ ActiveRows(t, m) = {}
    BY <1>3, CheckVacantMoves DEF DuplicateInv
  <2>2. Ends(RowsOf(t, m))
    BY <2>1 DEF Ends, ActiveRows, RowsOf
  <2>3. QED
    BY <2>1, <2>2
<1>4. CASE Next
  <2>1. PICK r \in Request :
          \/ Reads(r) \/ CheckVacant(r)
          \/ \E t \in Team : CreateTeam(r, t)
          \/ AssignLead(r) \/ DeleteTeam(r)
          \/ \E x \in Row : AddMember(r, x)
          \/ EndMember(r) \/ UpdateMember(r) \/ DeleteMember(r)
    BY <1>4, NextCases
  <2>2. \A u \in Request \ {r} : request'[u] = request[u]
    BY <2>1, Busy DEF DuplicateInv
  <2>3. CASE Reads(r)
    <3>1. r # s
      BY <2>3, ReadsMove DEF DuplicateInv, At
    <3>2. QED
      BY <1>2, <2>2, <3>1
  <2>4. CASE CheckVacant(r)
    BY <1>2, <1>3, <2>2, <2>4
  <2>5. CASE ~(Reads(r) \/ CheckVacant(r))
    <3>1. request'[r].pc = "idle"
      BY <2>1, <2>5, Becomes, IdleIsPending
         DEF DuplicateInv, RefInv, CreateTeam, AssignLead, DeleteTeam, AddMember, EndMember,
             UpdateMember, DeleteMember
    <3>2. r # s
      BY <3>1 DEF At
    <3>3. QED
      BY <1>2, <2>2, <3>2
  <2>6. QED
    BY <2>3, <2>4, <2>5
<1>5. QED
  BY <1>1, <1>4

LEMMA NextSaw ==
    ASSUME DuplicateInv, [Next]_vars
    PROVE  SawEnded'
<1>1. ASSUME NEW s \in Request, At(s, "add")'
      PROVE  Ends(request[s].saw)'
  <2>1. PICK S : S = request'[s].saw
    OBVIOUS
  <2>2. Ends(S)
    BY <1>1, <2>1, Sees
  <2>3. Ends(S)'
    BY <2>2, NextEnds DEF DuplicateInv
  <2>4. QED
    BY <2>1, <2>3 DEF Ends
<1>2. ASSUME NEW x \in Rows'
      PROVE  Ends(row[x].saw)'
  <2>1. CASE x \in Rows
    <3>1. PICK S : S = row[x].saw /\ S = row'[x].saw
      BY <2>1, NextStays DEF DuplicateInv, Stays
    <3>2. Ends(S)'
      BY <2>1, <3>1, NextEnds DEF DuplicateInv, SawEnded
    <3>3. QED
      BY <3>1, <3>2 DEF Ends
  <2>2. CASE x \notin Rows
    <3>1. PICK r \in Request, y \in Row : AddMember(r, y)
      <4>1. Rows' = Rows => FALSE
        BY <1>2, <2>2
      <4>2. QED
        BY <4>1, RowWriters, EndMemberDoes DEF DuplicateInv, Rows
    <3>2. PICK S : S = request[r].saw /\ S = row'[x].saw
      BY <1>2, <2>2, <3>1, AddMemberAdds DEF DuplicateInv
    <3>3. Ends(S)
      BY <3>1, <3>2 DEF DuplicateInv, SawEnded, AddMember
    <3>4. Ends(S)'
      BY <3>3, NextEnds DEF DuplicateInv
    <3>5. QED
      BY <3>2, <3>4 DEF Ends
  <2>3. QED
    BY <2>1, <2>2
<1>3. QED
  BY <1>1, <1>2 DEF SawEnded

\* TeamMembershipService.addMember looks for an active membership in one transaction and
\* inserts in the next: still, two memberships of a pair are active only if each addition
\* had looked before the other inserted.
THEOREM FewDuplicates == Spec => []DuplicatesNeedOverlap
<1>1. Init => DuplicateInv
  BY InitRef DEF DuplicateInv, SawEnded, Init, At, Idle, Rows
<1>2. DuplicateInv /\ [Next]_vars => DuplicateInv'
  BY NextRef, NextSaw DEF DuplicateInv
<1>3. DuplicateInv => DuplicatesNeedOverlap
  BY DEF DuplicateInv, SawEnded, Ends, DuplicatesNeedOverlap, ActiveRows, RowsOf
<1>4. QED
  BY <1>1, <1>2, <1>3, PTL DEF Spec

----------------------------------------------------------------------------
(* Requests taken one at a time: what a request has checked is still so    *)
(* when it writes.                                                         *)

\* What r has checked is still so.
Checked(r) ==
    /\ At(r, "create") /\ request[r].member # None =>
          home[request[r].member] = request[r].division
    /\ request[r].pc \in {"lead", "eligible", "add"} =>
          home[request[r].member] = division[request[r].team]
    /\ At(r, "update") =>
          \/ request[r].division \in {None, home[request[r].member]}
          \/ ~HasCrossDivisionTeamLinks(request[r].member, request[r].division)

OneAtATime == \A r, s \in Request : ~At(r, "idle") /\ ~At(s, "idle") => r = s

Alone == OneAtATime /\ LinksFollowDivision /\ \A r \in Request : Checked(r)

AloneInv == width = 1 => Alone

LEMMA AtMostOne ==
    ASSUME NEW S, IsFiniteSet(S), Cardinality(S) <= 1, NEW x \in S, NEW y \in S
    PROVE  x = y
<1>1. /\ IsFiniteSet(S \ {x}) /\ Cardinality(S) \in Nat
      /\ Cardinality(S \ {x}) = Cardinality(S) - 1 /\ Cardinality(S \ {x}) \in Nat
  BY FS_RemoveElement, FS_CardinalityType
<1>2. S \ {x} = {}
  BY <1>1, FS_EmptySet
<1>3. QED
  BY <1>2

\* The guard of MCNext.
LEMMA WidthOne ==
    ASSUME MCNext, width = 1
    PROVE  OneAtATime'
<1>1. PICK S : S = {r \in Request : ~At(r, "idle")}'
  OBVIOUS
<1>2. IsFiniteSet(S) /\ Cardinality(S) <= 1
  BY <1>1, RequestAssumption, FS_Subset DEF MCNext
<1>3. \A r, s \in S : r = s
  BY <1>2, AtMostOne
<1>4. QED
  BY <1>1, <1>3 DEF OneAtATime

LEMMA ReadsCheck ==
    ASSUME RefInv, NEW r \in Request, Checked(r), Reads(r) \/ CheckVacant(r)
    PROVE  Checked(r)'
<1>1. UNCHANGED <<home, active, division, lead, row>>
  BY ReadsMove, CheckVacantMoves DEF members, teams
<1>2. ASSUME NEW m, NEW d
      PROVE  HasCrossDivisionTeamLinks(m, d)' = HasCrossDivisionTeamLinks(m, d)
  BY <1>1 DEF HasCrossDivisionTeamLinks, ActiveRows, RowsOf, Rows
<1>3. ASSUME NEW d \in Division, NEW m \in Member \cup {None}, CheckNewTeam(r, d, m)
      PROVE  Checked(r)'
  BY <1>1, <1>3 DEF RefInv, TypeOK, CheckNewTeam, Eligible, Checked, Become, At
<1>4. ASSUME NEW t \in Team, NEW m \in Member,
             CheckLead(r, t, m) \/ \E pc \in {"eligible", "remove"} : CheckMember(r, t, m, pc)
      PROVE  Checked(r)'
  BY <1>1, <1>4 DEF RefInv, TypeOK, CheckLead, CheckMember, Eligible, Checked, Become, At
<1>5. ASSUME CheckVacant(r)
      PROVE  Checked(r)'
  <2>1. /\ request'[r].team = request[r].team /\ request'[r].member = request[r].member
        /\ request'[r].pc = "add" /\ At(r, "eligible")
    BY <1>5, CheckVacantMoves
  <2>2. QED
    BY <1>1, <2>1 DEF Checked, At
<1>6. ASSUME NEW m \in Member, NEW d \in Division \cup {None}, NEW b \in BOOLEAN \cup {None},
             CheckUpdate(r, m, d, b)
      PROVE  Checked(r)'
  <2>1. PICK pc : /\ pc = IF d \in {None, home[m]} THEN "update" ELSE "links"
                  /\ request'[r] = [pc |-> pc, member |-> m, division |-> d, isActive |-> b]
    BY <1>6 DEF RefInv, TypeOK, CheckUpdate, Become
  <2>2. /\ request'[r].pc = pc /\ pc \in {"update", "links"}
        /\ request'[r].member = m /\ request'[r].division = d
    BY <2>1
  <2>3. pc = "update" => d \in {None, home[m]}
    BY <2>1
  <2>4. QED
    BY <1>1, <2>2, <2>3 DEF Checked, At
<1>7. ASSUME CheckLinks(r)
      PROVE  Checked(r)'
  <2>1. request[r] \in [pc : {"links"}, member : Member, division : Division \cup {None},
                       isActive : BOOLEAN \cup {None}]
    BY <1>7, Shapes DEF RefInv, CheckLinks
  <2>2. request'[r] = [request[r] EXCEPT !.pc = "update"]
    BY <1>7 DEF RefInv, TypeOK, CheckLinks, Become
  <2>3. /\ request'[r].pc = "update"
        /\ request'[r].member = request[r].member /\ request'[r].division = request[r].division
    BY <2>1, <2>2
  <2>4. PICK m, d : m = request[r].member /\ d = request[r].division
    OBVIOUS
  <2>5. ~HasCrossDivisionTeamLinks(m, d)'
    BY <1>2, <1>7, <2>4 DEF CheckLinks
  <2>6. QED
    BY <2>3, <2>4, <2>5 DEF Checked, At
<1>8. ASSUME \/ \E t \in Team : CheckDisband(r, t)
             \/ FindActive(r)
             \/ \E m \in Member : CheckDrop(r, m)
             \/ Fail(r)
      PROVE  Checked(r)'
  <2>1. request'[r].pc \in {"disband", "end", "drop", "idle"}
    BY <1>8 DEF RefInv, TypeOK, CheckDisband, FindActive, CheckDrop, Fail, Become, Idle
  <2>2. QED
    BY <2>1 DEF Checked, At
<1>9. QED
  BY <1>3, <1>4, <1>5, <1>6, <1>7, <1>8 DEF Reads

\* Each write keeps the links of the rows that it touches, by what was checked for it.
LEMMA WritesFollow ==
    ASSUME RefInv, LinksFollowDivision, NEW r \in Request, Checked(r),
           \/ \E t \in Team : CreateTeam(r, t)
           \/ AssignLead(r) \/ DeleteTeam(r)
           \/ \E x \in Row : AddMember(r, x)
           \/ EndMember(r) \/ UpdateMember(r) \/ DeleteMember(r)
    PROVE  LinksFollowDivision'
<1>1. ASSUME NEW t \in Team, CreateTeam(r, t)
      PROVE  LinksFollowDivision'
  <2>1. /\ UNCHANGED <<home, row>> /\ division[t] = None
        /\ division' = [division EXCEPT ![t] = request[r].division]
        /\ lead' = [lead EXCEPT ![t] = request[r].member]
        /\ request[r].member # None => home[request[r].member] = request[r].division
    BY <1>1 DEF CreateTeam, members, Checked
  <2>2. \A x \in Rows : row[x].team # t
    BY <2>1 DEF RefInv, NoDanglingLink
  <2>3. QED
    BY <2>1, <2>2 DEF RefInv, TypeOK, LinksFollowDivision, Rows
<1>2. ASSUME AssignLead(r)
      PROVE  LinksFollowDivision'
  BY <1>2, Shapes
     DEF RefInv, TypeOK, LinksFollowDivision, Rows, AssignLead, members, Checked, At
<1>3. ASSUME DeleteTeam(r)
      PROVE  LinksFollowDivision'
  BY <1>3, Shapes
     DEF RefInv, TypeOK, LinksFollowDivision, Rows, DeleteTeam, HasAnyMembership, members
<1>4. ASSUME NEW x \in Row, AddMember(r, x)
      PROVE  LinksFollowDivision'
  <2>1. /\ Rows' = Rows \cup {x} /\ row[x] = None
        /\ UNCHANGED <<home, division, lead>>
        /\ home[request[r].member] = division[request[r].team]
    BY <1>4, AddMemberRef DEF AddMember, members, teams, Checked, At
  <2>2. \A y \in Rows : row'[y] = row[y]
    BY <1>4, AddMemberAdds
  <2>3. row'[x].team = request[r].team /\ row'[x].member = request[r].member
    BY <1>4, AddMemberAdds
  <2>4. QED
    BY <2>1, <2>2, <2>3 DEF LinksFollowDivision
<1>5. ASSUME EndMember(r)
      PROVE  LinksFollowDivision'
  <2>1. Stays /\ Rows' = Rows
    BY <1>5, NextStays, EndMemberDoes DEF Next
  <2>2. UNCHANGED <<home, division, lead>>
    BY <1>5 DEF EndMember, members, teams
  <2>3. QED
    BY <2>1, <2>2 DEF LinksFollowDivision, Stays
<1>6. ASSUME UpdateMember(r)
      PROVE  LinksFollowDivision'
  <2>1. PICK m, d : m = request[r].member /\ d = request[r].division
    OBVIOUS
  <2>2. m \in Member /\ d \in Division \cup {None}
    BY <1>6, <2>1, Shapes DEF RefInv, UpdateMember
  <2>3. /\ home' = [home EXCEPT ![m] = Supplied(d, home[m])]
        /\ UNCHANGED <<division, lead, row>>
    BY <1>6, <2>1, <2>2 DEF RefInv, TypeOK, UpdateMember, teams
  <2>4. CASE d \in {None, home[m]}
    BY <2>2, <2>3, <2>4 DEF RefInv, TypeOK, LinksFollowDivision, Rows, Supplied
  <2>5. CASE d \notin {None, home[m]}
    <3>1. \A t \in Team : division[t] = d \/ (lead[t] # m /\ ActiveRows(t, m) = {})
      <4>1. At(r, "update") /\ ~HasCrossDivisionTeamLinks(m, d)
        BY <1>6, <2>1, <2>5 DEF UpdateMember, Checked
      <4>2. QED
        BY <4>1 DEF HasCrossDivisionTeamLinks
    <3>2. home'[m] = d /\ \A k \in Member : k # m => home'[k] = home[k]
      BY <2>2, <2>3, <2>5 DEF RefInv, TypeOK, Supplied
    <3>3. \A t \in Team : lead[t] # None => home'[lead[t]] = division[t]
      BY <3>1, <3>2 DEF RefInv, TypeOK, LinksFollowDivision
    <3>4. ASSUME NEW x \in Rows, row[x].left = None
          PROVE  home'[row[x].member] = division[row[x].team]
      <4>1. row[x].member \in Member /\ row[x].team \in Team
        BY DEF RefInv, TypeOK, Rows, Membership
      <4>2. row[x].member = m => division[row[x].team] = d
        BY <3>1, <3>4, <4>1 DEF ActiveRows, RowsOf
      <4>3. QED
        BY <3>2, <3>4, <4>1, <4>2 DEF LinksFollowDivision
    <3>5. QED
      BY <2>3, <3>3, <3>4 DEF LinksFollowDivision, Rows
  <2>6. QED
    BY <2>4, <2>5
<1>7. ASSUME DeleteMember(r)
      PROVE  LinksFollowDivision'
  <2>1. PICK m : m = request[r].member
    OBVIOUS
  <2>2. /\ \A k \in Member : k # m => home'[k] = home[k]
        /\ \A t \in Team : lead'[t] # None => lead'[t] = lead[t] /\ lead[t] # m /\ lead[t] \in Member
        /\ \A x \in Rows : row[x].member # m /\ row[x].member \in Member
        /\ UNCHANGED <<division, row>>
    BY <1>7, <2>1 DEF RefInv, TypeOK, DeleteMember, HasRows, Rows, Membership
  <2>3. QED
    BY <2>2 DEF LinksFollowDivision, Rows
<1>8. QED
  BY <1>1, <1>2, <1>3, <1>4, <1>5, <1>6, <1>7

LEMMA InitAlone == MCInit => RefInv /\ AloneInv
<1>1. Init => RefInv /\ Alone
  BY InitRef DEF Init, Alone, OneAtATime, LinksFollowDivision, Checked, At, Idle, Rows
<1>2. QED
  BY <1>1 DEF MCInit, AloneInv

LEMMA NextAlone ==
    ASSUME RefInv, AloneInv, MCNext, width' = 1
    PROVE  Alone'
<1>1. /\ Next /\ width = 1
      /\ OneAtATime /\ LinksFollowDivision /\ \A r \in Request : Checked(r)
  BY DEF MCNext, AloneInv, Alone
<1>2. OneAtATime'
  BY <1>1, WidthOne
<1>3. PICK r \in Request :
        \/ Reads(r) \/ CheckVacant(r)
        \/ \E t \in Team : CreateTeam(r, t)
        \/ AssignLead(r) \/ DeleteTeam(r)
        \/ \E x \in Row : AddMember(r, x)
        \/ EndMember(r) \/ UpdateMember(r) \/ DeleteMember(r)
  BY <1>1, NextCases
<1>4. /\ \A s \in Request \ {r} : request'[s] = request[s]
      /\ ~At(r, "idle") \/ ~At(r, "idle")'
  BY <1>3, Busy
<1>5. \A s \in Request \ {r} : At(s, "idle")'
  BY <1>1, <1>2, <1>4 DEF OneAtATime, At
<1>6. \A s \in Request \ {r} : Checked(s)'
  BY <1>5 DEF Checked, At
<1>7. CASE Reads(r) \/ CheckVacant(r)
  <2>1. UNCHANGED <<home, active, division, lead, row>>
    BY <1>7, ReadsMove, CheckVacantMoves DEF members, teams
  <2>2. LinksFollowDivision'
    BY <1>1, <2>1 DEF LinksFollowDivision, Rows
  <2>3. QED
    BY <1>1, <1>2, <1>6, <1>7, <2>2, ReadsCheck DEF Alone
<1>8. CASE ~(Reads(r) \/ CheckVacant(r))
  <2>1. LinksFollowDivision'
    BY <1>1, <1>3, <1>8, WritesFollow
  <2>2. request'[r] = Idle
    BY <1>3, <1>8, Becomes, IdleIsPending
       DEF RefInv, CreateTeam, AssignLead, DeleteTeam, AddMember, EndMember, UpdateMember,
           DeleteMember
  <2>3. Checked(r)'
    BY <2>2, IdleIsPending DEF Checked, At
  <2>4. QED
    BY <1>2, <1>6, <2>1, <2>3 DEF Alone
<1>9. QED
  BY <1>7, <1>8

\* What TeamService, TeamMembershipService and MemberService check before they write is
\* enough when requests are taken one at a time: a member leads and belongs only to teams
\* of its own division, for any number of them.
THEOREM LinksFollowAlone == MCSpec => []LinksFollowDivisionAlone
<1>1. RefInv /\ AloneInv /\ [MCNext]_<<vars, width>> => (RefInv /\ AloneInv)'
  <2> SUFFICES ASSUME RefInv, AloneInv, [MCNext]_<<vars, width>>
               PROVE  RefInv' /\ AloneInv'
    OBVIOUS
  <2>1. RefInv'
    BY NextRef DEF MCNext
  <2>2. CASE MCNext
    BY <2>1, <2>2, NextAlone DEF AloneInv
  <2>3. CASE UNCHANGED <<vars, width>>
    <3>1. UNCHANGED <<home, active, division, lead, row, request, width>>
      BY <2>3 DEF vars
    <3>2. \A r \in Request : Checked(r)' <=> Checked(r)
      BY <3>1 DEF Checked, At, HasCrossDivisionTeamLinks, ActiveRows, RowsOf, Rows
    <3>3. (OneAtATime' <=> OneAtATime) /\ (LinksFollowDivision' <=> LinksFollowDivision)
      BY <3>1 DEF OneAtATime, LinksFollowDivision, Rows, At
    <3>4. QED
      BY <2>1, <3>1, <3>2, <3>3 DEF AloneInv, Alone
  <2>4. QED
    BY <2>1, <2>2, <2>3
<1>2. AloneInv => LinksFollowDivisionAlone
  BY DEF AloneInv, Alone, LinksFollowDivisionAlone
<1>3. QED
  BY <1>1, <1>2, InitAlone, PTL DEF MCSpec

=============================================================================
