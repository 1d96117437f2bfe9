------------------------- MODULE DivisionLeadProofs -------------------------
(***************************************************************************)
(* Proofs about DivisionLeads for every set of divisions, members, rows    *)
(* and requests: assignments, revocations and deletions that race          *)
(* implement LeadRegister, and tenures are kept.                           *)
(***************************************************************************)
EXTENDS DivisionLeads, TLAPS

USE NoneAssumption, LinkedAssumption

----------------------------------------------------------------------------
(* The inductive invariant. *)

Pending ==
    {Idle}
    \cup [pc : {"assign"}, division : Division, member : Member, by : User,
          incumbent : Row \cup {None}]
    \cup [pc : {"revoke"}, row : Row, by : User]
    \cup [pc : {"close"}, division : Division]

TypeOK ==
    /\ division \in [Division -> {"absent", "open", "deleted"}]
    /\ active \subseteq Member
    /\ row \in [Row -> Tenure \cup {None}]
    /\ request \in [Request -> Pending]

\* What the unique index over active rows leaves.
OneActive == \A d \in Division : \A x, y \in ActiveRows(d) : x = y

\* ON DELETE RESTRICT: a row has its division.
RowsInOpen == \A x \in Rows : row[x].division \in open

\* Rows are never deleted, so the row that a request has found is still there, of
\* the division it was found for.
FoundIsThere ==
    \A r \in Request :
        /\ At(r, "assign") /\ request[r].incumbent # None =>
              request[r].incumbent \in RowsOf(request[r].division)
        /\ At(r, "revoke") => request[r].row \in Rows

LeadInv == TypeOK /\ OneActive /\ RowsInOpen /\ FoundIsThere

\* A request is what its pc says.
LEMMA Shapes ==
    ASSUME TypeOK, NEW r \in Request
    PROVE  /\ At(r, "assign") =>
                 request[r] \in [pc : {"assign"}, division : Division, member : Member,
                                by : User, incumbent : Row \cup {None}]
           /\ At(r, "revoke") => request[r] \in [pc : {"revoke"}, row : Row, by : User]
           /\ At(r, "close") => request[r] \in [pc : {"close"}, division : Division]
BY DEF TypeOK, Pending, Idle, At

\* Only a request that has found something relies on anything.
LEMMA BecomeKeeps ==
    ASSUME LeadInv, UNCHANGED row, NEW r \in Request, NEW q \in Pending, Become(r, q),
           /\ q.pc = "assign" /\ q.incumbent # None => q.incumbent \in RowsOf(q.division)
           /\ q.pc = "revoke" => q.row \in Rows
    PROVE  request' \in [Request -> Pending] /\ FoundIsThere'
<1>1. request' \in [Request -> Pending]
  BY DEF LeadInv, TypeOK, Become
<1>2. FoundIsThere'
  BY DEF LeadInv, TypeOK, Become, FoundIsThere, At, Rows, RowsOf
<1>3. QED
  BY <1>1, <1>2

LEMMA InitInv == Init => LeadInv
BY DEF Init, LeadInv, TypeOK, OneActive, RowsInOpen, FoundIsThere, Pending, Idle, At,
       Rows, RowsOf, ActiveRows

----------------------------------------------------------------------------
(* Requests that read. *)

LEMMA ReadersKeep ==
    ASSUME LeadInv, UNCHANGED <<division, active, row>>, request' \in [Request -> Pending],
           FoundIsThere'
    PROVE  LeadInv'
BY DEF LeadInv, TypeOK, OneActive, RowsInOpen, Rows, RowsOf, ActiveRows, open

LEMMA BeginAssignInv ==
    ASSUME LeadInv, NEW r \in Request, NEW d \in Division, NEW m \in Member, NEW by \in User,
           BeginAssign(r, d, m, by)
    PROVE  LeadInv'
<1>1. PICK x \in IF ActiveRows(d) = {} THEN {None} ELSE ActiveRows(d) :
        Become(r, [pc |-> "assign", division |-> d, member |-> m, by |-> by,
                   incumbent |-> x])
  BY DEF BeginAssign
<1>2. x # None => x \in RowsOf(d) /\ x \in Row
  BY <1>1 DEF ActiveRows, RowsOf, Rows
<1>3. [pc |-> "assign", division |-> d, member |-> m, by |-> by, incumbent |-> x]
        \in Pending
  BY <1>2 DEF Pending
<1>4. UNCHANGED <<division, active, row>>
  BY DEF BeginAssign
<1>5. QED
  BY <1>1, <1>2, <1>3, <1>4, BecomeKeeps, ReadersKeep

LEMMA FindLeadInv ==
    ASSUME LeadInv, NEW r \in Request, NEW d \in Division, NEW by \in User,
           FindLead(r, d, by)
    PROVE  LeadInv'
<1>1. PICK x \in ActiveRows(d) : Become(r, [pc |-> "revoke", row |-> x, by |-> by])
  BY DEF FindLead
<1>2. x \in Rows /\ x \in Row
  BY DEF ActiveRows, RowsOf, Rows
<1>3. [pc |-> "revoke", row |-> x, by |-> by] \in Pending
  BY <1>2 DEF Pending
<1>4. UNCHANGED <<division, active, row>>
  BY DEF FindLead
<1>5. QED
  BY <1>1, <1>2, <1>3, <1>4, BecomeKeeps, ReadersKeep

LEMMA CheckCloseInv ==
    ASSUME LeadInv, NEW r \in Request, NEW d \in Division, CheckClose(r, d)
    PROVE  LeadInv'
<1>1. [pc |-> "close", division |-> d] \in Pending
  BY DEF Pending
<1>2. QED
  BY <1>1, BecomeKeeps, ReadersKeep DEF CheckClose

LEMMA IdleKeeps ==
    ASSUME LeadInv, NEW r \in Request, Become(r, Idle), UNCHANGED row
    PROVE  request' \in [Request -> Pending] /\ FoundIsThere'
BY BecomeKeeps DEF Pending, Idle

LEMMA FailInv ==
    ASSUME LeadInv, NEW r \in Request, Fail(r)
    PROVE  LeadInv'
BY IdleKeeps, ReadersKeep DEF Fail

----------------------------------------------------------------------------
(* Requests that write. *)

\* The table with the lead that q replaces revoked.
Vacated(q) == IF q.incumbent = None THEN row ELSE Revoked(q.incumbent, q.by)

\* The new lead is the only active row of its division, the incumbent is revoked and
\* no other row is touched.
LEMMA CommitAssignDoes ==
    ASSUME LeadInv, NEW r \in Request, NEW y \in Row, CommitAssign(r, y)
    PROVE  /\ request[r].division \in open /\ request[r].member \in Member
           /\ y \notin Rows
           /\ row' \in [Row -> Tenure \cup {None}]
           /\ row'[y] = [division |-> request[r].division, member |-> request[r].member,
                         revokedBy |-> None]
           /\ \A x \in Rows :
                 /\ row'[x] # None
                 /\ row'[x].division = row[x].division /\ row'[x].member = row[x].member
                 /\ row'[x].revokedBy = None <=>
                       row[x].revokedBy = None /\ row[x].division # request[r].division
           /\ \A x \in Row \ (Rows \cup {y}) : row'[x] = None
<1> DEFINE q == request[r]
           new == [division |-> q.division, member |-> q.member, revokedBy |-> None]
<1>1. q \in [pc : {"assign"}, division : Division, member : Member,
            by : User, incumbent : Row \cup {None}]
  BY Shapes DEF LeadInv, CommitAssign
<1>2. /\ q.division \in open /\ row[y] = None /\ Unwritten(q.incumbent) /\ Unique(q)
      /\ row' = [Vacated(q) EXCEPT ![y] = new]
  BY DEF CommitAssign, Vacated
<1>3. row \in [Row -> Tenure \cup {None}]
  BY DEF LeadInv, TypeOK
<1>4. q.incumbent # None => q.incumbent \in RowsOf(q.division)
  BY DEF LeadInv, FoundIsThere, CommitAssign
<1>5. \A x \in ActiveRows(q.division) : x = q.incumbent
  BY <1>2 DEF Unique
<1> HIDE DEF q
<1>6. /\ Vacated(q) \in [Row -> Tenure \cup {None}]
      /\ \A x \in Row : x # q.incumbent => Vacated(q)[x] = row[x]
      /\ q.incumbent # None =>
            /\ Vacated(q)[q.incumbent] # None
            /\ Vacated(q)[q.incumbent].division = q.division
            /\ Vacated(q)[q.incumbent].member = row[q.incumbent].member
            /\ Vacated(q)[q.incumbent].revokedBy = q.by
  BY <1>1, <1>3, <1>4 DEF Vacated, Revoked, RowsOf, Rows, Tenure
<1>7. new \in Tenure /\ q.by # None
  BY <1>1 DEF Tenure
<1> HIDE DEF new
<1>8. row' \in [Row -> Tenure \cup {None}] /\ row'[y] = new
      /\ \A x \in Row : x # y => row'[x] = Vacated(q)[x]
  BY <1>2, <1>6, <1>7
<1>9. y \notin Rows
  BY <1>2 DEF Rows
<1>10. ASSUME NEW x \in Rows
       PROVE  /\ row'[x] # None
              /\ row'[x].division = row[x].division /\ row'[x].member = row[x].member
              /\ row'[x].revokedBy = None <=>
                    row[x].revokedBy = None /\ row[x].division # q.division
  <2>1. x # y /\ x \in Row /\ row[x] # None
    BY <1>9 DEF Rows
  <2>2. row'[x] = Vacated(q)[x]
    BY <1>8, <2>1
  <2>3. CASE x = q.incumbent
    BY <2>1, <2>2, <2>3, <1>4, <1>6, <1>7 DEF RowsOf
  <2>4. CASE x # q.incumbent
    <3>1. row'[x] = row[x]
      BY <2>1, <2>2, <2>4, <1>6
    <3>2. ~(row[x].revokedBy = None /\ row[x].division = q.division)
      BY <2>4, <1>5 DEF ActiveRows, RowsOf
    <3>3. QED
      BY <2>1, <3>1, <3>2
  <2>5. QED
    BY <2>3, <2>4
<1>11. \A x \in Row \ (Rows \cup {y}) : row'[x] = None
  BY <1>4, <1>6, <1>8 DEF RowsOf, Rows
<1>12. QED
  BY <1>1, <1>2, <1>8, <1>9, <1>10, <1>11 DEF q, new

LEMMA CommitAssignInv ==
    ASSUME LeadInv, NEW r \in Request, NEW y \in Row, CommitAssign(r, y)
    PROVE  LeadInv'
<1> DEFINE d == request[r].division
           m == request[r].member
           new == [division |-> d, member |-> m, revokedBy |-> None]
<1>1. UNCHANGED <<division, active>> /\ Become(r, Idle)
  BY DEF CommitAssign
<1>2. request' \in [Request -> Pending] /\ \A s \in Request : s # r => request'[s] = request[s]
  BY <1>1 DEF LeadInv, TypeOK, Become, Pending
<1>3. /\ d \in open /\ m \in Member
      /\ y \notin Rows
      /\ row' \in [Row -> Tenure \cup {None}]
      /\ row'[y] = new
  BY CommitAssignDoes
<1>4. \A x \in Rows :
         /\ row'[x] # None
         /\ row'[x].division = row[x].division /\ row'[x].member = row[x].member
         /\ row'[x].revokedBy = None <=>
               row[x].revokedBy = None /\ row[x].division # d
  BY CommitAssignDoes
<1>5. \A x \in Row \ (Rows \cup {y}) : row'[x] = None
  BY CommitAssignDoes
<1>6. TypeOK'
  BY <1>1, <1>2, <1>3 DEF LeadInv, TypeOK
<1>7. new \in Tenure /\ new.division = d
  BY <1>3 DEF Tenure, open
<1> HIDE DEF new, d, m
<1>8. Rows' = Rows \cup {y}
  BY <1>3, <1>4, <1>5, <1>7 DEF Rows
<1>9. \A x \in Rows' : row'[x].revokedBy = None /\ row'[x].division = d => x = y
  BY <1>4, <1>8
<1>10. row'[y].division = d
  BY <1>3, <1>7
<1>11. OneActive'
  <2> SUFFICES ASSUME NEW c \in Division, NEW x \in ActiveRows(c)', NEW z \in ActiveRows(c)'
               PROVE  x = z
    BY DEF OneActive
  <2>1. /\ x \in Rows' /\ row'[x].division = c /\ row'[x].revokedBy = None
        /\ z \in Rows' /\ row'[z].division = c /\ row'[z].revokedBy = None
    BY DEF ActiveRows, RowsOf
  <2>2. CASE c = d
    BY <2>1, <2>2, <1>9
  <2>3. CASE c # d
    <3>1. x \in ActiveRows(c) /\ z \in ActiveRows(c)
      BY <2>1, <2>3, <1>4, <1>8, <1>10 DEF ActiveRows, RowsOf
    <3>2. QED
      BY <3>1 DEF LeadInv, OneActive
  <2>4. QED
    BY <2>2, <2>3
<1>12. RowsInOpen'
  BY <1>1, <1>3, <1>4, <1>8, <1>10 DEF LeadInv, RowsInOpen, open
<1>13. FoundIsThere'
  <2> SUFFICES ASSUME NEW s \in Request
               PROVE  /\ At(s, "assign")' /\ request'[s].incumbent # None =>
                            request'[s].incumbent \in RowsOf(request[s].division)'
                      /\ At(s, "revoke")' => request'[s].row \in Rows'
    BY DEF FoundIsThere
  <2>1. CASE s = r
    BY <2>1, <1>1 DEF LeadInv, TypeOK, Become, Idle, At
  <2>2. CASE s # r
    <3>1. request'[s] = request[s]
      BY <2>2, <1>2
    <3>2. /\ At(s, "assign") /\ request[s].incumbent # None =>
                request[s].incumbent \in RowsOf(request[s].division)
          /\ At(s, "revoke") => request[s].row \in Rows
      BY DEF LeadInv, FoundIsThere
    <3>3. \A c, x : x \in RowsOf(c) => x \in RowsOf(c)'
      BY <1>4, <1>8 DEF RowsOf
    <3>4. QED
      BY <3>1, <3>2, <3>3, <1>8 DEF At
  <2>3. QED
    BY <2>1, <2>2
<1>14. QED
  BY <1>6, <1>11, <1>12, <1>13 DEF LeadInv

LEMMA CommitRevokeDoes ==
    ASSUME LeadInv, NEW r \in Request, CommitRevoke(r)
    PROVE  /\ request[r].row \in Rows
           /\ row' \in [Row -> Tenure \cup {None}]
           /\ Rows' = Rows
           /\ row'[request[r].row].division = row[request[r].row].division
           /\ row'[request[r].row].member = row[request[r].row].member
           /\ row'[request[r].row].revokedBy # None
           /\ \A x \in Row \ {request[r].row} : row'[x] = row[x]
<1> DEFINE q == request[r]
<1>1. q \in [pc : {"revoke"}, row : Row, by : User] /\ q.row \in Rows
  BY Shapes DEF LeadInv, CommitRevoke, FoundIsThere
<1>2. row' = Revoked(q.row, q.by) /\ row \in [Row -> Tenure \cup {None}]
  BY DEF CommitRevoke, LeadInv, TypeOK
<1> HIDE DEF q
<1>3. row[q.row] \in Tenure
  BY <1>1, <1>2 DEF Rows
<1>4. /\ row' \in [Row -> Tenure \cup {None}]
      /\ row'[q.row] \in Tenure
      /\ row'[q.row].division = row[q.row].division
      /\ row'[q.row].member = row[q.row].member
      /\ row'[q.row].revokedBy # None
      /\ \A x \in Row \ {q.row} : row'[x] = row[x]
  BY <1>1, <1>2, <1>3 DEF Revoked, Tenure
<1>5. Rows' = Rows
  BY <1>1, <1>4 DEF Rows
<1>6. QED
  BY <1>1, <1>4, <1>5 DEF q

LEMMA CommitRevokeInv ==
    ASSUME LeadInv, NEW r \in Request, CommitRevoke(r)
    PROVE  LeadInv'
<1>1. UNCHANGED <<division, active>> /\ Become(r, Idle)
  BY DEF CommitRevoke
<1>2. request' \in [Request -> Pending] /\ \A s \in Request : s # r => request'[s] = request[s]
  BY <1>1 DEF LeadInv, TypeOK, Become, Pending
<1>3. TypeOK'
  BY <1>1, <1>2, CommitRevokeDoes DEF LeadInv, TypeOK
<1>4. OneActive'
  BY CommitRevokeDoes DEF LeadInv, OneActive, ActiveRows, RowsOf, Rows
<1>5. RowsInOpen'
  BY <1>1, CommitRevokeDoes DEF LeadInv, RowsInOpen, open, Rows
<1>6. FoundIsThere'
  BY <1>1, <1>2, CommitRevokeDoes
     DEF LeadInv, TypeOK, FoundIsThere, Become, Idle, At, RowsOf, Rows
<1>7. QED
  BY <1>3, <1>4, <1>5, <1>6 DEF LeadInv

----------------------------------------------------------------------------
(* Divisions and members. *)

LEMMA CreateDivisionInv ==
    ASSUME LeadInv, NEW d \in Division, CreateDivision(d)
    PROVE  LeadInv' /\ open' = open \cup {d} /\ RowsOf(d) = {}
<1>1. division[d] = "absent" /\ division' = [division EXCEPT ![d] = "open"]
      /\ UNCHANGED <<active, row, request>>
  BY DEF CreateDivision
<1>2. open' = open \cup {d} /\ d \notin open
  BY <1>1 DEF open, LeadInv, TypeOK
<1>3. TypeOK'
  BY <1>1 DEF LeadInv, TypeOK
<1>4. OneActive' /\ FoundIsThere'
  BY <1>1 DEF LeadInv, OneActive, FoundIsThere, ActiveRows, RowsOf, Rows, At
<1>5. RowsInOpen'
  BY <1>1, <1>2 DEF LeadInv, RowsInOpen, Rows
<1>6. RowsOf(d) = {}
  BY <1>2 DEF LeadInv, RowsInOpen, RowsOf
<1>7. QED
  BY <1>2, <1>3, <1>4, <1>5, <1>6 DEF LeadInv

LEMMA DeleteDivisionInv ==
    ASSUME LeadInv, NEW r \in Request, DeleteDivision(r)
    PROVE  LeadInv' /\ \E d \in Division : open' = open \ {d} /\ RowsOf(d) = {}
<1> DEFINE d == request[r].division
<1>1. d \in Division
  BY Shapes DEF LeadInv, DeleteDivision
<1>2. division' = [division EXCEPT ![d] = "deleted"] /\ RowsOf(d) = {}
      /\ UNCHANGED <<active, row>> /\ Become(r, Idle)
  BY DEF DeleteDivision, HasDependents
<1> HIDE DEF d
<1>3. open' = open \ {d}
  BY <1>1, <1>2 DEF open, LeadInv, TypeOK
<1>4. TypeOK' /\ FoundIsThere'
  BY <1>1, <1>2, IdleKeeps DEF LeadInv, TypeOK
<1>5. OneActive'
  BY <1>2 DEF LeadInv, OneActive, ActiveRows, RowsOf, Rows
<1>6. RowsInOpen'
  BY <1>2, <1>3 DEF LeadInv, RowsInOpen, RowsOf, Rows
<1>7. QED
  BY <1>1, <1>2, <1>3, <1>4, <1>5, <1>6 DEF LeadInv

LEMMA SetActiveInv ==
    ASSUME LeadInv, NEW m \in Member, SetActive(m)
    PROVE  LeadInv'
BY DEF LeadInv, TypeOK, OneActive, RowsInOpen, FoundIsThere, SetActive, ActiveRows, RowsOf,
       Rows, At, open

LEMMA StutterInv ==
    ASSUME LeadInv, UNCHANGED vars
    PROVE  LeadInv'
BY DEF LeadInv, TypeOK, OneActive, RowsInOpen, FoundIsThere, vars, ActiveRows, RowsOf,
       Rows, At, open

LEMMA NextInv ==
    ASSUME LeadInv, [Next]_vars
    PROVE  LeadInv'
BY BeginAssignInv, CommitAssignInv, FindLeadInv, CommitRevokeInv, CheckCloseInv,
   DeleteDivisionInv, FailInv, CreateDivisionInv, SetActiveInv, StutterInv DEF Next

----------------------------------------------------------------------------
(* Refinement.  The lead of a division is the member of its active row:    *)
(* an assignment appoints, a revocation that finds the lead still active   *)
(* revokes, and every other step of a request leaves the register alone.   *)

\* A step that keeps the active rows and their members keeps the register.
LEMMA SameLeads ==
    ASSUME \A d \in Division : ActiveRows(d)' = ActiveRows(d),
           \A d \in Division : \A x \in ActiveRows(d) : row'[x].member = row[x].member
    PROVE  LeadsOf' = LeadsOf
BY DEF LeadsOf

LEMMA InitRegister == Init => Register!Init
BY DEF Init, Register!Init, LeadsOf, ActiveRows, RowsOf, Rows, open

LEMMA CommitAssignAppoints ==
    ASSUME LeadInv, NEW r \in Request, NEW y \in Row, CommitAssign(r, y)
    PROVE  Register!Appoint(request[r].division, request[r].member)
<1>1. PICK d, m : d = request[r].division /\ m = request[r].member
  OBVIOUS
<1>2. /\ d \in open /\ y \notin Rows /\ y \in Row
      /\ row'[y] = [division |-> d, member |-> m, revokedBy |-> None]
  BY <1>1, CommitAssignDoes
<1>3. \A x \in Rows :
         /\ row'[x] # None
         /\ row'[x].division = row[x].division /\ row'[x].member = row[x].member
         /\ row'[x].revokedBy = None <=>
               row[x].revokedBy = None /\ row[x].division # d
  BY <1>1, CommitAssignDoes
<1>4. \A x \in Row \ (Rows \cup {y}) : row'[x] = None
  BY <1>1, CommitAssignDoes
<1>5. row' \in [Row -> Tenure \cup {None}] /\ m \in Member
  BY <1>1, CommitAssignDoes
<1>6. UNCHANGED open
  BY DEF CommitAssign, open
<1>7. row'[y] # None /\ row'[y].division = d /\ row'[y].member = m /\ row'[y].revokedBy = None
  BY <1>2, <1>5 DEF Tenure, open
<1>8. Rows' = Rows \cup {y}
  BY <1>2, <1>3, <1>4, <1>7 DEF Rows
<1>9. ActiveRows(d)' = {y}
  BY <1>3, <1>7, <1>8 DEF ActiveRows, RowsOf
<1>10. ASSUME NEW c \in Division, c # d
      PROVE  /\ ActiveRows(c)' = ActiveRows(c)
             /\ \A x \in ActiveRows(c) : row'[x].member = row[x].member
  BY <1>3, <1>7, <1>8, <1>10 DEF ActiveRows, RowsOf
<1>11. {row'[x].member : x \in ActiveRows(d)'} = {m}
  BY <1>7, <1>9
<1>12. LeadsOf' = [LeadsOf EXCEPT ![d] = {m}]
  <2>1. \A c \in Division : c # d => LeadsOf'[c] = LeadsOf[c]
    BY <1>10 DEF LeadsOf
  <2>2. d \in Division => LeadsOf'[d] = {m}
    BY <1>11 DEF LeadsOf
  <2>3. /\ LeadsOf' = [c \in Division |-> LeadsOf'[c]]
        /\ LeadsOf = [c \in Division |-> LeadsOf[c]]
    BY DEF LeadsOf
  <2>4. QED
    BY <2>1, <2>2, <2>3
<1>13. QED
  BY <1>1, <1>2, <1>6, <1>12 DEF Register!Appoint

LEMMA CommitRevokeRevokes ==
    ASSUME LeadInv, NEW r \in Request, CommitRevoke(r)
    PROVE  \/ UNCHANGED <<LeadsOf, open>>
           \/ \E d \in Division : Register!Revoke(d)
<1>1. PICK x, d : x = request[r].row /\ d = row[x].division
  OBVIOUS
<1>2. /\ x \in Rows /\ Rows' = Rows
      /\ row'[x].division = row[x].division /\ row'[x].member = row[x].member
      /\ row'[x].revokedBy # None
      /\ \A z \in Row \ {x} : row'[z] = row[z]
  BY <1>1, CommitRevokeDoes
<1>3. UNCHANGED open
  BY DEF CommitRevoke, open
<1>4. d \in Division /\ \A z \in Rows : z \in Row
  BY <1>1, <1>2 DEF LeadInv, TypeOK, Rows, Tenure
<1>5. CASE row[x].revokedBy # None
  <2>1. \A c \in Division : ActiveRows(c)' = ActiveRows(c)
    BY <1>2, <1>4, <1>5 DEF ActiveRows, RowsOf
  <2>2. \A c \in Division : \A z \in ActiveRows(c) : row'[z].member = row[z].member
    BY <1>2, <1>4 DEF ActiveRows, RowsOf
  <2>3. QED
    BY <2>1, <2>2, <1>3, SameLeads
<1>6. CASE row[x].revokedBy = None
  <2>1. x \in ActiveRows(d)
    BY <1>1, <1>2, <1>6 DEF ActiveRows, RowsOf
  <2>2. \A z \in ActiveRows(d) : z = x
    BY <2>1, <1>4 DEF LeadInv, OneActive
  <2>3. ActiveRows(d)' = {}
    BY <2>1, <2>2, <1>2, <1>4 DEF ActiveRows, RowsOf
  <2>4. ASSUME NEW c \in Division, c # d
        PROVE  /\ ActiveRows(c)' = ActiveRows(c)
               /\ \A z \in ActiveRows(c) : row'[z].member = row[z].member
    BY <2>1, <2>4, <1>2, <1>4 DEF ActiveRows, RowsOf
  <2>5. LeadsOf' = [LeadsOf EXCEPT ![d] = {}]
    BY <2>3, <2>4 DEF LeadsOf
  <2>6. QED
    BY <2>5, <1>3, <1>4 DEF Register!Revoke
<1>7. QED
  BY <1>5, <1>6

LEMMA NoRowsNoLead ==
    ASSUME NEW d \in Division, RowsOf(d) = {}
    PROVE  LeadsOf[d] = {}
BY DEF LeadsOf, ActiveRows

LEMMA CreateDivisionOpens ==
    ASSUME LeadInv, NEW d \in Division, CreateDivision(d)
    PROVE  Register!Open(d)
<1>1. UNCHANGED LeadsOf
  BY SameLeads DEF CreateDivision, ActiveRows, RowsOf, Rows
<1>2. QED
  BY <1>1, CreateDivisionInv, NoRowsNoLead DEF Register!Open

LEMMA DeleteDivisionCloses ==
    ASSUME LeadInv, NEW r \in Request, DeleteDivision(r)
    PROVE  \E d \in Division : Register!Close(d)
<1>1. UNCHANGED LeadsOf
  BY SameLeads DEF DeleteDivision, ActiveRows, RowsOf, Rows
<1>2. QED
  BY <1>1, DeleteDivisionInv, NoRowsNoLead DEF Register!Close

LEMMA UnchangedRegister ==
    ASSUME UNCHANGED <<division, row>>
    PROVE  UNCHANGED <<LeadsOf, open>>
BY DEF LeadsOf, ActiveRows, RowsOf, Rows, open

LEMMA NextRegister ==
    ASSUME LeadInv, [Next]_vars
    PROVE  [Register!Next]_<<LeadsOf, open>>
<1>1. ASSUME NEW r \in Request,
             \/ \E d \in Division, m \in Member, by \in User : BeginAssign(r, d, m, by)
             \/ \E d \in Division, by \in User : FindLead(r, d, by)
             \/ \E d \in Division : CheckClose(r, d)
             \/ Fail(r)
      PROVE  UNCHANGED <<LeadsOf, open>>
  BY <1>1, UnchangedRegister DEF BeginAssign, FindLead, CheckClose, Fail
<1>2. ASSUME NEW r \in Request, NEW y \in Row, CommitAssign(r, y)
      PROVE  Register!Next
  <2>1. request[r].division \in Division /\ request[r].member \in Member
    BY <1>2, CommitAssignDoes DEF open
  <2>2. QED
    BY <1>2, <2>1, CommitAssignAppoints DEF Register!Next
<1>3. ASSUME NEW r \in Request, CommitRevoke(r)
      PROVE  [Register!Next]_<<LeadsOf, open>>
  BY <1>3, CommitRevokeRevokes DEF Register!Next
<1>4. ASSUME NEW r \in Request, DeleteDivision(r)
      PROVE  Register!Next
  BY <1>4, DeleteDivisionCloses DEF Register!Next
<1>5. ASSUME NEW d \in Division, CreateDivision(d)
      PROVE  Register!Next
  BY <1>5, CreateDivisionOpens DEF Register!Next
<1>6. ASSUME NEW m \in Member, SetActive(m)
      PROVE  UNCHANGED <<LeadsOf, open>>
  BY <1>6, UnchangedRegister DEF SetActive
<1>7. ASSUME UNCHANGED vars
      PROVE  UNCHANGED <<LeadsOf, open>>
  BY <1>7, UnchangedRegister DEF vars
<1>8. QED
  BY <1>1, <1>2, <1>3, <1>4, <1>5, <1>6, <1>7 DEF Next

\* DivisionLeadRepository.assign and revoke, DivisionService.create and delete, however
\* they race, implement a register of at most one lead per division that appointing
\* replaces in one step, and a division opens and closes without one.
THEOREM LeadsAreARegister == Spec => RegisterSpec
<1>1. Spec => []LeadInv
  BY InitInv, NextInv, PTL DEF Spec
<1>2. QED
  BY <1>1, InitRegister, NextRegister, PTL DEF Spec, RegisterSpec, Register!Spec

----------------------------------------------------------------------------
(* Tenures. *)

\* What TenureKept says of a step.
Keeps ==
    \A x \in Rows :
        /\ row'[x] # None
        /\ row'[x].division = row[x].division /\ row'[x].division \in open'
        /\ row'[x].member = row[x].member
        /\ row[x].revokedBy # None => row'[x].revokedBy # None

LEMMA NextKeeps ==
    ASSUME LeadInv, [Next]_vars
    PROVE  Keeps
<1>1. LeadInv'
  BY NextInv
<1>2. ASSUME UNCHANGED row
      PROVE  Keeps
  BY <1>1, <1>2 DEF LeadInv, RowsInOpen, Keeps, Rows
<1>3. ASSUME NEW r \in Request, NEW y \in Row, CommitAssign(r, y)
      PROVE  Keeps
  <2>1. \A x \in Rows :
           /\ row'[x] # None
           /\ row'[x].division = row[x].division /\ row'[x].member = row[x].member
           /\ row[x].revokedBy # None => row'[x].revokedBy # None
    BY <1>3, CommitAssignDoes
  <2>2. QED
    BY <2>1, <1>1 DEF LeadInv, RowsInOpen, Keeps, Rows
<1>4. ASSUME NEW r \in Request, CommitRevoke(r)
      PROVE  Keeps
  <2>1. \A x \in Rows :
           /\ row'[x] # None
           /\ row'[x].division = row[x].division /\ row'[x].member = row[x].member
           /\ row[x].revokedBy # None => row'[x].revokedBy # None
    BY <1>4, CommitRevokeDoes DEF Rows
  <2>2. QED
    BY <2>1, <1>1 DEF LeadInv, RowsInOpen, Keeps, Rows
<1>5. QED
  BY <1>2, <1>3, <1>4
     DEF Next, vars, BeginAssign, FindLead, CheckClose, DeleteDivision, Fail,
         CreateDivision, SetActive

\* Nothing in DivisionLeadRepository or DivisionService deletes a row of division_leads,
\* moves it to another division or member, reopens it, or leaves it without a division.
THEOREM TenuresAreKept == Spec => TenureKept
<1>1. Spec => []LeadInv
  BY InitInv, NextInv, PTL DEF Spec
<1>2. LeadInv /\ [Next]_vars => [Keeps]_vars
  BY NextKeeps
<1>3. QED
  BY <1>1, <1>2, PTL DEF Spec, TenureKept, Keeps

=============================================================================
