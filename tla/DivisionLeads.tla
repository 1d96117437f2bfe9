--------------------------- MODULE DivisionLeads ---------------------------
(***************************************************************************)
(* Leads of divisions, kept as rows that are revoked and never deleted.    *)
(*                                                                         *)
(* An assignment is one SERIALIZABLE transaction: it reads the snapshot of *)
(* its start, and fails if a row it revokes was written since or the       *)
(* unique indexes find another active row.  A revocation is one READ       *)
(* COMMITTED transaction of two statements, a find and an update by id.    *)
(* The deletion of a division checks in one transaction and deletes in     *)
(* another.  The division_lead role and the actor profile that assign also *)
(* writes are in ActorAccess; names and types of divisions are left out.   *)
(***************************************************************************)
EXTENDS FiniteSets

CONSTANTS
    Division, Member, User,
    Row,          \* ids of division_leads rows; bounds how many are created
    Request,      \* HTTP requests that run at the same time
    Linked,       \* the members that are linked to a user
    None          \* SQL null, or a row that does not exist

ASSUME LinkedAssumption == Linked \subseteq Member

VARIABLES
    division,   \* division[d]: "absent", "open" or "deleted"; an id is used once
    active,     \* the members with is_active
    row,        \* the rows of division_leads
    request     \* request[r]: what r has read

vars == <<division, active, row, request>>

Tenure == [division : Division, member : Member, revokedBy : User \cup {None}]

ASSUME NoneAssumption == None \notin User \cup Row \cup Tenure

Idle == [pc |-> "idle"]

Init ==
    /\ division \in [Division -> {"absent", "open"}]
    /\ active = Member
    /\ row = [x \in Row |-> None]
    /\ request = [r \in Request |-> Idle]

At(r, pc) == request[r].pc = pc

Become(r, state) == request' = [request EXCEPT ![r] = state]

\* The divisions that exist.
open == {d \in Division : division[d] = "open"}

Rows == {x \in Row : row[x] # None}
RowsOf(d) == {x \in Rows : row[x].division = d}
ActiveRows(d) == {x \in RowsOf(d) : row[x].revokedBy = None}

Fail(r) ==
    /\ ~At(r, "idle")
    /\ Become(r, Idle)
    /\ UNCHANGED <<division, active, row>>

----------------------------------------------------------------------------
(* DivisionLeadRepository.assign *)

\* The reads, all of the snapshot of the start: a member that leads the
\* division already is done.  The member's own division is not compared.
BeginAssign(r, d, m, by) ==
    /\ At(r, "idle")
    /\ d \in open
    /\ m \in active \cap Linked
    /\ \A x \in ActiveRows(d) : row[x].member # m
    /\ \E x \in IF ActiveRows(d) = {} THEN {None} ELSE ActiveRows(d) :
          Become(r, [pc |-> "assign", division |-> d, member |-> m, by |-> by,
                     incumbent |-> x])
    /\ UNCHANGED <<division, active, row>>

\* Broken form of Unique: an index that covers the pair alone, not the division.
Unique_PairOnly(q) ==
    \A x \in ActiveRows(q.division) \ {q.incumbent} : row[x].member # q.member

\* division_leads_one_active_per_division, checked when the row is inserted.
Unique(q) == ActiveRows(q.division) \subseteq {q.incumbent}

\* First updater wins: the incumbent is still as the snapshot had it.
Unwritten(x) == x # None => row[x].revokedBy = None

\* Broken form of Revoked: the row is deleted.
Revoked_Deletes(x, by) == [row EXCEPT ![x] = None]

Revoked(x, by) == [row EXCEPT ![x] = [@ EXCEPT !.revokedBy = by]]

CommitAssign(r, y) ==
    LET q == request[r] IN
    /\ At(r, "assign")
    /\ q.division \in open
    /\ row[y] = None
    /\ Unwritten(q.incumbent)
    /\ Unique(q)
    /\ row' = [(IF q.incumbent = None THEN row ELSE Revoked(q.incumbent, q.by))
                 EXCEPT ![y] = [division |-> q.division, member |-> q.member,
                                revokedBy |-> None]]
    /\ Become(r, Idle)
    /\ UNCHANGED <<division, active>>

----------------------------------------------------------------------------
(* DivisionLeadRepository.revoke *)

FindLead(r, d, by) ==
    /\ At(r, "idle")
    /\ d \in open
    /\ \E x \in ActiveRows(d) : Become(r, [pc |-> "revoke", row |-> x, by |-> by])
    /\ UNCHANGED <<division, active, row>>

\* The update names the id alone: a row revoked meanwhile is written again.
CommitRevoke(r) ==
    /\ At(r, "revoke")
    /\ row' = Revoked(request[r].row, request[r].by)
    /\ Become(r, Idle)
    /\ UNCHANGED <<division, active>>

----------------------------------------------------------------------------
(* DivisionService.create and delete, MemberService.update *)

\* A new division has a new id and no lead.
CreateDivision(d) ==
    /\ division[d] = "absent"
    /\ division' = [division EXCEPT ![d] = "open"]
    /\ UNCHANGED <<active, row, request>>

\* Lead rows, revoked ones included, block the deletion of their division.
HasDependents(d) == RowsOf(d) # {}

CheckClose(r, d) ==
    /\ At(r, "idle")
    /\ d \in open
    /\ ~HasDependents(d)
    /\ Become(r, [pc |-> "close", division |-> d])
    /\ UNCHANGED <<division, active, row>>

\* division_leads references divisions ON DELETE RESTRICT.
DeleteDivision(r) ==
    LET d == request[r].division IN
    /\ At(r, "close")
    /\ d \in open
    /\ ~HasDependents(d)
    /\ division' = [division EXCEPT ![d] = "deleted"]
    /\ Become(r, Idle)
    /\ UNCHANGED <<active, row>>

\* A member may be deactivated while it leads a division.
SetActive(m) ==
    /\ active' \in {active \cup {m}, active \ {m}}
    /\ UNCHANGED <<division, row, request>>

----------------------------------------------------------------------------

Next ==
    \/ \E r \in Request :
         \/ \E d \in Division, m \in Member, by \in User : BeginAssign(r, d, m, by)
         \/ \E y \in Row : CommitAssign(r, y)
         \/ \E d \in Division, by \in User : FindLead(r, d, by)
         \/ CommitRevoke(r)
         \/ \E d \in Division : CheckClose(r, d)
         \/ DeleteDivision(r)
         \/ Fail(r)
    \/ \E d \in Division : CreateDivision(d)
    \/ \E m \in Member : SetActive(m)

Spec == Init /\ [][Next]_vars

----------------------------------------------------------------------------
(* Properties *)

LeadsOf == [d \in Division |-> {row[x].member : x \in ActiveRows(d)}]

Register == INSTANCE LeadRegister WITH leads <- LeadsOf, open <- open

\* Assignments, revocations and deletions that race implement a register of at
\* most one lead per division, replaced in one step.
RegisterSpec == Register!Spec

\* A lead's tenure is never deleted, one that has ended stays ended (being
\* appointed anew makes a new row), and none belongs to a division that is gone,
\* although a division may get its first lead while it is checked for deletion.
TenureKept ==
    [][\A x \in Rows :
          /\ row'[x] # None
          /\ row'[x].division = row[x].division /\ row'[x].division \in open'
          /\ row'[x].member = row[x].member
          /\ row[x].revokedBy # None => row'[x].revokedBy # None]_vars
=============================================================================
