---------------------------- MODULE ActorAccess ----------------------------
(***************************************************************************)
(* Who may act as what: users, members, role grants and actor profiles.    *)
(*                                                                         *)
(* A profile is usable while its role is granted to its user; one profile  *)
(* of a user is the default; a profile may speak for the member that is    *)
(* linked to the same user.  Four services write these rows.  Assigning a  *)
(* role runs READ COMMITTED under the lock of the user's row, statement by *)
(* statement.  Assigning a lead, linking access and choosing the default   *)
(* are serializable: each works on the snapshot it began with, and its     *)
(* commit fails if another transaction has committed a row that it writes  *)
(* (the database refuses more, which Fail covers).  Deleting a member      *)
(* checks in one transaction and deletes in another.                       *)
(*                                                                         *)
(* The roles of clients are ClientPortal's.  Whether a user, a member or a *)
(* profile is active, and which division a lead leads, are left out.       *)
(***************************************************************************)
EXTENDS Integers, FiniteSets

CONSTANTS
    User, Member,
    Role, LeadRole,     \* the roles, and the one called division_lead
    Profile,            \* ids of actor_profiles rows; bounds how many are created
    Request,            \* HTTP requests that run at the same time
    None,               \* SQL null, or a row that does not exist
    Absent, Deleted     \* members that were not created yet, or are deleted

ASSUME LeadRoleAssumption == LeadRole \in Role

VARIABLES
    user,       \* "absent", "present" or "deleted"
    member,     \* member[m]: members.user_id, or Absent or Deleted
    led,        \* the members with a row in division_leads, of today or of the past
    grant,      \* grant[u][c]: the rows of user_roles: "none", "held" or all "revoked"
    profile,    \* the rows of actor_profiles
    request,    \* request[r]: what r has read and will write
    stale,      \* stale[r]: a row that r will write was written since its snapshot
    overtaken   \* history: what r has checked was undone, see Overtakes

rows == <<user, member, led, grant, profile>>
vars == <<rows, request, stale, overtaken>>

\* "erased" is history: the profile has lost its member with the member's row.
ProfileRow ==
    [user : User, role : Role, member : Member \cup {None}, isDefault : BOOLEAN,
     erased : BOOLEAN]

ASSUME NoneAssumption ==
    /\ None \notin User \cup Member \cup Profile \cup ProfileRow
    /\ Absent \notin User \cup {None}
    /\ Deleted \notin User \cup {None, Absent}

Idle == [pc |-> "idle"]

Pending ==
    {Idle}
    \cup [pc : {"find"}, user : User, role : Role, fresh : BOOLEAN]
    \cup [pc : {"ensure"}, user : User, role : Role, fresh : BOOLEAN, keep : BOOLEAN,
          found : Profile \cup {None}]
    \cup [pc : {"lead"}, user : User, member : Member, fresh : BOOLEAN, keep : BOOLEAN,
          found : Profile \cup {None}, demoted : SUBSET Profile]
    \cup [pc : {"link"}, user : User, member : Member, profile : Profile \cup {None}]
    \cup [pc : {"choose"}, profile : Profile, demoted : SUBSET Profile]
    \cup [pc : {"drop"}, member : Member]

TypeOK ==
    /\ user \in [User -> {"absent", "present", "deleted"}]
    /\ member \in [Member -> User \cup {None, Absent, Deleted}]
    /\ led \subseteq Member
    /\ grant \in [User -> [Role -> {"none", "held", "revoked"}]]
    /\ profile \in [Profile -> ProfileRow \cup {None}]
    /\ request \in [Request -> Pending]
    /\ stale \in [Request -> BOOLEAN]
    /\ overtaken \in [Request -> BOOLEAN]

\* Members of the time before onboarding have no user.
Init ==
    /\ user = [u \in User |-> "absent"]
    /\ member \in [Member -> {None, Absent}]
    /\ led = {}
    /\ grant = [u \in User |-> [c \in Role |-> "none"]]
    /\ profile = [p \in Profile |-> None]
    /\ request = [r \in Request |-> Idle]
    /\ stale = [r \in Request |-> FALSE]
    /\ overtaken = [r \in Request |-> FALSE]

At(r, pc) == request[r].pc = pc

Present(u) == user[u] = "present"
Exists(m) == member[m] \notin {Absent, Deleted}
Held(u, c) == grant[u][c] = "held"
Unused == {p \in Profile : profile[p] = None}
ProfilesOf(u) == {p \in Profile \ Unused : profile[p].user = u}
Defaults(u) == {p \in ProfilesOf(u) : profile[p].isDefault}
LinkedTo(m) == {p \in Profile \ Unused : profile[p].member = m}

\* Broken form of Unlocked: the lock is not taken.
Unlocked_Always(u) == TRUE

\* SELECT ... FOR UPDATE on the row of u does not wait.
Unlocked(u) ==
    \A r \in Request : request[r].pc \in {"find", "ensure"} => request[r].user # u

----------------------------------------------------------------------------
(* Transactions. *)

\* The rows that assign, linkMemberUserActorProfile and setDefault update after
\* they found them.
LeadWrites(x) == {x.member, x.found} \cup x.demoted

\* Broken form of LinkWrites: access is linked at READ COMMITTED.
LinkWrites_Unchecked(x) == {}

LinkWrites(x) == {x.member, x.profile}

ChoiceWrites(x) == {x.profile} \cup x.demoted

\* The transactions are serializable: an update fails if its row was written since
\* the snapshot.
Writes(x) ==
    CASE x.pc = "lead"   -> LeadWrites(x)
      [] x.pc = "link"   -> LinkWrites(x)
      [] x.pc = "choose" -> ChoiceWrites(x)
      [] OTHER           -> {}

\* r begins or goes on: nothing is visible to others.
Begin(r, state) ==
    /\ request' = [request EXCEPT ![r] = state]
    /\ UNCHANGED <<stale, overtaken>>

\* A transaction of request r commits the given rows, and overtakes those in late.
Commit(r, written, late) ==
    /\ request' = [request EXCEPT ![r] = Idle]
    /\ stale' = [q \in Request |->
                   q # r /\ (stale[q] \/ written \cap Writes(request[q]) # {})]
    /\ overtaken' = [q \in Request |-> q # r /\ (overtaken[q] \/ q \in late)]

\* The same for a request that is one step.
CommitAlone(written) ==
    /\ stale' = [q \in Request |-> stale[q] \/ written \cap Writes(request[q]) # {}]
    /\ UNCHANGED <<request, overtaken>>

\* A refusal, a lost constraint check, a serialization failure, a crash: rolled back.
Fail(r) ==
    /\ ~At(r, "idle")
    /\ Commit(r, {}, {})
    /\ UNCHANGED rows

\* Broken form of UniqueDefault: without the index.
UniqueDefault_Off(table) == TRUE

\* The index actor_profiles_one_default_per_user.
UniqueDefault(table) ==
    \A p, q \in {x \in Profile : table[x] # None} :
        table[p].isDefault /\ table[q].isDefault /\ table[p].user = table[q].user => p = q

----------------------------------------------------------------------------
(* ensureUserRoleAndRoleOnlyProfile: the role, a profile for it, a default. *)

\* Broken form of ValidDefault: only a default of the same role counts.
ValidDefault_SameRole(u, c, fresh) == \E p \in Defaults(u) : profile[p].role = c

\* A default whose role is granted, be it by this transaction.
ValidDefault(u, c, fresh) ==
    \E p \in Defaults(u) : \/ Held(u, profile[p].role)
                           \/ fresh /\ profile[p].role = c

\* Broken form of Matching: any profile of the user will do.
Matching_AnyRole(u, c, ms) == {p \in ProfilesOf(u) : profile[p].member \in ms}

\* The profiles that can be used again, bound to one of ms.  The query takes the
\* oldest; the order in which transactions begin is not modelled.
Matching(u, c, ms) ==
    {p \in ProfilesOf(u) : profile[p].role = c /\ profile[p].member \in ms}

Found(ps) == IF ps = {} THEN {None} ELSE ps

\* The row that is updated, or one with a new id.
Target(found) == IF found = None THEN Unused ELSE {found}

\* Profile p of u and c bound to m, and without a valid default the only default.
Ensured(u, c, m, p, keep, demoted) ==
    [q \in Profile |->
        IF q = p
        THEN [user |-> u, role |-> c, member |-> m,
              isDefault |-> ~keep \/ p \in Defaults(u),
              erased |-> p \notin Unused /\ profile[p].erased]
        ELSE IF q \in demoted THEN [profile[q] EXCEPT !.isDefault = FALSE]
        ELSE profile[q]]

Granted(u, c, fresh) == IF fresh THEN [grant EXCEPT ![u][c] = "held"] ELSE grant

(* RolePermissionMutationProvider.assignUserRole, under the lock of the user. *)

LockUser(r, u, c) ==
    /\ At(r, "idle")
    /\ Present(u)
    /\ Unlocked(u)
    /\ Begin(r, [pc |-> "find", user |-> u, role |-> c, fresh |-> ~Held(u, c)])
    /\ UNCHANGED rows

FindProfile(r) ==
    /\ At(r, "find")
    /\ \E p \in Found(Matching(request[r].user, request[r].role, {None})) :
          Begin(r, [pc |-> "ensure", user |-> request[r].user, role |-> request[r].role,
                    fresh |-> request[r].fresh, found |-> p,
                    keep |-> ValidDefault(request[r].user, request[r].role,
                                          request[r].fresh)])
    /\ UNCHANGED rows

\* The lead assignments of u under way: their snapshots miss a grant made now.
Assigning(u) == {q \in Request : At(q, "lead") /\ request[q].user = u}

EnsureProfile(r) ==
    LET u == request[r].user
        c == request[r].role
        found == request[r].found
        demoted == IF request[r].keep THEN {} ELSE Defaults(u)
        m == IF found = None THEN None ELSE profile[found].member
    IN  /\ At(r, "ensure")
        /\ request[r].fresh => ~Held(u, c)
        /\ \E p \in Target(found) :
              /\ profile' = Ensured(u, c, m, p, request[r].keep, demoted)
              /\ UniqueDefault(profile')
              /\ Commit(r, {p} \cup demoted, IF request[r].fresh THEN Assigning(u) ELSE {})
        /\ grant' = Granted(u, c, request[r].fresh)
        /\ UNCHANGED <<user, member, led>>

\* revokeUserRole, as the one step in which its update finds the row active; that
\* an administrator stays is AdminRetention's.
RevokeRole(u, c) ==
    /\ Held(u, c)
    /\ grant' = [grant EXCEPT ![u][c] = "revoked"]
    /\ CommitAlone({})
    /\ UNCHANGED <<user, member, led, profile>>

----------------------------------------------------------------------------
(* DivisionLeadRepository.assign: the lead, its role and its linked profile. *)

BeginLead(r, m) ==
    /\ At(r, "idle")
    /\ member[m] \in User
    /\ LET u == member[m]
           fresh == ~Held(u, LeadRole)
           keep == ValidDefault(u, LeadRole, fresh)
       IN  \E p \in Found(Matching(u, LeadRole, {None, m})) :
              Begin(r, [pc |-> "lead", user |-> u, member |-> m, fresh |-> fresh,
                        keep |-> keep, found |-> p,
                        demoted |-> IF keep THEN {} ELSE Defaults(u)])
    /\ UNCHANGED rows

\* The deletions of m under way: they have seen no profile of m.
Dropping(m) == {q \in Request : At(q, "drop") /\ request[q].member = m}

CommitLead(r) ==
    LET u == request[r].user
        m == request[r].member
    IN  /\ At(r, "lead")
        /\ ~stale[r]
        /\ Present(u)
        /\ Unlocked(u)
        /\ request[r].fresh => ~Held(u, LeadRole)
        /\ \E p \in Target(request[r].found) :
              /\ profile' = Ensured(u, LeadRole, m, p, request[r].keep, request[r].demoted)
              /\ UniqueDefault(profile')
              /\ Commit(r, {m, p} \cup request[r].demoted, Dropping(m))
        /\ member' = [member EXCEPT ![m] = u]
        /\ led' = led \cup {m}
        /\ grant' = Granted(u, LeadRole, request[r].fresh)
        /\ UNCHANGED user

----------------------------------------------------------------------------
(* MemberService and its repositories. *)

\* createWithAccess: user, member, role and profile in one transaction, which
\* nobody else can write to because all its rows are new.
Onboard(u, m, c, p) ==
    /\ user[u] = "absent"
    /\ member[m] = Absent
    /\ p \in Unused
    /\ user' = [user EXCEPT ![u] = "present"]
    /\ member' = [member EXCEPT ![m] = u]
    /\ grant' = Granted(u, c, TRUE)
    /\ profile' = Ensured(u, c, m, p, FALSE, {})
    /\ CommitAlone({})
    /\ UNCHANGED led

\* linkMemberUserActorProfile: what the checks accept in the snapshot.
Linkable(m, u, p) ==
    /\ Present(u)
    /\ member[m] \in {None, u}
    /\ p # None => /\ p \in ProfilesOf(u)
                   /\ profile[p].member \in {None, m}
                   /\ Held(u, profile[p].role)

BeginLink(r, m, u, p) ==
    /\ At(r, "idle")
    /\ Linkable(m, u, p)
    /\ Begin(r, [pc |-> "link", user |-> u, member |-> m, profile |-> p])
    /\ UNCHANGED rows

\* A new user_id waits for the lock of the user's row, to check the foreign key.
CommitLink(r) ==
    LET u == request[r].user
        m == request[r].member
        p == request[r].profile
    IN  /\ At(r, "link")
        /\ ~stale[r]
        /\ member[m] # u => Present(u) /\ Unlocked(u)
        /\ member' = [member EXCEPT ![m] = u]
        /\ profile' = IF p = None THEN profile ELSE [profile EXCEPT ![p].member = m]
        /\ Commit(r, {m, p} \ {None}, IF p = None THEN {} ELSE Dropping(m))
        /\ UNCHANGED <<user, led, grant>>

\* Broken form of Blocked: profiles are not among the blockers.
Blocked_Never(m) == FALSE

\* findDeleteBlockers: the other blockers are teams' and work requests'.
Blocked(m) == LinkedTo(m) # {}

CheckDrop(r, m) ==
    /\ At(r, "idle")
    /\ Exists(m)
    /\ ~Blocked(m)
    /\ Begin(r, [pc |-> "drop", member |-> m])
    /\ UNCHANGED rows

\* Broken form of Restricted: the rows of division_leads go with the member.
Restricted_Never(m) == FALSE

\* division_leads_member_id_tenant_id_fkey ON DELETE RESTRICT.
Restricted(m) == m \in led

\* ON DELETE SET NULL ("member_id").
Nulled(row) ==
    [user |-> row.user, role |-> row.role, member |-> None, isDefault |-> row.isDefault,
     erased |-> TRUE]

DeleteMember(r) ==
    LET m == request[r].member
    IN  /\ At(r, "drop")
        /\ Exists(m)
        /\ ~Restricted(m)
        /\ member' = [member EXCEPT ![m] = Deleted]
        /\ profile' = [p \in Profile |->
                         IF p \in LinkedTo(m) THEN Nulled(profile[p]) ELSE profile[p]]
        /\ Commit(r, {m} \cup LinkedTo(m), {})
        /\ UNCHANGED <<user, led, grant>>

----------------------------------------------------------------------------
(* ActorProfileService.activate and UserService. *)

BeginChoose(r, p) ==
    /\ At(r, "idle")
    /\ p \notin Unused
    /\ Held(profile[p].user, profile[p].role)
    /\ Begin(r, [pc |-> "choose", profile |-> p,
                 demoted |-> Defaults(profile[p].user) \ {p}])
    /\ UNCHANGED rows

\* The role assignments to u under way that have looked for a default.
Ensuring(u) == {q \in Request : At(q, "ensure") /\ request[q].user = u}

SetDefault(r) ==
    LET p == request[r].profile
        u == profile[p].user
    IN  /\ At(r, "choose")
        /\ ~stale[r]
        /\ profile' = [q \in Profile |->
                         IF q = p THEN [profile[q] EXCEPT !.isDefault = TRUE]
                         ELSE IF q \in request[r].demoted
                              THEN [profile[q] EXCEPT !.isDefault = FALSE]
                         ELSE profile[q]]
        /\ UniqueDefault(profile')
        /\ Commit(r, {p} \cup request[r].demoted, Ensuring(u))
        /\ UNCHANGED <<user, member, led, grant>>

CreateUser(u) ==
    /\ user[u] = "absent"
    /\ user' = [user EXCEPT ![u] = "present"]
    /\ CommitAlone({})
    /\ UNCHANGED <<member, led, grant, profile>>

\* user_roles.user_id is ON DELETE RESTRICT, members.user_id ON DELETE SET NULL.
DeleteUser(u) ==
    /\ Present(u)
    /\ Unlocked(u)
    /\ \A c \in Role : grant[u][c] = "none"
    /\ user' = [user EXCEPT ![u] = "deleted"]
    /\ member' = [m \in Member |-> IF member[m] = u THEN None ELSE member[m]]
    /\ CommitAlone({m \in Member : member[m] = u})
    /\ UNCHANGED <<led, grant, profile>>

----------------------------------------------------------------------------
RoleStep ==
    \/ \E r \in Request, u \in User, c \in Role : LockUser(r, u, c)
    \/ \E r \in Request : FindProfile(r) \/ EnsureProfile(r)
    \/ \E u \in User, c \in Role : RevokeRole(u, c)

LeadStep ==
    \/ \E r \in Request, m \in Member : BeginLead(r, m)
    \/ \E r \in Request : CommitLead(r)

MemberStep ==
    \/ \E u \in User, m \in Member, c \in Role, p \in Profile : Onboard(u, m, c, p)
    \/ \E r \in Request, m \in Member, u \in User, p \in Profile \cup {None} :
          BeginLink(r, m, u, p)
    \/ \E r \in Request, m \in Member : CheckDrop(r, m)
    \/ \E r \in Request : CommitLink(r) \/ DeleteMember(r)

UserStep ==
    \/ \E r \in Request, p \in Profile : BeginChoose(r, p)
    \/ \E r \in Request : SetDefault(r)
    \/ \E u \in User : CreateUser(u) \/ DeleteUser(u)

Next == RoleStep \/ LeadStep \/ MemberStep \/ UserStep \/ \E r \in Request : Fail(r)

Spec == Init /\ [][Next]_vars

----------------------------------------------------------------------------
(* Safety. *)

\* A profile that speaks for a member is a profile of the member's user, whatever
\* onboardings, links, lead assignments and deletions race: nobody acts for a
\* member who is linked to someone else.
ProfileFollowsMember ==
    \A p \in Profile \ Unused :
        profile[p].member # None => member[profile[p].member] = profile[p].user

\* Whoever holds a role has a profile to act in it.
GrantHasProfile ==
    \A u \in User, c \in Role :
        Held(u, c) => \E p \in ProfilesOf(u) : profile[p].role = c

\* A user with profiles has exactly one default, although three kinds of
\* transactions at two isolation levels move it.
SoleDefault == \A u \in User : ProfilesOf(u) # {} => Cardinality(Defaults(u)) = 1

\* Assigning a role again and again, alone or against lead assignments and links,
\* makes one role-only profile, as long as no deletion has made another one such.
RoleOnlyOnce ==
    \A u \in User, c \in Role :
        Cardinality({p \in Matching(u, c, {None}) : ~profile[p].erased}) <= 1

\* Every member that leads a division, or once did, has a profile to act as lead
\* in: neither a deletion nor a link takes it away.
LeadHasProfile ==
    \A m \in led : \E p \in LinkedTo(m) :
        profile[p].role = LeadRole /\ profile[p].user = member[m]

Overtakes(pcs) == \E r \in Request : request[r].pc \in pcs /\ overtaken[r] /\ request'[r] = Idle

Chosen == \E r \in Request : At(r, "choose") /\ request'[r] = Idle

\* A default whose role is granted stays the default until its user chooses another,
\* unless an assignment had looked for a default before the user chose this one, or
\* before its role was granted again.
DefaultKept ==
    [][\A u \in User : \A p \in Defaults(u) :
          Held(u, profile[p].role) /\ ~profile'[p].isDefault
              => Chosen \/ Overtakes({"ensure", "lead"})]_vars

\* The deletion of a member takes no profile's member away, unless the profile was
\* linked after the deletion had looked for one.
LinkKept ==
    [][\A p \in Profile \ Unused :
          profile'[p].member # profile[p].member /\ profile[p].member # None
              => Overtakes({"drop"})]_vars

============================================================================
