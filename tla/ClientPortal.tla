---------------------------- MODULE ClientPortal ----------------------------
(***************************************************************************)
(* Clients, their contacts, and the access of contacts to the portal: the  *)
(* link to a user, the client_owner role, the actor profile of the contact *)
(* and the user's default profile.                                         *)
(*                                                                         *)
(* Onboarding, grant, setPrimary and setDefault are SERIALIZABLE: they     *)
(* decide on the snapshot of their start, and fail when a row they write   *)
(* was written since (rows are compared by value) or a unique index        *)
(* objects.  A revocation is READ COMMITTED and shows its writes when it   *)
(* commits.  The other writes are single statements.  No rule here needs   *)
(* PostgreSQL's detection of read-write cycles, which is left out: these   *)
(* transactions may only do less than in the model.  An operation of one   *)
(* statement is one step of an idle request.                               *)
(***************************************************************************)
EXTENDS Integers, FiniteSets, Sequences, SequencesExt

CONSTANTS
    Client, Contact, User,
    ClientOf,     \* ClientOf[c]: the client contact c is created for
    Owner,        \* Owner[c]: the user with the e-mail address c is created with
    Request,      \* HTTP requests that run at the same time
    None          \* SQL null, or a row that does not exist

ASSUME ContactAssumption ==
    /\ ClientOf \in [Contact -> Client]
    /\ Owner \in [Contact -> User]
ASSUME UserAssumption == IsFiniteSet(User)

VARIABLES
    db,        \* the committed rows
    request    \* request[r]: the transaction of r

vars == <<db, request>>

\* email: the user with the address, whether it is linked or exists or not.
ContactRow == [active : BOOLEAN, primary : BOOLEAN, email : User, user : User \cup {None}]

ASSUME NoneAssumption == None \notin User \cup Contact \cup BOOLEAN \cup ContactRow

Profile == [user : User, contact : Contact \cup {None}, active : BOOLEAN,
            default : BOOLEAN]

\* client: is_active, or None; owners: the users with the role client_owner.
Rows == [client : [Client -> BOOLEAN \cup {None}],
         contact : [Contact -> ContactRow \cup {None}],
         users : SUBSET User, owners : SUBSET User, profiles : Seq(Profile)]

Idle == [pc |-> "idle"]

\* Users that exist have a profile of another role, their default.
Init ==
    /\ \E users \in SUBSET User :
          db = [client |-> [k \in Client |-> None],
                contact |-> [c \in Contact |-> None],
                users |-> users, owners |-> {},
                profiles |-> SetToSeq([user : users, contact : {None},
                                       active : {TRUE}, default : {TRUE}])]
    /\ request = [r \in Request |-> Idle]

At(r, pc) == request[r].pc = pc

Become(r, state) == request' = [request EXCEPT ![r] = state]

Fail(r) ==
    /\ ~At(r, "idle")
    /\ Become(r, Idle)
    /\ UNCHANGED db

Exists(d, c) == d.contact[c] # None

OfClient(d, k) == {c \in Contact : Exists(d, c) /\ ClientOf[c] = k}

Own(d, u) == {i \in DOMAIN d.profiles : d.profiles[i].user = u}

\* Rows locked by the uncommitted updates of a revocation.
Locked == UNION {request[r].off : r \in {q \in Request : request[q].pc \in {"check", "revoke"}}}

\* client_contacts_tenant_id_client_id_email_key
OneAddress(d) ==
    \A k \in Client : \A b, c \in OfClient(d, k) :
        d.contact[b].email = d.contact[c].email => b = c

\* client_contacts_one_active_primary_per_client_key
OnePrimary(d) ==
    \A k \in Client :
        Cardinality({c \in OfClient(d, k) : d.contact[c].active /\ d.contact[c].primary}) <= 1

\* actor_profiles_one_default_per_user
OneDefault(d) ==
    \A u \in User : Cardinality({i \in Own(d, u) : d.profiles[i].default}) <= 1

----------------------------------------------------------------------------
(* establishPortalAccess *)

\* Broken form of UserFor: the user of the address, although another is linked.
UserFor_Address(s, c) == s.contact[c].email

UserFor(s, c) ==
    IF s.contact[c].user # None THEN s.contact[c].user ELSE s.contact[c].email

HasDefault(s, u) == \E i \in Own(s, u) : s.profiles[i].active /\ s.profiles[i].default

ProfileFor(s, u, c) == {i \in Own(s, u) : s.profiles[i].contact = c}

\* What the reads on the snapshot s decide: the rows to write, as they were.
Plan(s, c) ==
    LET u == UserFor(s, c)
        profile == ProfileFor(s, u, c)
        stale == IF HasDefault(s, u) THEN {} ELSE {i \in Own(s, u) : s.profiles[i].default}
    IN [user |-> u, contact |-> c, row |-> s.contact[c],
        newUser |-> u \notin s.users, newRole |-> u \notin s.owners,
        profile |-> profile, first |-> ~HasDefault(s, u),
        seen |-> [i \in profile \cup stale |-> s.profiles[i]]]

SameProfiles(seen) ==
    \A i \in DOMAIN seen : db.profiles[i] = seen[i] /\ i \notin Locked

\* No row it writes was written since, and no unique row it inserts exists.
Unwritten(d, p) ==
    /\ d.contact[p.contact] = p.row
    /\ p.newUser => p.user \notin d.users
    /\ p.newRole => p.user \notin d.owners
    /\ SameProfiles(p.seen)

\* Broken form of Default: the stale default is cleared and none is set.
Default_Unset(p, i, row) == IF i \in DOMAIN p.seen THEN FALSE ELSE row.default

\* An inactive default gives way to the profile of the contact.
Default(p, i, row) ==
    IF i \in p.profile THEN p.first \/ row.default
    ELSE row.default /\ i \notin DOMAIN p.seen

\* The rows d with the writes of p.
Established(d, p) ==
    LET created == [user |-> p.user, contact |-> p.contact, active |-> TRUE,
                    default |-> p.first]
        kept == [i \in DOMAIN d.profiles |->
                    [d.profiles[i] EXCEPT !.active = @ \/ i \in p.profile,
                                          !.default = Default(p, i, d.profiles[i])]]
    IN [d EXCEPT
          !.users = IF p.newUser THEN @ \cup {p.user} ELSE @,
          !.owners = IF p.newRole THEN @ \cup {p.user} ELSE @,
          !.profiles = IF p.profile = {} THEN Append(kept, created) ELSE kept,
          !.contact[p.contact].user = p.user]

----------------------------------------------------------------------------
(* ClientOnboardingRepository.create, ClientAccessRepository.grant *)

\* A new client with its first contact, seen by nobody else.
WithClient(d, c) ==
    [d EXCEPT !.client[ClientOf[c]] = TRUE,
              !.contact[c] = [active |-> TRUE, primary |-> TRUE, email |-> Owner[c],
                              user |-> None]]

BeginOnboard(r, c) ==
    /\ At(r, "idle")
    /\ db.client[ClientOf[c]] = None
    /\ Become(r, [pc |-> "onboard", plan |-> Plan(WithClient(db, c), c)])
    /\ UNCHANGED db

CommitOnboard(r) ==
    LET p == request[r].plan
        d == WithClient(db, p.contact)
    IN
    /\ At(r, "onboard")
    /\ db.client[ClientOf[p.contact]] = None
    /\ \/ db' = d                       \* enablePortalAccess is false
       \/ /\ Unwritten(d, p)
          /\ db' = Established(d, p)
          /\ OneDefault(db')
    /\ Become(r, Idle)

BeginGrant(r, c) ==
    /\ At(r, "idle")
    /\ Exists(db, c)
    /\ db.client[ClientOf[c]] = TRUE
    /\ db.contact[c].active
    /\ Become(r, [pc |-> "grant", plan |-> Plan(db, c)])
    /\ UNCHANGED db

CommitGrant(r) ==
    /\ At(r, "grant")
    /\ Unwritten(db, request[r].plan)
    /\ db' = Established(db, request[r].plan)
    /\ OneDefault(db')
    /\ Become(r, Idle)

----------------------------------------------------------------------------
(* ClientAccessRepository.revoke *)

\* UPDATE actor_profiles SET is_active = false WHERE it is active and of c.
BeginRevoke(r, c) ==
    /\ At(r, "idle")
    /\ Exists(db, c)
    /\ db.contact[c].user # None
    /\ LET off == {i \in Own(db, db.contact[c].user) :
                      db.profiles[i].contact = c /\ db.profiles[i].active}
       IN /\ off \cap Locked = {}
          /\ Become(r, [pc |-> "check", user |-> db.contact[c].user, off |-> off])
    /\ UNCHANGED db

\* Broken form of OtherActive: the other profiles are not looked for.
OtherActive_None(u, off) == FALSE

\* Another active client_owner profile of the user.
OtherActive(u, off) ==
    \E i \in Own(db, u) \ off : db.profiles[i].active /\ db.profiles[i].contact # None

CheckOther(r) ==
    /\ At(r, "check")
    /\ Become(r, [pc |-> "revoke", user |-> request[r].user, off |-> request[r].off,
                  last |-> ~OtherActive(request[r].user, request[r].off)])
    /\ UNCHANGED db

CommitRevoke(r) ==
    LET q == request[r] IN
    /\ At(r, "revoke")
    /\ db' = [db EXCEPT
                !.profiles = [i \in DOMAIN @ |->
                                 IF i \in q.off THEN [@[i] EXCEPT !.active = FALSE]
                                 ELSE @[i]],
                !.owners = IF q.last THEN @ \ {q.user} ELSE @]
    /\ Become(r, Idle)

----------------------------------------------------------------------------
(* ClientContactRepository, ClientRepository.setActive *)

CheckClient(r, c) ==
    /\ At(r, "idle")
    /\ ~Exists(db, c)
    /\ db.client[ClientOf[c]] = TRUE
    /\ Become(r, [pc |-> "add", contact |-> c])
    /\ UNCHANGED db

AddContact(r) ==
    LET c == request[r].contact IN
    /\ At(r, "add")
    /\ ~Exists(db, c)
    /\ db' = [db EXCEPT !.contact[c] =
                 [active |-> TRUE, primary |-> FALSE, email |-> Owner[c], user |-> None]]
    /\ OneAddress(db')
    /\ Become(r, Idle)

\* The link to the user stays.
ChangeEmail(r, c, u) ==
    /\ At(r, "idle")
    /\ Exists(db, c)
    /\ db' = [db EXCEPT !.contact[c].email = u]
    /\ OneAddress(db')
    /\ UNCHANGED request

\* Broken form of Deactivated: the contact stays primary.
Deactivated_KeepsPrimary(row) == [row EXCEPT !.active = FALSE]

Deactivated(row) == [row EXCEPT !.active = FALSE, !.primary = FALSE]

Deactivate(r, c) ==
    /\ At(r, "idle")
    /\ Exists(db, c)
    /\ db' = [db EXCEPT !.contact[c] = Deactivated(@)]
    /\ UNCHANGED request

Reactivate(r, c) ==
    /\ At(r, "idle")
    /\ Exists(db, c)
    /\ db' = [db EXCEPT !.contact[c].active = TRUE]
    /\ OnePrimary(db')
    /\ UNCHANGED request

\* The primaries of the client and the contact, as they were.
BeginPrimary(r, c) ==
    /\ At(r, "idle")
    /\ Exists(db, c)
    /\ db.contact[c].active
    /\ LET old == {b \in OfClient(db, ClientOf[c]) : db.contact[b].primary}
       IN Become(r, [pc |-> "primary", contact |-> c,
                     seen |-> [b \in old \cup {c} |-> db.contact[b]]])
    /\ UNCHANGED db

CommitPrimary(r) ==
    LET seen == request[r].seen IN
    /\ At(r, "primary")
    /\ \A b \in DOMAIN seen : db.contact[b] = seen[b]
    /\ db' = [db EXCEPT !.contact =
                 [b \in Contact |->
                     IF b \in DOMAIN seen
                     THEN [@[b] EXCEPT !.primary = (b = request[r].contact)]
                     ELSE @[b]]]
    /\ OnePrimary(db')
    /\ Become(r, Idle)

SetClientActive(r, k, isActive) ==
    /\ At(r, "idle")
    /\ db.client[k] # None
    /\ db' = [db EXCEPT !.client[k] = isActive]
    /\ UNCHANGED request

----------------------------------------------------------------------------
(* ActorProfileRepository.setDefault *)

BeginDefault(r, i) ==
    LET row == db.profiles[i] IN
    /\ At(r, "idle")
    /\ row.active
    /\ row.contact # None => row.user \in db.owners
    /\ LET old == {j \in Own(db, row.user) : db.profiles[j].default}
       IN Become(r, [pc |-> "default", profile |-> i,
                     seen |-> [j \in old \cup {i} |-> db.profiles[j]]])
    /\ UNCHANGED db

CommitDefault(r) ==
    LET seen == request[r].seen IN
    /\ At(r, "default")
    /\ SameProfiles(seen)
    /\ db' = [db EXCEPT !.profiles =
                 [j \in DOMAIN @ |->
                     IF j \in DOMAIN seen
                     THEN [@[j] EXCEPT !.default = (j = request[r].profile)]
                     ELSE @[j]]]
    /\ OneDefault(db')
    /\ Become(r, Idle)

----------------------------------------------------------------------------

\* A step of a request that may name the given contacts, and change the address of
\* some of them.
Step(contacts, renamed) ==
    \E r \in Request :
         \/ \E c \in contacts :
              \/ BeginOnboard(r, c) \/ BeginGrant(r, c) \/ BeginRevoke(r, c)
              \/ CheckClient(r, c) \/ BeginPrimary(r, c)
              \/ Deactivate(r, c) \/ Reactivate(r, c)
         \/ \E c \in renamed, u \in User : ChangeEmail(r, c, u)
         \/ \E k \in Client, b \in BOOLEAN : SetClientActive(r, k, b)
         \/ \E i \in DOMAIN db.profiles : BeginDefault(r, i)
         \/ CommitOnboard(r) \/ CommitGrant(r)
         \/ CheckOther(r) \/ CommitRevoke(r)
         \/ AddContact(r) \/ CommitPrimary(r) \/ CommitDefault(r)
         \/ Fail(r)

Next == Step(Contact, Contact)

Spec == Init /\ [][Next]_vars

----------------------------------------------------------------------------
(* Properties *)

\* Every row keeps its type: above all, no profile is of no user, although a
\* contact is created without one and a grant decides whose it is.
TypeOK == db \in Rows

\* Whoever races whom, an inactive contact is never primary, and a client has
\* at most one primary.
PrimaryIsActive ==
    \A k \in Client :
        LET primaries == {c \in OfClient(db, k) : db.contact[c].primary}
        IN /\ Cardinality(primaries) <= 1
           /\ \A c \in primaries : db.contact[c].active

\* Repeated and racing grants give a contact one profile, of its own user, also
\* when its address becomes another user's.
OneProfilePerContact ==
    \A i, j \in DOMAIN db.profiles :
        LET c == db.profiles[i].contact IN
        c # None =>
            /\ db.contact[c].user = db.profiles[i].user
            /\ db.profiles[j].contact = c => i = j

\* A user with profiles has exactly one default, whatever grants, revocations
\* and changes of the default race.
ExactlyOneDefault ==
    \A u \in User :
        Own(db, u) # {} => Cardinality({i \in Own(db, u) : db.profiles[i].default}) = 1

Access == {i \in DOMAIN db.profiles : db.profiles[i].active /\ db.profiles[i].contact # None}

\* An active profile of a contact (ClientAccessRepository) belongs to a user
\* with the client_owner role: revoking the access of one contact leaves the
\* access of the same user through another.
AccessHasRole == \A i \in Access : db.profiles[i].user \in db.owners

\* The last revocation of a user's contacts takes the client_owner role with it.
RoleHasAccess == \A u \in db.owners : \E i \in Access : db.profiles[i].user = u
=============================================================================
