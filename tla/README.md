# Formal models of the project portal backend

This directory holds TLA+ models of the backend in this repository, the TLC
configurations that check them on small instances, and TLAPS proofs of the
results that matter most for every size. The models are written from the code
(`src/**`, `prisma/schema.prisma` and the migrations), not from `specs/`; where
code and documents disagree, a run shows what the code does.

    tlc -workers 2 -config identity.cfg MCIdentity     # one run
    tlapm IdentityProofs.tla                            # one proof module

`PROJECT.json` is the index: components, runs, the lines each definition
stands for, the hazards, and for every property one broken form of a definition
(an operator named `<Definition>_<Bug>`) that violates it.

## 1. The system

A multi-tenant NestJS service over PostgreSQL (Prisma), with Redis for the
throttler, the cache and the BullMQ mail queue, and an optional RabbitMQ. Many
processes may run the same code. State lives in the database and in Redis; a
process keeps only its request contexts, the relay's timer and flags, and the
handlers it has started.

The unit everything hinges on is the *unit of work*
(`infra/prisma/unit-of-work.service.ts`): a repository call is a transaction of
its own unless one is open. A handler that makes three repository calls is
three transactions, and other requests run in between. Some transactions ask
for SERIALIZABLE, most run READ COMMITTED; a few lock the row of a user.

| Component | State | Operations | What makes it correct |
|---|---|---|---|
| auth: sessions, tokens (`auth/`) | `auth_sessions`, consumed tokens | sign-in, refresh, logout, revoke all | no session outlives its user's activity or password; a replayed token revokes its family; a token is exchanged once |
| auth: recovery | `password_reset_tokens`, mail queue | forgot, reset, set-up of a contact's login | one live token per user; a password changes only through one |
| auth: actor profiles (`auth/actor-profile*`, `common/security/actor-access-orchestration.ts`) | `actor_profiles`, `user_roles` | choose the default, ensure role and profile, link to a member | one default per user; a profile speaks for its own user's member |
| guards, object scope (`common/security`) | none | authenticate, permit, scope | a revoked session admits nobody; nobody gets what it was not granted |
| user (`user/`) | `users` | create, update, delete | sessions end with activity or password; an active administrator stays; an address has one user over all tenants |
| role-permission | `roles`, `permissions`, `user_roles` | assign, revoke, replace permissions | as above; a role has the permissions that were asked for |
| company | `tenants`, `companies` | sign-up (one database function), update | all or nothing; no other tenant's row is touched |
| division | `divisions`, `division_leads` | CRUD, assign and revoke a lead | at most one lead; history is kept; a tenure has its division |
| member | `members` | onboard, update and move, link access, delete | member, user, role and profile agree |
| team | `teams`, `team_members` | CRUD, lead, add and remove members | links stay in one division; active once |
| client | `clients`, `client_contacts` | onboard, contacts, primary, grant and revoke access | access and role agree; one profile per contact; an active primary |
| tenant (`common/tenant`, Prisma extension, row-level security) | a remembered activation in Redis, `app.tenant_id` on pooled connections, the request context | admit a request, scope a query | a tenant switched off is refused soon; no request reaches another tenant's rows |
| messaging (`infra/messaging`) | `outbox_messages`, `processed_events` | record, relay, publish, consume | nothing lost, no effect twice |
| throttler, cache, mail (`infra/`) | Redis keys, a queue | hit, remember, enqueue | the limit holds over all processes |
| exceptions, pagination, swagger, config, scripts | none | formatting and wiring | - |

How they interact: a request passes throttler, access-token guard, tenant
guard, authentication guard and object scope before its handler; the handlers
of member, division, role-permission and client all write `user_roles` and
`actor_profiles` (three through the same two functions); user administration,
recovery and session administration all end sessions; any handler may record an
event in its transaction, which the relay publishes later. Two things cross
tenants: the e-mail addresses, which are unique over all of them, and the
connections of the pool, which carry the tenant of one request after another.

What is hard, in one sentence each (`PROJECT.json` lists every place):

* checks in one transaction and writes in the next (teams, members, divisions,
  recovery, refresh);
* transactions of different isolation levels that share a rule
  (administrators, client access, default profiles);
* statements that wait for a row lock and go on with what they read before;
* a serializable transaction that does not see what it has to revoke;
* relays of several processes without a lock, crashes between publish and stamp;
* answers remembered in Redis that nobody invalidates;
* an actor's role, permissions and led divisions, read statement by statement in
  the guards and decided upon after more lookups;
* a sign-in that finds tenant, user and session in three transactions, while the
  address passes to someone else;
* a seeder that adds rows while administrators replace the permissions they
  belong to.

## 2. The modules

| Module | Models | Extends or instantiates |
|---|---|---|
| `IdentityStore` | the tables, the clock and the requests of identity | |
| `AuthSessions` | sign-in, refresh, authentication, logout, revocation | `IdentityStore` |
| `UserAccounts` | administration of users | `IdentityStore` |
| `PasswordRecovery` | recovery and the set-up of a contact's login | `IdentityStore` |
| `Identity` | all of them over the same tables; the properties | the three above, `RefreshTokenFamily` |
| `RefreshTokenFamily` | abstract: the life of a token family | |
| `ActorAccess` | users, members, grants and profiles | |
| `AdminRetention` | the last active administrator under SERIALIZABLE | |
| `ClientPortal` | clients, contacts and portal access | |
| `TeamDirectory` | members, teams and memberships | |
| `DivisionLeads` | divisions and their leads | `LeadRegister` |
| `LeadRegister` | abstract: at most one lead per division | |
| `OutboxRelay` | outbox, relay, transports, inbox | `EventDelivery` |
| `EventDelivery` | abstract: at most one effect per event and consumer | |
| `AccessPolicy` | no state: the guards of every controller as functions from handlers to routes, and what each guard decides | |
| `RolePermissions` | the permission matrix: its serializable replacement, the seeder | `AccessPolicy` |
| `Authority` | what an actor may do: the reading of its role, permissions and led divisions, the decisions of member and team scopes, and the operations that change them meanwhile | `RolePermissions` |
| `Tenancy` | tenants, users and sessions over pooled connections: sign-up, sign-in, refresh, users, companies | `AccessPolicy` |
| `Throttler`, `TenantActivation` | the Lua script; the remembered status | |
| `RequestAdmission` | both, on one clock | the two above |
| `IdentityProofs`, `TenancyProofs`, `DivisionLeadProofs`, `ActorAccessProofs` | theorems | the module they are about |
| `AuthorityProofs`, `InfraProofs` | theorems about two modules each that share nothing | `Authority` and `AdminRetention`; `OutboxRelay` and `RequestAdmission` |
| `TeamProofs`, `PortalProofs` | theorems, one of each about requests one at a time | `MCTeamDirectory`, `MCClientPortal`, which state that |
| `MC*` | constants, scenarios and symmetry for TLC | the module they check |

How a model corresponds to the code:

* A **request** is a record with a program counter, `pc`. Each step between two
  values of `pc` is one transaction, or one statement where it can wait for a
  row lock. What the handler keeps in variables is in the record; what it reads
  again is read again.
* **READ COMMITTED** transactions whose statements matter one by one are several
  steps; their writes appear with the last one.
* **SERIALIZABLE** is modelled by what the rules rely on. `UserAccounts` and
  `ActorAccess` and `DivisionLeads` and `ClientPortal`: the transaction decides
  on the snapshot of its first statement, and cannot commit if a row it writes
  was written since or a unique index objects. Detection of read-write cycles is
  left out there, so that the models allow more than PostgreSQL does: a safety
  property that holds in the model holds in the system. `AdminRetention` is
  where the rule needs the cycles; there they are modelled (`Serializes`).
* **Foreign keys** are part of the action that writes: RESTRICT is a guard, SET
  NULL an update.
* A **failure** (constraint, serialization, timeout of 15 s, crash of the
  process) ends the request with nothing more written: `RequestLost`, `Fail`,
  `Crash`.
* **Ids and random tokens** are model values; the code only compares them.
  Passwords are numbered by the write that set them (`password = 0` is none).
* `consumed`, `inForce`, `handed`, `since`, `accepted`, `erased`, `overtaken`
  and the like are **history**: no guard of the code reads them (`consumed` is
  both: the table of consumed tokens, with its owner). A row of `TeamDirectory`
  has two fields of this kind: `saw`, the rows of its pair that were there when
  its addition looked, and `rivals`, the removals that had found it active when
  another ended it. `left` names the removal that wrote `left_at` last, so that
  a second write shows.
* **What a request names** is what its handler takes from parameters, query and
  body: one operator per controller in `Authority` (`TeamNames`, `MemberNames`,
  ...), from which `Goals` makes the inputs.
* **Redis** keeps an append-only file that is written out every second
  (`docker-compose.yml:10-15`). `Restart` loses the last writes of it: the
  counter falls back or is gone, a block may be gone, the activation key may be
  gone. Of two racing writes of the activation key only the last can be lost.
* **The mail queue** accepts a mail, refuses it, or accepts it although the call
  reports an error (`EnqueueMail`); in the last two cases the token is retired.

## 3. The runs

| Run | Question | Bounds |
|---|---|---|
| `identity` | Do sign-in, rotation, authentication, administration and recovery leave a stale session, a stale admission or a second live reset token? | 1 user, 2 requests; lifetimes 2 (refresh), 3 (absolute) and 1 (reset). Four scenarios: 2 sessions and 3 tokens, time to 2; 1 session, 2 tokens and 2 bearers, time to 2; 1 session and 1 reset token, time to 1; 2 reset tokens, time to 1. 3 writes of a user's row, 2 in the last |
| `setup` (violation) | Does the set-up of a new contact's login issue a token? No. | 1 user, 1 session, 2 requests, 2 reset tokens, time to 1 |
| `access` | Do grants, members, profiles and defaults agree whatever races? | 2 requests, 2 roles, 5 rows: users, members and profiles in all |
| `grants` | What can remove the last administrator? | 3 users, 3 assignments, 3 transactions, 1 grant |
| `lastadmin` (violation) | Does an active administrator always stay? No. | as above |
| `authority` | Does a request get what its actor was not granted, and does a role have the permissions that were asked for? | an administrator and one other actor with any of 3 roles, or two of them, 2 divisions, 1 team, 5 codes of which a release adds 1; 2 requests that run once |
| `tenancy` | Does a connection, a sign-in or a write cross tenants? | 2 tenants, 2 users, 2 addresses, 2 connections, 2 requests that follow one another without end; of two at once one signs up or in and the other writes; 1 tenant is switched off |
| `portal` | Do contacts, profiles, defaults and primaries agree? | 3 contacts, 2 clients, 2 users; 1 request, or 2 with two contacts, or 2 with one contact whose address changes |
| `teams` | What do the checks of three services keep together? | 2 divisions, 2 members, 2 teams, 3 rows and 1 request at a time; or 2 requests, with 1 member, 1 team at a time and 2 rows |
| `leads` | Does leadership implement the register while divisions come and go? | 2 divisions, 3 members, 3 rows, 2 requests |
| `outbox` | Is every event delivered, and its effect committed once? | 2 events, 2 processes on both transports, 1 consumer; 2 failures, 1 stop, 1 throw |
| `admission` | Do limit and activation hold over racing requests? | limit 2, window 3, block 2, TTL 3, slow 2, 2 requests; Redis restarts at any time |

What they show:

* **identity.** `LiveSessionsAreCurrent`: no order of sign-in, password change
  and deactivation leaves a session from before. Sign-in re-reads the user in
  the statement that records the login, and the serializable update cannot
  commit past it (`SnapshotsSeeLiveSessions`). `ReplayRevokes`: a refusal of a
  token that was ever exchanged leaves its session revoked, also when the
  exchange happened during the refused request. `AdmittedWasInForce`: whoever
  passes the guard had a session in force when its first lookup began, although
  three transactions look it up. `AtMostOneUnusedResetToken` and
  `PasswordChangeIsAuthorized`: recovery is serialized by the user's row lock.
  `FamilySpec`: rotation implements the abstract token family, renewal near the
  absolute expiry included.
* **access.** `ProfileFollowsMember`: nobody can act for a member who is linked
  to someone else. `GrantHasProfile`, `SoleDefault`, `RoleOnlyOnce`: role
  assignments under a lock and serializable lead assignments create one profile
  and one default together. `LeadHasProfile`: no deletion takes the lead profile
  of a past or present lead away; only a foreign key sees to that, because the
  blockers of a deletion do not name `division_leads`. `DefaultKept` and
  `LinkKept` say exactly when a default or a link *is* lost (section 6).
* **grants** shows that SERIALIZABLE protects the last administrator from every
  competition of deactivations and revocations, and that a loss needs a grant
  that commits during the deactivation of its user.
* **teams.** Taken one at a time, the checks of three services keep leads and
  active memberships in the member's division. When two requests interleave,
  nothing dangles (`NoDanglingLink`). `DuplicatesNeedOverlap`: of two active
  memberships of one pair, neither addition could see the other, so an addition
  alone never makes a second one. `HistoryKept`: nothing is deleted, moved or
  reopened, and a second removal rewrites an end only if it had found the row
  active before the first one wrote (section 6).
* **authority.** `NothingUngranted`: a request that is served reaches only
  divisions in which its actor was entitled to the operation on arrival, unless
  the actor was *given* something while it ran: a right, a lead or a team in its
  role, or another role that entitles it to more (`Grows`). A role that is taken
  away, or exchanged for one that entitles it to no more, excuses nothing. What
  is taken away meanwhile may still be used once: the guards read before the
  handler and nobody reads again. `PermissionsAreAsked`: racing replacements of a
  role's permissions never mix, and the seeder gives nothing back that was taken
  away; SERIALIZABLE is needed, because every replacement rewrites the rows that
  exist and the one that commits second is aborted.
* **tenancy.** `ConnectionCarriesContext`: the tenant set on a connection ends
  with the transaction (`set_config(..., true)`). `SignedInAsAddressed`: between
  the three transactions of a sign-in the address may pass to another user or
  tenant, yet the session is of a user that carried it, in its own tenant, which
  was active at some time. `NoForeignWrite`: extension, policies and the
  provisioning function together keep every write at home.
* **admission.** `AtMostTwice` bounds what was let through as long as Redis keeps
  its keys; after a restart the count begins anew. `PauseReopens`,
  `AnswerIsRecent` and `ShutOut` hold through restarts.
* **portal**, **leads**, **outbox**: as the table says; each property is commented
  where it is defined.

The two violations are disagreements between code and documents
(`PROJECT.json`, "findings", quotes both):

1. The set-up of a contact's login calls the recovery lookup, which demands a
   password that the login does not have; no token is issued.
2. A role grant at READ COMMITTED takes no part in the conflict detection that
   protects the last administrator. In the run, the deactivation of a user
   without the role starts; the user is granted `system_admin`; the deactivation
   of the only other administrator starts and counts that user; both commit.

**Why the bounds are enough.** Every rule relates at most two rows of a kind
(two sessions of a user, two defaults, two incumbents) and is broken by at most
two requests that interleave with a third fact; the token family needs three
tokens, because the second exchange is what makes the first one a *former*
predecessor. Times are small multiples that let expiries fall before, at and after the steps
of a request; the absolute expiry of a session lies one tick beyond the run's
time and is met as the cap of a second renewal. Each property has a broken form of one definition that
violates it within these bounds. Scenarios (`MCIdentity`, `MCClientPortal`,
`MCTeamDirectory`, `MCActorAccess`) restrict which rows exist together, never an
action; those of `MCAuthority` and `MCTenancy` restrict which operations run at
once, to the pairs of which one reads what the other changes. The theorems about
`Authority` and `Tenancy` hold without them. Sets that are only compared are symmetric; no run with a liveness
property uses symmetry.

**Deadlock** is checked by `tenancy`, where requests follow one another without
end: none waits for a connection that only it could give back, because a request
holds at most one. In the other runs, bounds on rows, tokens and time stop
every model, and a quiet system is a legal one. Nothing waits for more than one
lock.

## 4. Fairness

Only two specifications assume any.

* `OutboxRelay`: each relay goes on and each handler that was called runs on.
  The timer is `setInterval`, calls to database and broker return or time out,
  and a process that stopped is restarted by its supervisor. Nothing is assumed
  of producers, and failures and stops are bounded by `MaxFailures` and
  `MaxStops`: `EveryEventIsStamped` is a promise *after the last failure*. That
  is what the code can promise: it retries for ever.
* `RequestAdmission`: time passes, and a request that has asked gets an answer
  or an error. Nobody has to send requests.

## 5. What is proved

For every value of the constants, under the named assumptions of the modules:
None is no id and no row, limits and lifetimes are positive, the replacement of
permissions knows a released code, the requests of `TeamDirectory` are finitely
many ("one at a time" counts them), and so are the users of `ClientPortal` (a sequence of
initial profiles lists them). All other sets of users, rows, members, profiles and
tokens may be infinite. All proofs are of
the specification TLC runs, and every theorem's property is checked by a run.

| Theorem | Statement | How |
|---|---|---|
| `IdentityProofs!TypeCorrect` | `Spec => []TypeOK` | one lemma per action |
| `IdentityProofs!NoStaleSession` | `Spec => []LiveSessionsAreCurrent` | `SessionInv`, below |
| `IdentityProofs!NoUnseenSession` | `Spec => []SnapshotsSeeLiveSessions` | the same invariant |
| `IdentityProofs!NoStaleAdmission` | `Spec => []AdmittedWasInForce` | `BearerInv == SessionInv /\ BearersAreChecked` |
| `IdentityProofs!RotationIsAFamily` | `Spec => FamilySpec` | refinement: every step revokes, opens, exchanges or stutters (`SessionStep`) |
| `IdentityProofs!ReplaysRevoke` | `Spec => []ReplayRevokes` | `RefreshInv`, below |
| `IdentityProofs!OneResetToken` | `Spec => []AtMostOneUnusedResetToken` | `ResetInv`, below |
| `IdentityProofs!PasswordsAreGuarded` | `Spec => PasswordChangeIsAuthorized` | `SessionInv` for updates, `ResetInv` for resets |
| `InfraProofs!OutboxTypes` | `Spec => []TypeOK` | `RelayInv` |
| `InfraProofs!NoLostPublish` | `Spec => []StampedWasHandedOver` | a relay that is about to stamp has handed over |
| `InfraProofs!DeliveryHolds` | `Spec => DeliverySpec` | refinement: every step is a raise, an effect or a stutter |
| `InfraProofs!AdmissionTypes` | `AdmissionSpec => []AdmissionTypeOK` | keys without expiry do not exist |
| `InfraProofs!AnswersHold` | `AdmissionSpec => AnswerIsRecent` | the age of what is remembered or carried is bounded by what is left of it |
| `InfraProofs!PausesReopen` | `AdmissionSpec => PauseReopens` | what is left of a key and the time since the last request together do not exceed the longest life of a key (`KeysEnd`) |
| `InfraProofs!NeverTwice` | `AdmissionSpec => []AtMostTwice` | `Windows`, below |
| `TenancyProofs!ConnectionsCarryContext` | `Spec => []ConnectionCarriesContext` | connections and their holders know of each other (`Pool`) |
| `TenancyProofs!SignInsAsAddressed` | `Spec => SignedInAsAddressed` | a sign-in has found its tenant active, then its user with the address (`Signed`) |
| `TenancyProofs!WritesStayHome` | `Spec => NoForeignWrite` | the same invariant, one lemma per writing action |
| `AuthorityProofs!MatrixAsAsked` | `Spec => []PermissionsAreAsked` | `MatrixInv`: a snapshot that can still commit has every row that was asked for |
| `AuthorityProofs!NobodyExceedsGrants` | `Spec => []NothingUngranted` | `AuthorityInv`, below |
| `AuthorityProofs!OnlyGrantsLose` | `RetentionSpec => []LostOnlyToGrantRace` | `RetentionInv`, below |
| `ActorAccessProofs!ProfilesFollowMembers` | `Spec => []ProfileFollowsMember` | `AccessInv`, below |
| `ActorAccessProofs!GrantsHaveProfiles` | `Spec => []GrantHasProfile` | the same invariant |
| `ActorAccessProofs!LeadsHaveProfiles` | `Spec => []LeadHasProfile` | the same invariant |
| `ActorAccessProofs!DefaultIsSole` | `Spec => []SoleDefault` | the same invariant: one at most and one at least |
| `ActorAccessProofs!RolesOnlyOnce` | `Spec => []RoleOnlyOnce` | the same invariant |
| `ActorAccessProofs!DefaultsAreKept` | `Spec => DefaultKept` | what each commit demotes, over the same invariant |
| `ActorAccessProofs!LinksAreKept` | `Spec => LinkKept` | likewise |
| `TeamProofs!LinksAreToRows` | `Spec => []NoDanglingLink` | `RefInv`: the row an `endMember` found is a row |
| `TeamProofs!HistoryIsKept` | `Spec => HistoryKept` | `HistoryInv`, below |
| `TeamProofs!FewDuplicates` | `Spec => []DuplicatesNeedOverlap` | `DuplicateInv`, below |
| `TeamProofs!LinksFollowAlone` | `MCSpec => []LinksFollowDivisionAlone` | `AloneInv`: what a request alone has checked is still so |
| `PortalProofs!ContactsHaveOneProfile` | `Spec => []OneProfilePerContact` | `PortalInv`, below |
| `PortalProofs!OneDefaultEach` | `Spec => []ExactlyOneDefault` | the same invariant: one at most and one at least |
| `PortalProofs!PrimariesAreInForce` | `Spec => []PrimaryIsActive` | the same invariant |
| `PortalProofs!RoleFollowsAccess` | `MCSpec => []RoleIsAccessAlone` | `AloneInv`: what a request alone has read is still so |
| `DivisionLeadProofs!LeadsAreARegister` | `Spec => RegisterSpec` | refinement over `LeadInv`, below |
| `DivisionLeadProofs!TenuresAreKept` | `Spec => TenureKept` | the same invariant |

*Why sessions need a strengthening.* `LiveSessionsAreCurrent` alone is not
preserved: the update of a user revokes what its snapshot showed, so one must
know that nothing else is live when it commits. `SessionInv` adds types,
`SnapshotsSeeLiveSessions`, and that a sign-in past its check still has the
user's current password (the row it wrote keeps the update from committing).
`BearersAreChecked` adds that a request in the guards whose session was *not* in
force on arrival has a session that is not usable: by `LiveSessionsAreCurrent` a
usable one is in force, and an unusable one never becomes usable again
(`NextReturnsNone`).

*Why a replay ends the session.* `ReplayRevokes` speaks of the moment a refresh
is refused, but the token may be exchanged between its lookups. `RefreshInv` says
that a token leads to one session (`HeldOnce`) and what a refresh still knows:
past its first lookup, that its session holds the token; before the lookup of
consumed tokens and once refused, that no usable session holds it as its current
one (`TurnedAway`). That stays so (`TurnedAwayStays`), because no session becomes
usable again, so a refused token is consumed by nobody later. The family itself
needs only types: `NextSessions` shows that every step of the program, of
whichever handler, `Revokes`, `Opens` or `Exchanges`.

*Why one reset token.* A request that issues a token reads which tokens to retire
under the lock of the user's row and holds the lock until it commits. `ResetInv`
says that these are all the unused tokens there are, that the key of a recovery
in flight is no other recovery's (`KeysAreOwn`), and that a token found by a reset
stays one of the user whose row the reset locks. `PasswordsAreGuarded` then says
the rest: the token that `ConsumeResetToken` uses up is a live one of that user,
and the update sees every session it must revoke.

*Why delivery holds.* A claim (`processed_events`) and its effect commit
together, and a handler runs only while its claim is not taken: `DeliveryInv`
says that an effect has been counted exactly if its claim is committed, and that
what waits in a process is of a committed fact.

*Why nobody exceeds its grants.* A request reads role, permissions, led divisions
and team at different times, so no single state justifies the decision.
`AuthorityInv` says that there are powers `p`, those of the actor on arrival,
with which the operation is allowed in divisions of `entitled` only, that what
the actor has *now* in the role it goes by is no more than `p` (`Held`; once a
role is read it is that one, whatever became of it since), and that everything
read so far is part of `p` (`Powered`). A step that gives nothing leaves `Held`
part of `p`, because `May` is monotone (`MayFewer`); a role exchanged before it is
read, for one that entitles to no more, makes the new powers the `p`. The decision
is monotone in what it is made from as well (`DecisionWithin`, one case per kind
of operation, over the routes of `AccessPolicy`).

*Why two replacements do not mix.* Each forbids every row of its snapshot and
allows its own codes. Both snapshots contain the released codes, so replacements
of one role always update a common row and the second is doomed; that needs one
released code (`CodeAssumption`).

*Why profiles stay right.* What `ActorProfileRepository` promises of the rows is
not preserved by itself, because most transactions write from what they read
earlier. `AccessInv` has four parts. `RowsInv` says of the rows what the
properties say, as facts that a single write can be checked against (a user with
profiles has *a* default, two defaults of one user are the same row). Locks on a
user's row are exclusive (`LockIsExclusive`). And `Sound(r)` says what a request
in flight still knows: under the lock, that no profile of the pair exists that
it did not find (`SoundLock`, `SoundEnsure`, hence `RolesOnlyOnce`); in a
serializable snapshot that is not stale, that the rows it will write are as it
read them (`SoundLead`, `SoundLink`), where a stale one cannot commit; of a choice
or a deletion that read in an earlier transaction, only that what it found wrong
since is recorded in `overtaken` (`SoundChoose`, `SoundDrop`). The last two are
why `DefaultKept` and `LinkKept` carry an exception and the proof shows that
there is no other. `Frame` says once which rows a commit may touch; each action
then needs its own rows only.

*Why duplicates are few.* `addMember` inserts without looking again, so two rows
of a pair can be active. `DuplicateInv` says of every row, and of every addition
that is about to insert, that what it saw of its pair had ended (`SawEnded`): an
addition goes on only if it found no active row, and an ended row is never
reopened. Whatever is active was therefore seen by neither.

*Why an end is rewritten only by rivals.* `endMember` finds an active row and then
updates it by id. `HistoryInv` says that a removal which is about to end a row
that has ended since is one of its `rivals` (`RivalsAreKnown`): when it found the
row it was active, and whoever ended it recorded all removals that had found it.

*Why leads are a register.* The mapping makes the active row of a division its
lead, so an assignment is one step of the register only if the incumbent it
revokes is the active row at the commit. `LeadInv` says so by the unique index
(`OneActive`) and that rows lie in existing divisions (`RowsInOpen`); a
revocation that found a row knows it for a row (`FoundIsThere`). An assignment
whose incumbent was revoked or replaced since meets first-updater-wins or the
index, and fails: a stutter.

*Why portal access stays right.* A grant reads contact, user, roles and profiles
in a serializable snapshot and writes a plan made from it. `PortalInv` says what
the rows promise each other (`Good`: a linked contact has a profile, an unlinked
one none, a user with profiles has a default and no two) and what a request in
flight still knows (`Knows`). A plan that makes no profile its default knows that
the user had one: profiles are never removed, and a default is only replaced by
another of the same user, so some default stays. A plan that makes one its default
may be wrong about there being none, and then the unique index refuses it
(`IndexIsSole`). The link of a contact is compared with the snapshot when it is
written (first updater wins), so that a plan never links a contact twice, also
when its address passes to another user meanwhile. For requests one at a time
`Alone` adds that what a request has read is still so (`Current`); without that it
is false, as section 6 says.

*Why the limit holds twice at most.* Windows are fixed: they begin with the first
request after the last one ended, so a stretch of one window's length can see
requests of two counters. (A restart of Redis begins the count anew.) `Windows`
says of the present counter that what was let through since its first hit is at
most what it counts, that its first hit is the oldest of these, and that of the
requests *before* it the stretch sees at most `Limit - 1`: the first hit of their
counter ended it by expiring, and has left the stretch since (`TickWindows`).

*Why an administrator stays.* Transactions count on old snapshots, and what
protects the last administrator is the order that PostgreSQL guarantees. The proof
makes that order explicit: a committed transaction takes effect at its `Point`, its
commit or, if others have overwritten what it read, right before the first of them.
No dangerous structure (`NoStructure`, which `Serializes` keeps) means that whoever
reads before another takes effect before it (`PointsFollowReads`). `RetentionInv`
adds that every difference between a snapshot and the rows is the work of a
transaction that committed since (`Explained`; first-updater-wins makes that a
deactivation of an active user). Then look at the removal that takes effect last: it
has counted another administrator, and whoever removed that one takes effect later,
a contradiction; or it counted nothing, being a deactivation that raced the grant.
The argument needs no induction over cycles and no bound on transactions, while the
run has three.

Only model-checked: liveness (`EveryEventIsStamped`, `ShutOut`), because fairness
and ENABLED are outside the prover. Every other property of a passing run is stated
by a theorem.

## 6. Races that are known and not runs of their own

* **Lost choice of a default.** `ensureUserRoleAndRoleOnlyProfile` looks for a
  valid default and then demotes whatever is default. `setDefault` takes no lock
  on the user, so a choice that commits in between is demoted, although
  `specs/03-identity-and-access/SPEC.md:84` preserves an existing eligible
  default. `DefaultKept` states it as its first exception. Its second: a lead
  assignment decides on an old snapshot, and a role grant meanwhile may have made
  the default it demotes eligible again.
* **Lost link.** `MemberService.delete` checks its blockers in one transaction
  and deletes in the next; a profile linked in between loses its member by ON
  DELETE SET NULL, which `specs/04.2-member/DATA_CONTRACT.md:22` rules out.
  `LinkKept` states it as its exception.
* **Moved member.** A division move and an addition to a team that interleave
  leave the member in another division than its team: nothing locks the member.
* **Rewritten end.** The revocation of a lead updates by id what it found; if an
  assignment replaced that lead meanwhile, the tenure's end and its author are
  overwritten. `TenureKept` allows that and nothing more. The end of a team
  membership likewise: `endMember` (`team-membership.repository.ts:61-74`) finds
  the active row and updates it by id without asking for `left_at IS NULL` again,
  so the second of two racing removals overwrites `left_at`. `HistoryKept` allows
  that to removals that had found the row active, and nothing more.
* **Two memberships.** `addMember` looks for an active membership and inserts
  without a unique index behind it: two additions that overlap make the member
  active twice, which `specs/04.3-team/DATA_CONTRACT.md:33-36` ("rejected by
  application validation and concurrency-safe recheck") rules out.
  `DuplicatesNeedOverlap` states it as its exception, for additions of which each
  had looked before the other inserted.
* **Stranded access.** A revocation of portal access reads the user's other
  access without a lock and takes the role that a grant relied on meanwhile,
  which `specs/05-clients/SPEC.md:270` ensures. `RoleIsAccessAlone` claims the
  agreement for requests one at a time only.
* **Used once more.** A request that has passed the guards goes on with a role,
  a permission or a lead that is taken away before it writes; `NothingUngranted`
  allows it and nothing more.
* **Late session.** A tenant that is switched off after a sign-in has resolved it
  still gets the session; the tenant guard refuses its use.
* **Lost event.** The in-process transport stamps a row when its handlers were
  called; one that throws, or that a shutdown cuts off, is not called again.
* **Stuck rows.** Rows that can never be published stay the oldest; a full batch
  of them hides later rows (bounded failures exclude it from `outbox`).

## 7. What is not modelled

* Cryptography and formats: JWT, bcrypt, mail rendering, event serialization,
  the mapping of exceptions to responses, cookies, swagger.
* Names, phone numbers and types, and the content of reads. A list and its count
  are two transactions and may disagree; nobody relies on it.
* `ObjectScopeProvider.canAccess` and its `matches...` predicates: registered, but
  no handler calls them. The scopes that handlers use are in `Authority`.
* Permission codes that no route asks for. `division_head` is seeded with
  `ADD_DIVISION`, which the guard in front of divisions makes of no use, and
  `MemberScopeProvider` gives it no member, although
  `specs/04.2-member/SPEC.md:58` lets it read and create members of its Company.
  `AccessPolicy` and `Authority` follow the code.
* The mail worker (its retries are BullMQ's), the connections to Redis and
  RabbitMQ, configuration, wiring, the seeder of administrators and scripts.
* The timeout of 15 s of a transaction is a failure that may come at any time, not
  a clock.
* Quotations, projects, documents and work requests: only their tables exist.

## 8. The plan

In the order of what a defect would cost, and how far it is:

1. *done* identity: sessions, administration, recovery, authentication; proofs.
2. *done* outbox: delivery, liveness; proofs with the refinement.
3. *done* administrators, portal, teams, leads, admission; proofs for admission.
4. *done* guards, scopes and permissions (`Authority`), tenants (`Tenancy`), each
   with its proofs.
5. *done* proofs for `ActorAccess`, `TeamDirectory`, `DivisionLeads` (with the
   refinement of `LeadRegister`), `ClientPortal`, the throttler and
   `AdminRetention`.
6. *left* an abstract specification of portal access, and of the remembered
   activation, as there is one for delivery, leads and token families.

The modules are written for it: constants with named assumptions, one action per
operation, no RECURSIVE operators, function-valued tables.
