------------------------- MODULE ActorAccessProofs --------------------------
(***************************************************************************)
(* Proofs about ActorAccess for every set of users, members, roles,        *)
(* profiles and requests.                                                  *)
(***************************************************************************)
EXTENDS ActorAccess, FiniteSetTheorems, TLAPS

USE NoneAssumption, LeadRoleAssumption

----------------------------------------------------------------------------
(* The inductive invariant: what is so of the rows, and what each request  *)
(* still knows of what it has read.                                        *)

Used == Profile \ Unused

\* Rows of user_roles are revoked and never deleted, so a profile keeps its user.
Backed ==
    \A p \in Used : /\ grant[profile[p].user][profile[p].role] # "none"
                    /\ user[profile[p].user] # "absent"

HasDefault == \A u \in User : ProfilesOf(u) # {} => Defaults(u) # {}

RoleOnly(u, c) == {p \in Matching(u, c, {None}) : ~profile[p].erased}

OneRoleOnly == \A u \in User, c \in Role : \A p, q \in RoleOnly(u, c) : p = q

RowsInv ==
    /\ ProfileFollowsMember
    /\ GrantHasProfile
    /\ LeadHasProfile
    /\ Backed
    /\ HasDefault
    /\ UniqueDefault(profile)
    /\ OneRoleOnly

\* The row of a profile that was found keeps its user and its role.
IsOf(p, u, c) == p \in Used /\ profile[p].user = u /\ profile[p].role = c

Locking(r) == request[r].pc \in {"find", "ensure"}

LockIsExclusive ==
    \A r, s \in Request : Locking(r) /\ Locking(s) /\ request[r].user = request[s].user => r = s

SoundLock(r) ==
    LET q == request[r] IN
    Locking(r) =>
        /\ Present(q.user)
        /\ ~q.fresh => grant[q.user][q.role] # "none"

\* Under the lock nobody else makes a role-only profile of the user, and nobody but a
\* choice, which overtakes, makes a default that is valid.
SoundEnsure(r) ==
    LET q == request[r] IN
    At(r, "ensure") =>
        /\ q.found # None => IsOf(q.found, q.user, q.role)
        /\ q.found = None => RoleOnly(q.user, q.role) = {}
        /\ q.keep => ProfilesOf(q.user) # {}
        /\ ~q.keep /\ ~overtaken[r] =>
              \A p \in Defaults(q.user) : ~Held(q.user, profile[p].role)

\* A lead assignment that is not stale sees its member and its profile as they are; only
\* a role assignment, which overtakes, makes one of the defaults that it demotes valid.
SoundLead(r) ==
    LET q == request[r] IN
    At(r, "lead") =>
        /\ ~q.fresh => grant[q.user][LeadRole] # "none"
        /\ q.found # None => IsOf(q.found, q.user, LeadRole)
        /\ q.keep => ProfilesOf(q.user) # {} /\ q.demoted = {}
        /\ \A p \in q.demoted : /\ p \in ProfilesOf(q.user)
                                /\ profile[p].role # LeadRole
                                /\ ~overtaken[r] => ~Held(q.user, profile[p].role)
        /\ ~stale[r] => /\ member[q.member] = q.user
                        /\ q.found # None => profile[q.found].member \in {None, q.member}

SoundLink(r) ==
    LET q == request[r] IN
    At(r, "link") =>
        /\ q.profile # None => q.profile \in ProfilesOf(q.user)
        /\ ~stale[r] => /\ member[q.member] \in {None, q.user}
                        /\ q.profile # None => profile[q.profile].member \in {None, q.member}

SoundChoose(r) ==
    LET q == request[r] IN
    At(r, "choose") =>
        /\ q.profile \in Used
        /\ q.demoted \subseteq ProfilesOf(profile[q.profile].user)

SoundDrop(r) ==
    LET q == request[r] IN
    At(r, "drop") =>
        /\ member[q.member] # Absent
        /\ ~overtaken[r] => LinkedTo(q.member) = {}

Sound(r) ==
    SoundLock(r) /\ SoundEnsure(r) /\ SoundLead(r) /\ SoundLink(r) /\ SoundChoose(r) /\ SoundDrop(r)

AccessInv == TypeOK /\ RowsInv /\ LockIsExclusive /\ \A r \in Request : Sound(r)

----------------------------------------------------------------------------
(* Requests and their transactions *)

\* A request is what its pc says.
LEMMA Shapes ==
    ASSUME TypeOK, NEW r \in Request
    PROVE  /\ At(r, "find") =>
                 request[r] \in [pc : {"find"}, user : User, role : Role, fresh : BOOLEAN]
           /\ At(r, "ensure") =>
                 request[r] \in [pc : {"ensure"}, user : User, role : Role, fresh : BOOLEAN,
                                keep : BOOLEAN, found : Profile \cup {None}]
           /\ At(r, "lead") =>
                 request[r] \in [pc : {"lead"}, user : User, member : Member, fresh : BOOLEAN,
                                keep : BOOLEAN, found : Profile \cup {None},
                                demoted : SUBSET Profile]
           /\ At(r, "link") =>
                 request[r] \in [pc : {"link"}, user : User, member : Member,
                                profile : Profile \cup {None}]
           /\ At(r, "choose") =>
                 request[r] \in [pc : {"choose"}, profile : Profile, demoted : SUBSET Profile]
           /\ At(r, "drop") => request[r] \in [pc : {"drop"}, member : Member]
BY DEF TypeOK, Pending, Idle, At

\* The bookkeeping of the transactions.
Books ==
    /\ request' \in [Request -> Pending]
    /\ stale' \in [Request -> BOOLEAN]
    /\ overtaken' \in [Request -> BOOLEAN]

LEMMA Begins ==
    ASSUME TypeOK, NEW r \in Request, NEW q \in Pending, Begin(r, q)
    PROVE  /\ Books
           /\ request'[r] = q
           /\ \A s \in Request \ {r} : request'[s] = request[s]
           /\ UNCHANGED <<stale, overtaken>>
BY DEF TypeOK, Begin, Books

LEMMA IdleIsPending == Idle \in Pending /\ Idle.pc = "idle"
BY DEF Idle, Pending

LEMMA Commits ==
    ASSUME TypeOK, NEW r \in Request, NEW W, NEW L, Commit(r, W, L)
    PROVE  /\ Books
           /\ request'[r] = Idle
           /\ \A s \in Request \ {r} :
                 /\ request'[s] = request[s]
                 /\ stale'[s] <=> stale[s] \/ W \cap Writes(request[s]) # {}
                 /\ overtaken'[s] <=> overtaken[s] \/ s \in L
BY IdleIsPending DEF TypeOK, Commit, Books

LEMMA CommitsAlone ==
    ASSUME TypeOK, NEW W, CommitAlone(W)
    PROVE  /\ Books
           /\ UNCHANGED <<request, overtaken>>
           /\ \A s \in Request : stale'[s] <=> stale[s] \/ W \cap Writes(request[s]) # {}
BY DEF TypeOK, CommitAlone, Books

----------------------------------------------------------------------------
(* Profiles *)

\* Everything of a profile but whether it is the default.
Same(q) ==
    /\ profile'[q] # None
    /\ profile'[q].user = profile[q].user
    /\ profile'[q].role = profile[q].role
    /\ profile'[q].member = profile[q].member
    /\ profile'[q].erased <=> profile[q].erased

\* Profile p is of u and c and bound to m, those in demoted lose the default.
Ensures(u, c, m, p, keep, demoted) ==
    /\ profile' \in [Profile -> ProfileRow \cup {None}]
    /\ Used' = Used \cup {p}
    /\ profile'[p].user = u /\ profile'[p].role = c /\ profile'[p].member = m
    /\ profile'[p].isDefault <=> ~keep \/ p \in Defaults(u)
    /\ profile'[p].erased <=> p \in Used /\ profile[p].erased
    /\ \A q \in Used \ {p} : /\ Same(q)
                             /\ profile'[q].isDefault <=> profile[q].isDefault /\ q \notin demoted

LEMMA EnsuredDoes ==
    ASSUME TypeOK, NEW u \in User, NEW c \in Role, NEW m \in Member \cup {None}, NEW p \in Profile,
           NEW keep \in BOOLEAN, NEW demoted \in SUBSET Used,
           profile' = Ensured(u, c, m, p, keep, demoted)
    PROVE  Ensures(u, c, m, p, keep, demoted)
<1>1. PICK d \in BOOLEAN : d <=> ~keep \/ p \in Defaults(u)
  OBVIOUS
<1>2. PICK e \in BOOLEAN : e <=> p \in Used /\ profile[p].erased
  OBVIOUS
<1>3. profile'[p] = [user |-> u, role |-> c, member |-> m, isDefault |-> d, erased |-> e]
  BY <1>1, <1>2 DEF Ensured, Used
<1>4. \A q \in Profile \ {p} :
        profile'[q] = IF q \in demoted THEN [profile[q] EXCEPT !.isDefault = FALSE] ELSE profile[q]
  BY DEF Ensured
<1>5. profile'[p] \in ProfileRow
  BY <1>3 DEF ProfileRow
<1>6. \A q \in Used : profile[q] \in ProfileRow
  BY DEF TypeOK, Used, Unused
<1>7. ASSUME NEW q \in demoted
      PROVE  /\ [profile[q] EXCEPT !.isDefault = FALSE] \in ProfileRow
             /\ [profile[q] EXCEPT !.isDefault = FALSE].user = profile[q].user
             /\ [profile[q] EXCEPT !.isDefault = FALSE].role = profile[q].role
             /\ [profile[q] EXCEPT !.isDefault = FALSE].member = profile[q].member
             /\ [profile[q] EXCEPT !.isDefault = FALSE].erased = profile[q].erased
             /\ ~[profile[q] EXCEPT !.isDefault = FALSE].isDefault
  <2>1. PICK x \in ProfileRow : x = profile[q]
    BY <1>6
  <2>2. QED
    BY <2>1 DEF ProfileRow
<1>8. ASSUME NEW q \in Profile \ {p}, q \notin Used
      PROVE  profile'[q] = None
  BY <1>4, <1>8 DEF Used, Unused
<1>9. ASSUME NEW q \in Used \ {p}
      PROVE  /\ profile'[q] \in ProfileRow
             /\ Same(q)
             /\ profile'[q].isDefault <=> profile[q].isDefault /\ q \notin demoted
  <2>1. q \in Profile \ {p} /\ profile[q] \in ProfileRow /\ profile[q] # None
    BY <1>6, <1>9 DEF Used, Unused
  <2>2. CASE q \in demoted
    <3>1. profile'[q] = [profile[q] EXCEPT !.isDefault = FALSE]
      BY <1>4, <2>1, <2>2
    <3>2. QED
      BY <1>7, <2>1, <2>2, <3>1 DEF Same
  <2>3. CASE q \notin demoted
    <3>1. profile'[q] = profile[q]
      BY <1>4, <2>1, <2>3
    <3>2. QED
      BY <2>1, <2>3, <3>1 DEF Same
  <2>4. QED
    BY <2>2, <2>3
<1>10. profile' \in [Profile -> ProfileRow \cup {None}]
  <2>1. profile' = [q \in Profile |-> profile'[q]]
    BY DEF Ensured
  <2>2. \A q \in Profile : profile'[q] \in ProfileRow \cup {None}
    BY <1>5, <1>8, <1>9
  <2>3. QED
    BY <2>1, <2>2
<1>11. Used' = Used \cup {p}
  BY <1>5, <1>8, <1>9 DEF Used, Unused, Same
<1>12. /\ profile'[p].user = u /\ profile'[p].role = c /\ profile'[p].member = m
       /\ profile'[p].isDefault <=> d
       /\ profile'[p].erased <=> e
  BY <1>3
<1>13. QED
  BY <1>1, <1>2, <1>9, <1>10, <1>11, <1>12 DEF Ensures

----------------------------------------------------------------------------
(* What a step of one request leaves to the others *)

\* Profiles keep their user and role, and no row of user_roles is deleted.
RowsKept ==
    /\ \A p \in Used : /\ profile'[p] # None
                       /\ profile'[p].user = profile[p].user
                       /\ profile'[p].role = profile[p].role
    /\ \A u \in User, c \in Role : grant[u][c] # "none" => grant'[u][c] # "none"

\* Whatever is written without overtaking request s, or the rows W that make it stale,
\* is nothing that s relies on.
Frame(s, W) ==
    LET q == request[s] IN
    /\ request'[s] = request[s]
    /\ overtaken[s] => overtaken'[s]
    /\ stale'[s] <=> stale[s] \/ W \cap Writes(q) # {}
    /\ \A m \in Member : member'[m] = member[m] \/ m \in W \/ member[m] = Absent
    /\ \A p \in Used : profile'[p].member = profile[p].member \/ p \in W
    /\ Locking(s) => user'[q.user] = "present"
    /\ At(s, "ensure") =>
          /\ \A p \in Used' :
                /\ profile'[p].user = q.user /\ profile'[p].role = q.role
                /\ profile'[p].member = None /\ ~profile'[p].erased
                => p \in RoleOnly(q.user, q.role)
          /\ \A p \in Used' :
                profile'[p].user = q.user /\ profile'[p].isDefault /\ ~overtaken'[s]
                => /\ p \in Defaults(q.user)
                   /\ grant'[q.user][profile[p].role] = "held" => Held(q.user, profile[p].role)
    /\ At(s, "lead") /\ q.demoted # {} /\ ~overtaken'[s] =>
          \A c \in Role \ {LeadRole} : grant'[q.user][c] = "held" => Held(q.user, c)
    /\ At(s, "drop") =>
          /\ member'[q.member] # Absent
          /\ ~overtaken'[s] =>
                \A p \in Used' : profile'[p].member = q.member => p \in LinkedTo(q.member)

LEMMA StaleKept ==
    ASSUME TypeOK, NEW s \in Request, Sound(s), NEW W, Frame(s, W), ~stale'[s],
           request[s].pc \in {"lead", "link"}
    PROVE  /\ ~stale[s]
           /\ member'[request[s].member] = member[request[s].member]
           /\ At(s, "lead") /\ request[s].found # None =>
                 profile'[request[s].found].member = profile[request[s].found].member
           /\ At(s, "link") /\ request[s].profile # None =>
                 profile'[request[s].profile].member = profile[request[s].profile].member
<1>1. ~stale[s] /\ W \cap Writes(request[s]) = {}
  BY DEF Frame
<1>2. CASE At(s, "lead")
  <2>1. request[s].member \in Member /\ request[s].user \in User /\ request[s].pc = "lead"
    BY <1>2, Shapes DEF At
  <2>2. request[s].member \notin W /\ request[s].found \notin W
    BY <1>1, <2>1 DEF Writes, LeadWrites
  <2>3. /\ member[request[s].member] = request[s].user
        /\ request[s].found # None => request[s].found \in Used
    BY <1>1, <1>2 DEF Sound, SoundLead, IsOf
  <2>4. QED
    BY <1>1, <1>2, <2>1, <2>2, <2>3 DEF Frame, At
<1>3. CASE At(s, "link")
  <2>1. request[s].member \in Member /\ request[s].user \in User /\ request[s].pc = "link"
    BY <1>3, Shapes DEF At
  <2>2. request[s].member \notin W /\ request[s].profile \notin W
    BY <1>1, <2>1 DEF Writes, LinkWrites
  <2>3. /\ member[request[s].member] \in {None, request[s].user}
        /\ request[s].profile # None => request[s].profile \in Used
    BY <1>1, <1>3 DEF Sound, SoundLink, ProfilesOf, Used
  <2>4. QED
    BY <1>1, <1>3, <2>1, <2>2, <2>3 DEF Frame, At
<1>4. QED
  BY <1>2, <1>3 DEF At

LEMMA UsedKept ==
    ASSUME RowsKept
    PROVE  Used \subseteq Used'
BY DEF RowsKept, Used, Unused

LEMMA ProfilesOfKept ==
    ASSUME RowsKept, NEW u
    PROVE  ProfilesOf(u) \subseteq ProfilesOf(u)'
BY DEF RowsKept, ProfilesOf, Used, Unused

LEMMA FrameSound ==
    ASSUME TypeOK, RowsKept, NEW s \in Request, Sound(s), NEW W, Frame(s, W)
    PROVE  Sound(s)'
<1> DEFINE q == request[s]
<1>1. request'[s] = request[s]
  BY DEF Frame
<1>2. SoundLock(s)'
  BY <1>1, Shapes DEF Sound, SoundLock, Locking, Present, Frame, RowsKept, At
<1>3. SoundEnsure(s)'
  <2> SUFFICES ASSUME At(s, "ensure")
               PROVE  SoundEnsure(s)'
    BY <1>1 DEF SoundEnsure, At
  <2>1. PICK u, c : u = q.user /\ c = q.role /\ u \in User /\ c \in Role
    BY Shapes
  <2>2. q.found # None => IsOf(q.found, u, c)'
    BY <2>1, <1>1, UsedKept DEF Sound, SoundEnsure, IsOf, RowsKept
  <2>3. q.found = None => RoleOnly(u, c)' = {}
    <3>1. q.found = None => RoleOnly(u, c) = {}
      BY <2>1 DEF Sound, SoundEnsure
    <3>2. RoleOnly(u, c)' \subseteq RoleOnly(u, c)
      BY <2>1 DEF Frame, RoleOnly, Matching, ProfilesOf, Used
    <3>3. QED
      BY <3>1, <3>2
  <2>4. q.keep => ProfilesOf(u)' # {}
    BY <2>1, ProfilesOfKept DEF Sound, SoundEnsure
  <2>5. ~q.keep /\ ~overtaken'[s] => \A p \in Defaults(u)' : ~Held(u, profile[p].role)'
    <3> SUFFICES ASSUME ~q.keep, ~overtaken'[s], NEW p \in Defaults(u)'
                 PROVE  grant'[u][profile'[p].role] # "held"
      BY DEF Held
    <3>1. p \in Used' /\ profile'[p].user = u /\ profile'[p].isDefault
      BY DEF Defaults, ProfilesOf, Used
    <3>2. /\ p \in Defaults(u)
          /\ grant'[u][profile[p].role] = "held" => Held(u, profile[p].role)
      BY <2>1, <3>1 DEF Frame
    <3>3. ~Held(u, profile[p].role)
      BY <2>1, <3>2 DEF Sound, SoundEnsure, Frame
    <3>4. profile'[p].role = profile[p].role
      BY <3>2 DEF RowsKept, Defaults, ProfilesOf, Used
    <3>5. QED
      BY <3>2, <3>3, <3>4
  <2>6. QED
    BY <1>1, <2>1, <2>2, <2>3, <2>4, <2>5 DEF SoundEnsure
<1>4. SoundLead(s)'
  <2> SUFFICES ASSUME At(s, "lead")
               PROVE  SoundLead(s)'
    BY <1>1 DEF SoundLead, At
  <2>1. PICK u : u = q.user /\ u \in User
    BY Shapes
  <2>2. /\ ~q.fresh => grant'[u][LeadRole] # "none"
        /\ q.found # None => IsOf(q.found, u, LeadRole)'
    BY <1>1, <2>1, UsedKept DEF Sound, SoundLead, IsOf, RowsKept
  <2>3. q.keep => ProfilesOf(u)' # {} /\ q.demoted = {}
    BY <2>1, ProfilesOfKept DEF Sound, SoundLead
  <2>4. ASSUME NEW p \in q.demoted
        PROVE  /\ p \in ProfilesOf(u)'
               /\ profile'[p].role # LeadRole
               /\ ~overtaken'[s] => grant'[u][profile'[p].role] # "held"
    <3>1. /\ p \in ProfilesOf(u) /\ profile[p].role # LeadRole
          /\ ~overtaken[s] => ~Held(u, profile[p].role)
      BY <2>1 DEF Sound, SoundLead
    <3>2. p \in Used /\ profile[p].role \in Role
      BY <3>1 DEF ProfilesOf, Used, Unused, TypeOK, ProfileRow
    <3>3. profile'[p].role = profile[p].role
      BY <3>2 DEF RowsKept
    <3>4. QED
      BY <2>1, <3>1, <3>2, <3>3, ProfilesOfKept DEF Frame
  <2>5. ~stale'[s] => /\ member'[q.member] = u
                      /\ q.found # None => profile'[q.found].member \in {None, q.member}
    BY <2>1, StaleKept DEF Sound, SoundLead, At
  <2>6. QED
    BY <1>1, <2>1, <2>2, <2>3, <2>4, <2>5 DEF SoundLead, Held
<1>5. SoundLink(s)'
  <2> SUFFICES ASSUME At(s, "link")
               PROVE  SoundLink(s)'
    BY <1>1 DEF SoundLink, At
  <2>1. PICK u : u = q.user
    OBVIOUS
  <2>2. q.profile # None => q.profile \in ProfilesOf(u)'
    BY <2>1, ProfilesOfKept DEF Sound, SoundLink
  <2>3. ~stale'[s] => /\ member'[q.member] \in {None, u}
                      /\ q.profile # None => profile'[q.profile].member \in {None, q.member}
    BY <2>1, StaleKept DEF Sound, SoundLink, At
  <2>4. QED
    BY <1>1, <2>1, <2>2, <2>3 DEF SoundLink
<1>6. SoundChoose(s)'
  <2> SUFFICES ASSUME At(s, "choose")
               PROVE  SoundChoose(s)'
    BY <1>1 DEF SoundChoose, At
  <2>1. q.profile \in Used /\ q.demoted \subseteq ProfilesOf(profile[q.profile].user)
    BY DEF Sound, SoundChoose
  <2>2. PICK u : u = profile[q.profile].user
    OBVIOUS
  <2>3. profile'[q.profile].user = u /\ q.profile \in Used'
    BY <2>1, <2>2, UsedKept DEF RowsKept
  <2>4. q.demoted \subseteq ProfilesOf(u)'
    BY <2>1, <2>2, ProfilesOfKept
  <2>5. QED
    BY <1>1, <2>3, <2>4 DEF SoundChoose
<1>7. SoundDrop(s)'
  <2> SUFFICES ASSUME At(s, "drop")
               PROVE  SoundDrop(s)'
    BY <1>1 DEF SoundDrop, At
  <2>1. PICK m : m = q.member
    OBVIOUS
  <2>2. ~overtaken'[s] => LinkedTo(m)' \subseteq LinkedTo(m)
    BY <2>1 DEF Frame, LinkedTo, Used
  <2>3. ~overtaken'[s] => LinkedTo(m)' = {}
    BY <2>1, <2>2 DEF Sound, SoundDrop, Frame
  <2>4. member'[m] # Absent
    BY <2>1 DEF Frame
  <2>5. QED
    BY <1>1, <2>1, <2>3, <2>4 DEF SoundDrop
<1>8. QED
  BY <1>2, <1>3, <1>4, <1>5, <1>6, <1>7 DEF Sound

----------------------------------------------------------------------------
(* What a step has to show *)

LEMMA CommitKeeps ==
    ASSUME AccessInv, NEW r \in Request, NEW W, TypeOK', RowsInv', RowsKept,
           request'[r] = Idle, \A s \in Request \ {r} : Frame(s, W)
    PROVE  AccessInv'
<1>1. \A s \in Request \ {r} : Sound(s)'
  BY FrameSound DEF AccessInv
<1>2. Sound(r)'
  BY IdleIsPending DEF Sound, SoundLock, SoundEnsure, SoundLead, SoundLink, SoundChoose, SoundDrop,
     Locking, At
<1>3. LockIsExclusive'
  BY IdleIsPending DEF AccessInv, LockIsExclusive, Locking, Frame
<1>4. QED
  BY <1>1, <1>2, <1>3 DEF AccessInv

LEMMA CommitAloneKeeps ==
    ASSUME AccessInv, NEW W, TypeOK', RowsInv', RowsKept, \A s \in Request : Frame(s, W)
    PROVE  AccessInv'
<1>1. \A s \in Request : Sound(s)'
  BY FrameSound DEF AccessInv
<1>2. LockIsExclusive'
  BY DEF AccessInv, LockIsExclusive, Locking, Frame
<1>3. QED
  BY <1>1, <1>2 DEF AccessInv

\* What was so of the rows stays so while nothing of them changes.
LEMMA ReadKeeps ==
    ASSUME TypeOK, RowsInv, UNCHANGED rows, Books
    PROVE  TypeOK' /\ RowsInv' /\ RowsKept
<1>1. TypeOK'
  BY DEF TypeOK, rows, Books
<1>2. RowsInv'
  BY DEF RowsInv, rows, ProfileFollowsMember, GrantHasProfile, LeadHasProfile, Backed, HasDefault,
     UniqueDefault, OneRoleOnly, RoleOnly, Used, Unused, ProfilesOf, Defaults, Matching, LinkedTo,
     Held
<1>3. RowsKept
  BY DEF RowsKept, rows, Used, Unused, TypeOK
<1>4. QED
  BY <1>1, <1>2, <1>3

LEMMA ReadFrames ==
    ASSUME TypeOK, UNCHANGED rows, NEW s \in Request, Sound(s), request'[s] = request[s],
           overtaken'[s] = overtaken[s], stale'[s] = stale[s]
    PROVE  Frame(s, {})
<1>1. SoundLock(s) /\ SoundDrop(s)
  BY DEF Sound
<1>2. At(s, "drop") => member[request[s].member] # Absent
  BY <1>1 DEF SoundDrop
<1>3. Locking(s) => user[request[s].user] = "present"
  BY <1>1 DEF SoundLock, Present
<1>4. QED
  BY <1>2, <1>3 DEF Frame, rows, Used, Unused, RoleOnly, Matching, ProfilesOf, Defaults, LinkedTo,
     Held

LEMMA BeginKeeps ==
    ASSUME AccessInv, NEW r \in Request, NEW q \in Pending, Begin(r, q), UNCHANGED rows, Sound(r)',
           q.pc \in {"find", "ensure"} =>
               \A s \in Request \ {r} : Locking(s) => request[s].user # q.user
    PROVE  AccessInv'
<1>1. /\ Books
      /\ request'[r] = q
      /\ \A s \in Request \ {r} : request'[s] = request[s]
      /\ UNCHANGED <<stale, overtaken>>
  BY Begins DEF AccessInv
<1>2. TypeOK' /\ RowsInv' /\ RowsKept
  BY <1>1, ReadKeeps DEF AccessInv
<1>3. \A s \in Request \ {r} : Frame(s, {})
  BY <1>1, ReadFrames DEF AccessInv
<1>4. \A s \in Request \ {r} : Sound(s)'
  BY <1>2, <1>3, FrameSound DEF AccessInv
<1>5. LockIsExclusive'
  BY <1>1 DEF AccessInv, LockIsExclusive, Locking
<1>6. QED
  BY <1>2, <1>4, <1>5 DEF AccessInv

LEMMA InitKeeps ==
    ASSUME Init
    PROVE  AccessInv
<1>1. TypeOK
  BY IdleIsPending DEF Init, TypeOK
<1>2. Unused = Profile
  BY DEF Init, Unused
<1>3. RowsInv
  BY <1>2 DEF Init, RowsInv, ProfileFollowsMember, GrantHasProfile, LeadHasProfile, Backed,
     HasDefault, UniqueDefault, OneRoleOnly, RoleOnly, Used, ProfilesOf, Matching, Held
<1>4. \A r \in Request : request[r].pc = "idle"
  BY IdleIsPending DEF Init
<1>5. LockIsExclusive /\ \A r \in Request : Sound(r)
  BY <1>4 DEF LockIsExclusive, Locking, Sound, SoundLock, SoundEnsure, SoundLead, SoundLink,
     SoundChoose, SoundDrop, At
<1>6. QED
  BY <1>1, <1>3, <1>5 DEF AccessInv

----------------------------------------------------------------------------
(* Steps that read *)

LEMMA FailKeeps ==
    ASSUME AccessInv, NEW r \in Request, Fail(r)
    PROVE  AccessInv'
<1>1. /\ Books
      /\ request'[r] = Idle
      /\ \A s \in Request \ {r} :
            /\ request'[s] = request[s]
            /\ stale'[s] <=> stale[s] \/ {} \cap Writes(request[s]) # {}
            /\ overtaken'[s] <=> overtaken[s] \/ s \in {}
  BY Commits DEF Fail, AccessInv
<1>2. UNCHANGED rows
  BY DEF Fail
<1>3. TypeOK' /\ RowsInv' /\ RowsKept
  BY <1>1, <1>2, ReadKeeps DEF AccessInv
<1>4. \A s \in Request \ {r} : overtaken'[s] = overtaken[s] /\ stale'[s] = stale[s]
  BY <1>1 DEF AccessInv, TypeOK, Books
<1>5. \A s \in Request \ {r} : Frame(s, {})
  BY <1>1, <1>2, <1>4, ReadFrames DEF AccessInv
<1>6. QED
  BY <1>1, <1>3, <1>5, CommitKeeps

LEMMA LockUserKeeps ==
    ASSUME AccessInv, NEW r \in Request, NEW u \in User, NEW c \in Role, LockUser(r, u, c)
    PROVE  AccessInv'
<1>1. PICK f \in BOOLEAN : f <=> ~Held(u, c)
  OBVIOUS
<1> DEFINE q == [pc |-> "find", user |-> u, role |-> c, fresh |-> f]
<1>2. q \in Pending /\ q.pc = "find" /\ q.user = u /\ q.role = c /\ q.fresh = f
  BY DEF Pending
<1>3. Begin(r, q) /\ UNCHANGED rows
  <2>1. f = ~Held(u, c)
    BY <1>1 DEF Held
  <2>2. QED
    BY <2>1 DEF LockUser
<1>4. request'[r] = q
  BY <1>2, <1>3, Begins DEF AccessInv
<1>5. user[u] = "present" /\ (~f => grant[u][c] # "none")
  BY <1>1 DEF LockUser, Present, Held
<1>6. Sound(r)'
  <2>1. SoundLock(r)'
    BY <1>2, <1>3, <1>4, <1>5 DEF SoundLock, Present, rows
  <2>2. QED
    BY <1>2, <1>4, <2>1 DEF Sound, SoundEnsure, SoundLead, SoundLink, SoundChoose, SoundDrop, At
<1>7. \A s \in Request \ {r} : Locking(s) => request[s].user # u
  BY DEF LockUser, Unlocked, Locking
<1>8. QED
  BY <1>2, <1>3, <1>6, <1>7, BeginKeeps

LEMMA FindProfileKeeps ==
    ASSUME AccessInv, NEW r \in Request, FindProfile(r)
    PROVE  AccessInv'
<1>1. PICK u \in User, c \in Role, f \in BOOLEAN :
          At(r, "find") /\ request[r].user = u /\ request[r].role = c /\ request[r].fresh = f
  BY Shapes DEF FindProfile, AccessInv
<1>2. PICK k \in BOOLEAN : k = ValidDefault(u, c, f)
  BY DEF ValidDefault
<1>3. PICK p \in Found(Matching(u, c, {None})) :
          Begin(r, [pc |-> "ensure", user |-> u, role |-> c, fresh |-> f, found |-> p, keep |-> k])
  BY <1>1, <1>2 DEF FindProfile
<1> DEFINE q == [pc |-> "ensure", user |-> u, role |-> c, fresh |-> f, found |-> p, keep |-> k]
<1>4. /\ p # None => p \in Matching(u, c, {None})
      /\ p = None => Matching(u, c, {None}) = {}
      /\ p \in Profile \cup {None}
  BY DEF Found, Matching, ProfilesOf
<1>5. /\ q \in Pending /\ q.pc = "ensure" /\ q.user = u /\ q.role = c /\ q.fresh = f
      /\ q.found = p /\ q.keep = k
  BY <1>4 DEF Pending
<1>6. request'[r] = q /\ UNCHANGED rows
  BY <1>3, <1>5, Begins DEF AccessInv, FindProfile
<1>7. user[u] = "present" /\ (~f => grant[u][c] # "none")
  BY <1>1 DEF AccessInv, Sound, SoundLock, Locking, Present, At
<1>8. SoundLock(r)'
  BY <1>5, <1>6, <1>7 DEF SoundLock, Present, rows
<1>9. SoundEnsure(r)'
  <2>1. p # None => IsOf(p, u, c)
    BY <1>4 DEF IsOf, Matching, ProfilesOf, Used
  <2>2. p = None => RoleOnly(u, c) = {}
    BY <1>4 DEF RoleOnly
  <2>3. k => ProfilesOf(u) # {}
    BY <1>2 DEF ValidDefault, Defaults
  <2>4. ~k => \A d \in Defaults(u) : ~Held(u, profile[d].role)
    BY <1>2 DEF ValidDefault
  <2>5. QED
    BY <1>5, <1>6, <2>1, <2>2, <2>3, <2>4 DEF SoundEnsure, IsOf, RoleOnly, Matching, ProfilesOf,
       Used, Unused, Defaults, Held, rows
<1>10. Sound(r)'
  BY <1>5, <1>6, <1>8, <1>9 DEF Sound, SoundLead, SoundLink, SoundChoose, SoundDrop, At
<1>11. \A s \in Request \ {r} : Locking(s) => request[s].user # u
  BY <1>1 DEF AccessInv, LockIsExclusive, Locking, At
<1>12. QED
  BY <1>3, <1>5, <1>6, <1>10, <1>11, BeginKeeps

LEMMA BeginLeadKeeps ==
    ASSUME AccessInv, NEW r \in Request, NEW m \in Member, BeginLead(r, m)
    PROVE  AccessInv'
<1>1. PICK u \in User, f \in BOOLEAN : u = member[m] /\ f = ~Held(u, LeadRole)
  BY DEF BeginLead, Held
<1>2. PICK k \in BOOLEAN : k = ValidDefault(u, LeadRole, f)
  BY DEF ValidDefault
<1>3. PICK D : D = IF k THEN {} ELSE Defaults(u)
  OBVIOUS
<1>4. PICK p \in Found(Matching(u, LeadRole, {None, m})) :
          Begin(r, [pc |-> "lead", user |-> u, member |-> m, fresh |-> f, keep |-> k,
                    found |-> p, demoted |-> D])
  BY <1>1, <1>2, <1>3 DEF BeginLead
<1> DEFINE q == [pc |-> "lead", user |-> u, member |-> m, fresh |-> f, keep |-> k,
                 found |-> p, demoted |-> D]
<1>5. p \in Profile \cup {None} /\ D \in SUBSET Profile
  BY <1>3 DEF Found, Matching, ProfilesOf, Defaults
<1>6. /\ q \in Pending /\ q.pc = "lead" /\ q.user = u /\ q.member = m /\ q.fresh = f
      /\ q.keep = k /\ q.found = p /\ q.demoted = D
  BY <1>5 DEF Pending
<1>7. request'[r] = q /\ UNCHANGED rows
  BY <1>4, <1>6, Begins DEF AccessInv, BeginLead
<1>8. SoundLead(r)'
  <2>1. ~f => grant[u][LeadRole] # "none"
    BY <1>1 DEF Held
  <2>2. p # None => IsOf(p, u, LeadRole) /\ profile[p].member \in {None, m}
    BY DEF Found, IsOf, Matching, ProfilesOf, Used
  <2>3. k => ProfilesOf(u) # {} /\ D = {}
    BY <1>2, <1>3 DEF ValidDefault, Defaults
  <2>4. ASSUME NEW d \in D
        PROVE  d \in ProfilesOf(u) /\ profile[d].role # LeadRole /\ ~Held(u, profile[d].role)
    <3>1. d \in Defaults(u) /\ ~k
      BY <1>3
    <3>2. ~Held(u, profile[d].role) /\ ~(f /\ profile[d].role = LeadRole)
      BY <1>2, <3>1 DEF ValidDefault
    <3>3. QED
      BY <1>1, <3>1, <3>2 DEF Defaults
  <2>5. QED
    BY <1>1, <1>6, <1>7, <2>1, <2>2, <2>3, <2>4 DEF SoundLead, IsOf, ProfilesOf, Used, Unused,
       Held, rows
<1>9. Sound(r)'
  BY <1>6, <1>7, <1>8 DEF Sound, SoundLock, SoundEnsure, SoundLink, SoundChoose, SoundDrop,
     Locking, At
<1>10. QED
  BY <1>4, <1>6, <1>7, <1>9, BeginKeeps

LEMMA BeginLinkKeeps ==
    ASSUME AccessInv, NEW r \in Request, NEW m \in Member, NEW u \in User,
           NEW p \in Profile \cup {None}, BeginLink(r, m, u, p)
    PROVE  AccessInv'
<1> DEFINE q == [pc |-> "link", user |-> u, member |-> m, profile |-> p]
<1>1. q \in Pending /\ q.pc = "link" /\ q.user = u /\ q.member = m /\ q.profile = p
  BY DEF Pending
<1>2. Begin(r, q) /\ UNCHANGED rows
  BY DEF BeginLink
<1>3. request'[r] = q
  BY <1>1, <1>2, Begins DEF AccessInv
<1>4. SoundLink(r)'
  BY <1>1, <1>2, <1>3 DEF BeginLink, Linkable, SoundLink, ProfilesOf, Unused, rows
<1>5. Sound(r)'
  BY <1>1, <1>3, <1>4 DEF Sound, SoundLock, SoundEnsure, SoundLead, SoundChoose, SoundDrop,
     Locking, At
<1>6. QED
  BY <1>1, <1>2, <1>5, BeginKeeps

LEMMA CheckDropKeeps ==
    ASSUME AccessInv, NEW r \in Request, NEW m \in Member, CheckDrop(r, m)
    PROVE  AccessInv'
<1> DEFINE q == [pc |-> "drop", member |-> m]
<1>1. q \in Pending /\ q.pc = "drop" /\ q.member = m
  BY DEF Pending
<1>2. Begin(r, q) /\ UNCHANGED rows
  BY DEF CheckDrop
<1>3. request'[r] = q
  BY <1>1, <1>2, Begins DEF AccessInv
<1>4. SoundDrop(r)'
  BY <1>1, <1>2, <1>3 DEF CheckDrop, Exists, Blocked, SoundDrop, LinkedTo, Unused, rows
<1>5. Sound(r)'
  BY <1>1, <1>3, <1>4 DEF Sound, SoundLock, SoundEnsure, SoundLead, SoundLink, SoundChoose,
     Locking, At
<1>6. QED
  BY <1>1, <1>2, <1>5, BeginKeeps

LEMMA BeginChooseKeeps ==
    ASSUME AccessInv, NEW r \in Request, NEW p \in Profile, BeginChoose(r, p)
    PROVE  AccessInv'
<1>1. PICK D : D = Defaults(profile[p].user) \ {p}
  OBVIOUS
<1> DEFINE q == [pc |-> "choose", profile |-> p, demoted |-> D]
<1>2. q \in Pending /\ q.pc = "choose" /\ q.profile = p /\ q.demoted = D
  BY <1>1 DEF Pending, Defaults, ProfilesOf
<1>3. Begin(r, q) /\ UNCHANGED rows
  BY <1>1 DEF BeginChoose
<1>4. request'[r] = q
  BY <1>2, <1>3, Begins DEF AccessInv
<1>5. SoundChoose(r)'
  BY <1>1, <1>2, <1>3, <1>4 DEF BeginChoose, SoundChoose, Defaults, ProfilesOf, Used, Unused, rows
<1>6. Sound(r)'
  BY <1>2, <1>4, <1>5 DEF Sound, SoundLock, SoundEnsure, SoundLead, SoundLink, SoundDrop,
     Locking, At
<1>7. QED
  BY <1>2, <1>3, <1>6, BeginKeeps

----------------------------------------------------------------------------
(* Steps that grant a role and bind a profile to it *)

\* What such a step may rely on, be it an assignment, a lead assignment or an
\* onboarding.
Grants(u, c, m, p, keep, demoted, fresh) ==
    /\ Ensures(u, c, m, p, keep, demoted)
    /\ grant' = Granted(u, c, fresh)
    /\ ~fresh => grant[u][c] # "none"
    /\ p \in Used => IsOf(p, u, c) /\ profile[p].member \in {None, m}
    /\ demoted \subseteq ProfilesOf(u)
    /\ keep => ProfilesOf(u) # {} /\ demoted = {}
    /\ m = None /\ ~profile'[p].erased => RoleOnly(u, c) \subseteq {p}
    /\ m # None => member'[m] = u
    /\ \A x \in Member : /\ member[x] \in User => member'[x] = member[x]
                         /\ member[x] # Absent => member'[x] # Absent
    /\ user'[u] = "present"
    /\ \A v \in User \ {u} : user'[v] = user[v]
    /\ led' = led \/ (m # None /\ c = LeadRole /\ led' = led \cup {m})

LEMMA GrantedDoes ==
    ASSUME TypeOK, NEW u \in User, NEW c \in Role, NEW fresh \in BOOLEAN,
           grant' = Granted(u, c, fresh)
    PROVE  /\ grant' \in [User -> [Role -> {"none", "held", "revoked"}]]
           /\ fresh => grant'[u][c] = "held"
           /\ \A v \in User, d \in Role :
                 (v # u \/ d # c \/ ~fresh) => grant'[v][d] = grant[v][d]
BY DEF TypeOK, Granted

\* A profile is used as its type says.
LEMMA UsedShape ==
    ASSUME TypeOK, NEW p \in Used
    PROVE  /\ profile[p].user \in User
           /\ profile[p].role \in Role
           /\ profile[p].member \in Member \cup {None}
           /\ p \in Profile
BY DEF TypeOK, Used, Unused, ProfileRow

LEMMA GrantsRows ==
    ASSUME TypeOK, RowsInv, NEW u \in User, NEW c \in Role, NEW m \in Member \cup {None},
           NEW p \in Profile, NEW keep \in BOOLEAN, NEW demoted, NEW fresh \in BOOLEAN,
           Grants(u, c, m, p, keep, demoted, fresh), UniqueDefault(profile')
    PROVE  RowsInv' /\ RowsKept
<1>1. /\ Used' = Used \cup {p}
      /\ profile'[p].user = u /\ profile'[p].role = c /\ profile'[p].member = m
      /\ profile'[p].isDefault <=> ~keep \/ p \in Defaults(u)
      /\ profile'[p].erased <=> p \in Used /\ profile[p].erased
      /\ \A q \in Used \ {p} : /\ Same(q)
                               /\ profile'[q].isDefault <=> profile[q].isDefault /\ q \notin demoted
  BY DEF Grants, Ensures
<1>2. p \in Used => IsOf(p, u, c) /\ profile[p].member \in {None, m}
  BY DEF Grants
<1>3. /\ grant' \in [User -> [Role -> {"none", "held", "revoked"}]]
      /\ fresh => grant'[u][c] = "held"
      /\ \A v \in User, d \in Role : (v # u \/ d # c \/ ~fresh) => grant'[v][d] = grant[v][d]
  BY GrantedDoes DEF Grants
<1>4. \A q \in Used : /\ q \in Used'
                      /\ profile'[q].user = profile[q].user
                      /\ profile'[q].role = profile[q].role
                      /\ profile[q].member # None => profile'[q].member = profile[q].member
  BY <1>1, <1>2 DEF IsOf, Same
<1>5. ProfileFollowsMember'
  <2> SUFFICES ASSUME NEW q \in Used', profile'[q].member # None
               PROVE  member'[profile'[q].member] = profile'[q].user
    BY DEF ProfileFollowsMember, Used
  <2>1. CASE q = p
    BY <1>1, <2>1 DEF Grants
  <2>2. CASE q # p
    <3>1. q \in Used /\ Same(q)
      BY <1>1, <2>2
    <3>2. member[profile[q].member] = profile[q].user /\ profile[q].member \in Member
      BY <3>1, UsedShape DEF Same, RowsInv, ProfileFollowsMember, Used
    <3>3. member'[profile[q].member] = profile[q].user
      BY <3>1, <3>2, UsedShape DEF Grants
    <3>4. QED
      BY <3>1, <3>3 DEF Same
  <2>3. QED
    BY <2>1, <2>2
<1>6. GrantHasProfile'
  <2> SUFFICES ASSUME NEW v \in User, NEW d \in Role, grant'[v][d] = "held"
               PROVE  \E q \in Used' : profile'[q].user = v /\ profile'[q].role = d
    BY DEF GrantHasProfile, Held, ProfilesOf, Used
  <2>1. CASE v = u /\ d = c
    BY <1>1, <2>1
  <2>2. CASE v # u \/ d # c
    <3>1. Held(v, d)
      BY <1>3, <2>2 DEF Held
    <3>2. PICK q \in Used : profile[q].user = v /\ profile[q].role = d
      BY <3>1 DEF RowsInv, GrantHasProfile, ProfilesOf, Used
    <3>3. QED
      BY <1>4, <3>2
  <2>3. QED
    BY <2>1, <2>2
<1>7. LeadHasProfile'
  <2> SUFFICES ASSUME NEW x \in led'
               PROVE  \E q \in Used' : /\ profile'[q].member = x
                                       /\ profile'[q].role = LeadRole
                                       /\ profile'[q].user = member'[x]
    BY DEF LeadHasProfile, LinkedTo, Used
  <2>1. CASE x \in led
    <3>1. PICK q \in Used : profile[q].member = x /\ profile[q].role = LeadRole
                            /\ profile[q].user = member[x]
      BY <2>1 DEF RowsInv, LeadHasProfile, LinkedTo, Used
    <3>2. x \in Member /\ x # None /\ member'[x] = member[x]
      BY <2>1, <3>1, UsedShape DEF TypeOK, Grants
    <3>3. QED
      BY <1>4, <3>1, <3>2
  <2>2. CASE x \notin led
    BY <1>1, <2>2 DEF Grants
  <2>3. QED
    BY <2>1, <2>2
<1>8. \A v \in User, d \in Role : grant[v][d] # "none" => grant'[v][d] # "none"
  BY <1>3
<1>9. Backed'
  <2> SUFFICES ASSUME NEW q \in Used'
               PROVE  /\ grant'[profile'[q].user][profile'[q].role] # "none"
                      /\ user'[profile'[q].user] # "absent"
    BY DEF Backed
  <2>1. CASE q = p
    <3>1. grant'[u][c] # "none"
      BY <1>3, <1>8 DEF Grants
    <3>2. QED
      BY <1>1, <2>1, <3>1 DEF Grants
  <2>2. CASE q # p
    <3>1. q \in Used /\ Same(q)
      BY <1>1, <2>2
    <3>2. grant[profile[q].user][profile[q].role] # "none" /\ user[profile[q].user] # "absent"
      BY <3>1 DEF RowsInv, Backed
    <3>3. QED
      BY <1>8, <3>1, <3>2, UsedShape DEF Same, Grants
  <2>3. QED
    BY <2>1, <2>2
<1>10. HasDefault'
  <2> SUFFICES ASSUME NEW v \in User, NEW o \in Used', profile'[o].user = v
               PROVE  \E q \in Used' : profile'[q].user = v /\ profile'[q].isDefault
    BY DEF HasDefault, ProfilesOf, Defaults, Used
  <2>1. CASE v = u /\ ~keep
    BY <1>1, <2>1
  <2>2. CASE v # u \/ keep
    <3>1. ProfilesOf(v) # {}
      <4>1. CASE v # u
        BY <1>1, <4>1 DEF Same, ProfilesOf, Used
      <4>2. CASE v = u
        BY <2>2, <4>2 DEF Grants
      <4>3. QED
        BY <4>1, <4>2
    <3>2. PICK q \in Used : profile[q].user = v /\ profile[q].isDefault
      BY <3>1 DEF RowsInv, HasDefault, Defaults, ProfilesOf, Used
    <3>3. q \notin demoted
      BY <2>2, <3>2 DEF Grants, ProfilesOf
    <3>4. CASE q = p
      <4>1. p \in Defaults(u)
        BY <1>2, <3>2, <3>4 DEF IsOf, Defaults, ProfilesOf, Used
      <4>2. QED
        BY <1>1, <1>2, <3>2, <3>4, <4>1 DEF IsOf
    <3>5. CASE q # p
      BY <1>1, <1>4, <3>2, <3>3, <3>5
    <3>6. QED
      BY <3>4, <3>5
  <2>3. QED
    BY <2>1, <2>2
<1>11. UniqueDefault(profile)'
  BY DEF UniqueDefault
<1>12. OneRoleOnly'
  <2> SUFFICES ASSUME NEW v \in User, NEW d \in Role, NEW x \in RoleOnly(v, d)',
                      NEW y \in RoleOnly(v, d)'
               PROVE  x = y
    BY DEF OneRoleOnly
  <2>1. ASSUME NEW z \in RoleOnly(v, d)', z # p
        PROVE  z \in RoleOnly(v, d)
    BY <1>1, <2>1 DEF RoleOnly, Matching, ProfilesOf, Used, Same
  <2>2. ASSUME p \in RoleOnly(v, d)'
        PROVE  v = u /\ d = c /\ m = None /\ RoleOnly(u, c) \subseteq {p}
    BY <1>1, <2>2 DEF RoleOnly, Matching, ProfilesOf, Used, Grants
  <2>3. \A a, b \in RoleOnly(v, d) : a = b
    BY DEF RowsInv, OneRoleOnly
  <2>4. QED
    BY <2>1, <2>2, <2>3
<1>13. RowsInv'
  BY <1>5, <1>6, <1>7, <1>9, <1>10, <1>11, <1>12 DEF RowsInv
<1>14. RowsKept
  BY <1>4, <1>8 DEF RowsKept, Used, Unused
<1>15. QED
  BY <1>13, <1>14

\* The other requests do not hold the lock of the user; the lead assignments of the user
\* that have passed over a default, and the deletions of the member, are overtaken.
LEMMA GrantsFrame ==
    ASSUME TypeOK, RowsInv, NEW u \in User, NEW c \in Role, NEW m \in Member \cup {None},
           NEW p \in Profile, NEW keep \in BOOLEAN, NEW demoted, NEW fresh \in BOOLEAN,
           Grants(u, c, m, p, keep, demoted, fresh),
           NEW s \in Request, Sound(s), NEW W,
           request'[s] = request[s], overtaken[s] => overtaken'[s],
           stale'[s] <=> stale[s] \/ W \cap Writes(request[s]) # {},
           \A x \in Member : member'[x] = member[x] \/ x \in W \/ member[x] = Absent,
           p \in Used => p \in W,
           Locking(s) => request[s].user # u,
           At(s, "lead") /\ request[s].demoted # {} /\ request[s].user = u /\ fresh
               /\ ~overtaken'[s] => c = LeadRole,
           At(s, "drop") /\ request[s].member = m /\ ~overtaken'[s] => p \in LinkedTo(m)
    PROVE  Frame(s, W)
<1> DEFINE q == request[s]
<1>1. /\ Used' = Used \cup {p}
      /\ profile'[p].user = u /\ profile'[p].role = c /\ profile'[p].member = m
      /\ \A x \in Used \ {p} : /\ Same(x)
                               /\ profile'[x].isDefault <=> profile[x].isDefault /\ x \notin demoted
  BY DEF Grants, Ensures
<1>2. \A v \in User, d \in Role : (v # u \/ d # c \/ ~fresh) => grant'[v][d] = grant[v][d]
  BY GrantedDoes DEF Grants
<1>3. \A x \in Used : profile'[x].member = profile[x].member \/ x \in W
  BY <1>1 DEF Same
<1>4. Locking(s) => user'[q.user] = "present"
  <2>1. Locking(s) => q.user \in User /\ user[q.user] = "present"
    BY Shapes DEF Sound, SoundLock, Present, Locking, At
  <2>2. QED
    BY <2>1 DEF Grants
<1>5. ASSUME At(s, "ensure")
      PROVE  /\ \A x \in Used' :
                   /\ profile'[x].user = q.user /\ profile'[x].role = q.role
                   /\ profile'[x].member = None /\ ~profile'[x].erased
                   => x \in RoleOnly(q.user, q.role)
             /\ \A x \in Used' :
                   profile'[x].user = q.user /\ profile'[x].isDefault /\ ~overtaken'[s]
                   => /\ x \in Defaults(q.user)
                      /\ grant'[q.user][profile[x].role] = "held" => Held(q.user, profile[x].role)
  <2>1. q.user # u /\ q.user \in User
    BY <1>5, Shapes DEF Locking, At
  <2>2. \A x \in Used' : profile'[x].user = q.user => x \in Used \ {p}
    BY <1>1, <2>1
  <2>3. \A x \in Used : profile[x].role \in Role
    BY UsedShape
  <2>4. QED
    BY <1>1, <1>2, <2>1, <2>2, <2>3 DEF RoleOnly, Matching, ProfilesOf, Defaults, Held, Used, Same
<1>6. ASSUME At(s, "lead"), q.demoted # {}, ~overtaken'[s], NEW d \in Role \ {LeadRole},
             grant'[q.user][d] = "held"
      PROVE  Held(q.user, d)
  <2>1. q.user \in User
    BY <1>6, Shapes
  <2>2. q.user # u \/ d # c \/ ~fresh
    BY <1>6
  <2>3. QED
    BY <1>2, <1>6, <2>1, <2>2 DEF Held
<1>7. ASSUME At(s, "drop")
      PROVE  /\ member'[q.member] # Absent
             /\ ~overtaken'[s] =>
                   \A x \in Used' : profile'[x].member = q.member => x \in LinkedTo(q.member)
  <2>1. q.member \in Member /\ member[q.member] # Absent
    BY <1>7, Shapes DEF Sound, SoundDrop
  <2>2. member'[q.member] # Absent
    BY <2>1 DEF Grants
  <2>3. QED
    BY <1>1, <1>7, <2>2 DEF LinkedTo, Used, Same
<1>8. QED
  BY <1>3, <1>4, <1>5, <1>6, <1>7 DEF Frame

LEMMA GrantsType ==
    ASSUME TypeOK, NEW u \in User, NEW c \in Role, NEW m, NEW p, NEW keep, NEW demoted,
           NEW fresh \in BOOLEAN, Grants(u, c, m, p, keep, demoted, fresh), Books,
           user' \in [User -> {"absent", "present", "deleted"}],
           member' \in [Member -> User \cup {None, Absent, Deleted}],
           led' \subseteq Member
    PROVE  TypeOK'
BY GrantedDoes DEF TypeOK, Books, Grants, Ensures

LEMMA EnsureProfileKeeps ==
    ASSUME AccessInv, NEW r \in Request, EnsureProfile(r)
    PROVE  AccessInv'
<1>1. PICK u \in User, c \in Role, f \in BOOLEAN, k \in BOOLEAN, fd \in Profile \cup {None} :
          /\ At(r, "ensure")
          /\ request[r].user = u /\ request[r].role = c /\ request[r].fresh = f
          /\ request[r].keep = k /\ request[r].found = fd
  BY Shapes DEF EnsureProfile, AccessInv
<1>2. PICK m, D, L : /\ m = (IF fd = None THEN None ELSE profile[fd].member)
                     /\ D = (IF k THEN {} ELSE Defaults(u))
                     /\ L = (IF f THEN Assigning(u) ELSE {})
  OBVIOUS
<1>3. PICK p \in Target(fd) : /\ profile' = Ensured(u, c, m, p, k, D)
                              /\ UniqueDefault(profile')
                              /\ Commit(r, {p} \cup D, L)
  BY <1>1, <1>2 DEF EnsureProfile
<1>4. grant' = Granted(u, c, f) /\ UNCHANGED <<user, member, led>>
  BY <1>1 DEF EnsureProfile
<1>5. /\ user[u] = "present"
      /\ ~f => grant[u][c] # "none"
      /\ fd # None => IsOf(fd, u, c)
      /\ fd = None => RoleOnly(u, c) = {}
      /\ k => ProfilesOf(u) # {}
  BY <1>1 DEF AccessInv, Sound, SoundLock, SoundEnsure, Locking, Present, At
<1>6. /\ p \in Profile
      /\ p \in Used => p = fd /\ profile[p].member = m
      /\ p \notin Used => fd = None /\ m = None
  BY <1>2, <1>5 DEF Target, Used, Unused, IsOf
<1>7. m \in Member \cup {None} /\ D \in SUBSET Used /\ D \subseteq ProfilesOf(u)
  BY <1>2, <1>5, UsedShape DEF AccessInv, IsOf, Defaults, ProfilesOf, Used
<1>8. Ensures(u, c, m, p, k, D)
  BY <1>3, <1>6, <1>7, EnsuredDoes DEF AccessInv
<1>9. Grants(u, c, m, p, k, D, f)
  <2>1. m = None /\ ~profile'[p].erased => RoleOnly(u, c) \subseteq {p}
    <3>1. CASE p \in Used
      <4>1. p = fd /\ IsOf(p, u, c) /\ profile[p].member = m
        BY <1>5, <1>6, <3>1 DEF Used
      <4>2. m = None /\ ~profile'[p].erased => p \in RoleOnly(u, c)
        BY <1>8, <3>1, <4>1 DEF Ensures, IsOf, RoleOnly, Matching, ProfilesOf, Used
      <4>3. QED
        BY <4>2 DEF AccessInv, RowsInv, OneRoleOnly
    <3>2. CASE p \notin Used
      BY <1>5, <1>6, <3>2
    <3>3. QED
      BY <3>1, <3>2
  <2>2. m # None => member[m] = u
    BY <1>2, <1>5 DEF AccessInv, RowsInv, ProfileFollowsMember, IsOf, Used
  <2>3. p \in Used => IsOf(p, u, c) /\ profile[p].member \in {None, m}
    BY <1>5, <1>6 DEF IsOf, Used, Unused
  <2>4. k => ProfilesOf(u) # {} /\ D = {}
    BY <1>2, <1>5
  <2>5. QED
    BY <1>4, <1>5, <1>7, <1>8, <2>1, <2>2, <2>3, <2>4 DEF Grants
<1>10. /\ Books
       /\ request'[r] = Idle
       /\ \A s \in Request \ {r} :
             /\ request'[s] = request[s]
             /\ stale'[s] <=> stale[s] \/ ({p} \cup D) \cap Writes(request[s]) # {}
             /\ overtaken'[s] <=> overtaken[s] \/ s \in L
  BY <1>3, Commits DEF AccessInv
<1>11. TypeOK'
  BY <1>4, <1>9, <1>10, GrantsType DEF AccessInv, TypeOK
<1>12. RowsInv' /\ RowsKept
  BY <1>3, <1>6, <1>7, <1>9, GrantsRows DEF AccessInv
<1>13. ASSUME NEW s \in Request \ {r}
       PROVE  Frame(s, {p} \cup D)
  <2>1. Locking(s) => request[s].user # u
    BY <1>1 DEF AccessInv, LockIsExclusive, Locking, At
  <2>2. At(s, "lead") /\ request[s].demoted # {} /\ request[s].user = u /\ f /\ ~overtaken'[s]
            => c = LeadRole
    BY <1>2, <1>10 DEF Assigning
  <2>3. At(s, "drop") /\ request[s].member = m /\ ~overtaken'[s] => p \in LinkedTo(m)
    <3>1. At(s, "drop") => request[s].member \in Member
      BY Shapes DEF AccessInv
    <3>2. QED
      BY <1>6, <3>1 DEF LinkedTo, Used
  <2>4. Sound(s) /\ TypeOK /\ RowsInv
    BY DEF AccessInv
  <2>5. request'[s] = request[s] /\ (overtaken[s] => overtaken'[s])
        /\ (stale'[s] <=> stale[s] \/ ({p} \cup D) \cap Writes(request[s]) # {})
    BY <1>10
  <2>6. QED
    BY <1>4, <1>6, <1>7, <1>9, <2>1, <2>2, <2>3, <2>4, <2>5, GrantsFrame
<1>14. QED
  BY <1>10, <1>11, <1>12, <1>13, CommitKeeps

LEMMA CommitLeadKeeps ==
    ASSUME AccessInv, NEW r \in Request, CommitLead(r)
    PROVE  AccessInv'
<1>1. PICK u \in User, m \in Member, f \in BOOLEAN, k \in BOOLEAN, fd \in Profile \cup {None},
           D \in SUBSET Profile :
          /\ At(r, "lead")
          /\ request[r].user = u /\ request[r].member = m /\ request[r].fresh = f
          /\ request[r].keep = k /\ request[r].found = fd /\ request[r].demoted = D
  BY Shapes DEF CommitLead, AccessInv
<1>2. PICK L : L = Dropping(m)
  OBVIOUS
<1>3. PICK p \in Target(fd) : /\ profile' = Ensured(u, LeadRole, m, p, k, D)
                              /\ UniqueDefault(profile')
                              /\ Commit(r, {m, p} \cup D, L)
  BY <1>1, <1>2 DEF CommitLead
<1>4. /\ grant' = Granted(u, LeadRole, f)
      /\ member' = [member EXCEPT ![m] = u]
      /\ led' = led \cup {m}
      /\ user' = user
      /\ user[u] = "present"
      /\ Unlocked(u)
      /\ ~stale[r]
  BY <1>1 DEF CommitLead, Present
<1>5. /\ ~f => grant[u][LeadRole] # "none"
      /\ fd # None => IsOf(fd, u, LeadRole) /\ profile[fd].member \in {None, m}
      /\ k => ProfilesOf(u) # {} /\ D = {}
      /\ D \subseteq ProfilesOf(u)
      /\ member[m] = u
  BY <1>1, <1>4 DEF AccessInv, Sound, SoundLead
<1>6. member' = member /\ m # None
  BY <1>4, <1>5 DEF AccessInv, TypeOK
<1>7. p \in Profile /\ (p \in Used => p = fd) /\ D \in SUBSET Used
  BY <1>3, <1>5 DEF Target, Used, Unused, IsOf, ProfilesOf
<1>8. Ensures(u, LeadRole, m, p, k, D)
  BY <1>3, <1>7, EnsuredDoes DEF AccessInv
<1>9. Grants(u, LeadRole, m, p, k, D, f)
  <2>1. p \in Used => IsOf(p, u, LeadRole) /\ profile[p].member \in {None, m}
    BY <1>5, <1>7 DEF Used
  <2>2. QED
    BY <1>4, <1>5, <1>6, <1>8, <2>1 DEF Grants
<1>10. /\ Books
       /\ request'[r] = Idle
       /\ \A s \in Request \ {r} :
             /\ request'[s] = request[s]
             /\ stale'[s] <=> stale[s] \/ ({m, p} \cup D) \cap Writes(request[s]) # {}
             /\ overtaken'[s] <=> overtaken[s] \/ s \in L
  BY <1>3, Commits DEF AccessInv
<1>11. TypeOK'
  BY <1>4, <1>6, <1>9, <1>10, GrantsType DEF AccessInv, TypeOK
<1>12. RowsInv' /\ RowsKept
  BY <1>3, <1>7, <1>9, GrantsRows DEF AccessInv
<1>13. ASSUME NEW s \in Request \ {r}
       PROVE  Frame(s, {m, p} \cup D)
  <2>1. Locking(s) => request[s].user # u
    BY <1>4 DEF Unlocked, Locking
  <2>2. At(s, "drop") /\ request[s].member = m /\ ~overtaken'[s] => p \in LinkedTo(m)
    BY <1>2, <1>10 DEF Dropping
  <2>3. Sound(s) /\ TypeOK /\ RowsInv
    BY DEF AccessInv
  <2>4. request'[s] = request[s] /\ (overtaken[s] => overtaken'[s])
        /\ (stale'[s] <=> stale[s] \/ ({m, p} \cup D) \cap Writes(request[s]) # {})
    BY <1>10
  <2>5. QED
    BY <1>6, <1>7, <1>9, <2>1, <2>2, <2>3, <2>4, GrantsFrame
<1>14. QED
  BY <1>10, <1>11, <1>12, <1>13, CommitKeeps

LEMMA OnboardKeeps ==
    ASSUME AccessInv, NEW u \in User, NEW m \in Member, NEW c \in Role, NEW p \in Profile,
           Onboard(u, m, c, p)
    PROVE  AccessInv'
<1>1. /\ user[u] = "absent" /\ member[m] = Absent /\ p \notin Used
      /\ user' = [user EXCEPT ![u] = "present"]
      /\ member' = [member EXCEPT ![m] = u]
      /\ grant' = Granted(u, c, TRUE)
      /\ profile' = Ensured(u, c, m, p, FALSE, {})
      /\ CommitAlone({})
      /\ led' = led
  BY DEF Onboard, Used
<1>2. ProfilesOf(u) = {}
  BY <1>1 DEF AccessInv, RowsInv, Backed, ProfilesOf, Used
<1>3. Ensures(u, c, m, p, FALSE, {})
  BY <1>1, EnsuredDoes DEF AccessInv
<1>4. /\ member'[m] = u /\ user'[u] = "present" /\ m # None
      /\ \A x \in Member \ {m} : member'[x] = member[x]
      /\ \A v \in User \ {u} : user'[v] = user[v]
  BY <1>1 DEF AccessInv, TypeOK
<1>5. Grants(u, c, m, p, FALSE, {}, TRUE)
  <2>1. \A x \in Member : /\ member[x] \in User => member'[x] = member[x]
                          /\ member[x] # Absent => member'[x] # Absent
    BY <1>1, <1>4
  <2>2. QED
    BY <1>1, <1>3, <1>4, <2>1 DEF Grants
<1>6. UniqueDefault(profile')
  <2> SUFFICES ASSUME NEW x \in Used', NEW y \in Used', profile'[x].isDefault,
                      profile'[y].isDefault, profile'[x].user = profile'[y].user
               PROVE  x = y
    BY DEF UniqueDefault, Used, Unused
  <2>1. \A z \in Used' : z # p => z \in Used /\ Same(z) /\ profile[z].isDefault = profile'[z].isDefault
                                  /\ profile[z].user # u
    <3> SUFFICES ASSUME NEW z \in Used', z # p
                 PROVE  /\ z \in Used /\ Same(z) /\ profile[z].isDefault = profile'[z].isDefault
                        /\ profile[z].user # u
      OBVIOUS
    <3>1. z \in Used /\ Same(z) /\ (profile'[z].isDefault <=> profile[z].isDefault)
      BY <1>3 DEF Ensures
    <3>2. profile[z].user # u
      BY <1>2, <3>1 DEF ProfilesOf, Used
    <3>3. profile[z].isDefault \in BOOLEAN /\ profile'[z].isDefault \in BOOLEAN
      BY <1>3, <3>1 DEF AccessInv, TypeOK, Ensures, Used, Unused, ProfileRow, Same
    <3>4. QED
      BY <3>1, <3>2, <3>3
  <2>2. profile'[p].user = u
    BY <1>3 DEF Ensures
  <2>3. CASE x = p \/ y = p
    BY <2>1, <2>2, <2>3 DEF Same
  <2>4. CASE x # p /\ y # p
    BY <2>1, <2>4 DEF AccessInv, RowsInv, UniqueDefault, Used, Unused, Same
  <2>5. QED
    BY <2>3, <2>4
<1>7. /\ Books
      /\ UNCHANGED <<request, overtaken>>
      /\ \A s \in Request : stale'[s] <=> stale[s] \/ {} \cap Writes(request[s]) # {}
  BY <1>1, CommitsAlone DEF AccessInv
<1>8. TypeOK'
  <2>1. /\ user' \in [User -> {"absent", "present", "deleted"}]
        /\ member' \in [Member -> User \cup {None, Absent, Deleted}]
        /\ led' \subseteq Member
    BY <1>1 DEF AccessInv, TypeOK
  <2>2. QED
    BY <1>5, <1>7, <2>1, GrantsType DEF AccessInv
<1>9. RowsInv' /\ RowsKept
  BY <1>5, <1>6, GrantsRows DEF AccessInv
<1>10. ASSUME NEW s \in Request
       PROVE  Frame(s, {})
  <2>1. Locking(s) => request[s].user # u
    BY <1>1 DEF AccessInv, Sound, SoundLock, Present
  <2>2. At(s, "lead") /\ request[s].demoted # {} => request[s].user # u
    BY <1>2 DEF AccessInv, Sound, SoundLead
  <2>3. At(s, "drop") => request[s].member # m
    BY <1>1 DEF AccessInv, Sound, SoundDrop
  <2>4. \A x \in Member : member'[x] = member[x] \/ x \in {} \/ member[x] = Absent
    BY <1>1, <1>4
  <2>5. Sound(s) /\ TypeOK /\ RowsInv
    BY DEF AccessInv
  <2>6. request'[s] = request[s] /\ (overtaken[s] => overtaken'[s])
        /\ (stale'[s] <=> stale[s] \/ {} \cap Writes(request[s]) # {})
    BY <1>7
  <2>7. QED
    BY <1>1, <1>5, <2>1, <2>2, <2>3, <2>4, <2>5, <2>6, GrantsFrame
<1>11. QED
  BY <1>8, <1>9, <1>10, CommitAloneKeeps

----------------------------------------------------------------------------
(* Steps that change profiles and make none *)

\* The profiles keep what they are of, and their grants.
Keeps ==
    /\ profile' \in [Profile -> ProfileRow \cup {None}]
    /\ Used' = Used
    /\ \A q \in Used : profile'[q].user = profile[q].user /\ profile'[q].role = profile[q].role
    /\ UNCHANGED grant

LEMMA KeptRows ==
    ASSUME TypeOK, RowsInv, Keeps,
           \A q \in Used : user'[profile[q].user] # "absent"
    PROVE  RowsKept /\ GrantHasProfile' /\ Backed'
<1>1. RowsKept
  BY DEF Keeps, RowsKept, Used, Unused
<1>2. GrantHasProfile'
  <2> SUFFICES ASSUME NEW v \in User, NEW d \in Role, grant[v][d] = "held"
               PROVE  \E q \in Used' : profile'[q].user = v /\ profile'[q].role = d
    BY DEF GrantHasProfile, Held, ProfilesOf, Used, Keeps
  <2>1. PICK q \in Used : profile[q].user = v /\ profile[q].role = d
    BY DEF RowsInv, GrantHasProfile, Held, ProfilesOf, Used
  <2>2. QED
    BY <2>1 DEF Keeps
<1>3. Backed'
  BY DEF RowsInv, Backed, Keeps
<1>4. QED
  BY <1>1, <1>2, <1>3

\* ... and which of them is the default.
LEMMA KeptDefaults ==
    ASSUME TypeOK, RowsInv, Keeps,
           \A q \in Used : profile'[q].isDefault <=> profile[q].isDefault
    PROVE  HasDefault' /\ UniqueDefault(profile)'
<1>1. UniqueDefault(profile)'
  BY DEF RowsInv, UniqueDefault, Keeps, Used, Unused
<1>2. HasDefault'
  BY DEF RowsInv, HasDefault, Defaults, ProfilesOf, Keeps, Used
<1>3. QED
  BY <1>1, <1>2

LEMMA CommitLinkKeeps ==
    ASSUME AccessInv, NEW r \in Request, CommitLink(r)
    PROVE  AccessInv'
<1>1. PICK u \in User, m \in Member, p \in Profile \cup {None} :
          At(r, "link") /\ request[r].user = u /\ request[r].member = m /\ request[r].profile = p
  BY Shapes DEF CommitLink, AccessInv
<1>2. PICK W, L : W = {m, p} \ {None} /\ L = (IF p = None THEN {} ELSE Dropping(m))
  OBVIOUS
<1>3. /\ ~stale[r]
      /\ member' = [member EXCEPT ![m] = u]
      /\ profile' = IF p = None THEN profile ELSE [profile EXCEPT ![p].member = m]
      /\ Commit(r, W, L)
      /\ UNCHANGED <<user, led, grant>>
  BY <1>1, <1>2 DEF CommitLink
<1>4. /\ p # None => p \in ProfilesOf(u) /\ profile[p].member \in {None, m}
      /\ member[m] \in {None, u}
  BY <1>1, <1>3 DEF AccessInv, Sound, SoundLink
<1>5. /\ member'[m] = u
      /\ \A x \in Member \ {m} : member'[x] = member[x]
      /\ member' \in [Member -> User \cup {None, Absent, Deleted}]
      /\ m # None
  BY <1>3 DEF AccessInv, TypeOK
<1>6. /\ Keeps
      /\ \A q \in Used : /\ profile'[q].isDefault <=> profile[q].isDefault
                         /\ profile'[q].erased <=> profile[q].erased
                         /\ q # p => profile'[q].member = profile[q].member
      /\ p # None => profile'[p].member = m
  <2>1. CASE p = None
    BY <1>3, <2>1 DEF AccessInv, TypeOK, Keeps, Used, Unused
  <2>2. CASE p # None
    <3>1. PICK e \in ProfileRow : e = profile[p]
      BY <1>4, <2>2 DEF AccessInv, TypeOK, ProfilesOf, Unused
    <3>2. /\ profile'[p] = [e EXCEPT !.member = m]
          /\ \A q \in Profile \ {p} : profile'[q] = profile[q]
          /\ profile' = [q \in Profile |-> profile'[q]]
      BY <1>3, <2>2, <3>1 DEF AccessInv, TypeOK
    <3>3. /\ [e EXCEPT !.member = m] \in ProfileRow
          /\ [e EXCEPT !.member = m].user = e.user
          /\ [e EXCEPT !.member = m].role = e.role
          /\ [e EXCEPT !.member = m].member = m
          /\ [e EXCEPT !.member = m].isDefault = e.isDefault
          /\ [e EXCEPT !.member = m].erased = e.erased
      BY DEF ProfileRow
    <3>4. profile'[p] \in ProfileRow /\ p \in Used
      BY <1>4, <2>2, <3>2, <3>3 DEF ProfilesOf, Used
    <3>5. \A q \in Profile : profile'[q] \in ProfileRow \cup {None}
      BY <3>2, <3>4 DEF AccessInv, TypeOK
    <3>6. profile' \in [Profile -> ProfileRow \cup {None}]
      BY <3>2, <3>5
    <3>7. Used' = Used
      BY <3>2, <3>4 DEF Used, Unused
    <3>8. \A q \in Used : /\ profile'[q].user = profile[q].user
                          /\ profile'[q].role = profile[q].role
                          /\ profile'[q].isDefault <=> profile[q].isDefault
                          /\ profile'[q].erased <=> profile[q].erased
                          /\ q # p => profile'[q].member = profile[q].member
      BY <3>1, <3>2, <3>3 DEF Used
    <3>9. QED
      BY <1>3, <3>2, <3>3, <3>6, <3>7, <3>8 DEF Keeps
  <2>3. QED
    BY <2>1, <2>2
<1>7. /\ Books
      /\ request'[r] = Idle
      /\ \A s \in Request \ {r} :
            /\ request'[s] = request[s]
            /\ stale'[s] <=> stale[s] \/ W \cap Writes(request[s]) # {}
            /\ overtaken'[s] <=> overtaken[s] \/ s \in L
  BY <1>3, Commits DEF AccessInv
<1>8. TypeOK'
  BY <1>3, <1>5, <1>6, <1>7 DEF AccessInv, TypeOK, Books, Keeps
<1>9. RowsKept /\ GrantHasProfile' /\ Backed' /\ HasDefault' /\ UniqueDefault(profile)'
  BY <1>3, <1>6, KeptRows, KeptDefaults DEF AccessInv, RowsInv, Backed
<1>10. \A q \in Used : profile[q].member # None =>
          /\ profile'[q].member = profile[q].member
          /\ member'[profile[q].member] = profile[q].user
          /\ member[profile[q].member] = profile[q].user
  <2> SUFFICES ASSUME NEW q \in Used, profile[q].member # None
               PROVE  /\ profile'[q].member = profile[q].member
                      /\ member'[profile[q].member] = profile[q].user
                      /\ member[profile[q].member] = profile[q].user
    OBVIOUS
  <2>1. profile[q].user \in User /\ profile[q].member \in Member
    BY UsedShape DEF AccessInv
  <2>2. member[profile[q].member] = profile[q].user
    BY DEF AccessInv, RowsInv, ProfileFollowsMember, Used
  <2>3. q = p => p # None /\ profile[q].member = m
    BY <1>4 DEF Used
  <2>4. profile'[q].member = profile[q].member
    BY <1>6, <2>3
  <2>5. profile[q].member = m => profile[q].user = u
    BY <1>4, <2>1, <2>2
  <2>6. QED
    BY <1>5, <2>1, <2>2, <2>4, <2>5
<1>11. ProfileFollowsMember'
  <2> SUFFICES ASSUME NEW q \in Used, profile'[q].member # None
               PROVE  member'[profile'[q].member] = profile[q].user
    BY <1>6 DEF ProfileFollowsMember, Used, Keeps
  <2>1. CASE q = p
    BY <1>4, <1>5, <1>6, <2>1 DEF ProfilesOf, Used, Unused
  <2>2. CASE q # p
    BY <1>6, <1>10, <2>2
  <2>3. QED
    BY <2>1, <2>2
<1>12. LeadHasProfile'
  <2> SUFFICES ASSUME NEW x \in led
               PROVE  \E q \in Used' : /\ profile'[q].member = x
                                       /\ profile'[q].role = LeadRole
                                       /\ profile'[q].user = member'[x]
    BY <1>3 DEF LeadHasProfile, LinkedTo, Used
  <2>1. PICK q \in Used : profile[q].member = x /\ profile[q].role = LeadRole
    BY DEF AccessInv, RowsInv, LeadHasProfile, LinkedTo, Used
  <2>2. x # None
    BY DEF AccessInv, TypeOK
  <2>3. QED
    BY <1>6, <1>10, <2>1, <2>2 DEF Keeps
<1>13. \A v, d : RoleOnly(v, d)' \subseteq RoleOnly(v, d)
  BY <1>5, <1>6 DEF RoleOnly, Matching, ProfilesOf, Used, Keeps
<1>14. RowsInv'
  <2>1. OneRoleOnly'
    BY <1>13 DEF AccessInv, RowsInv, OneRoleOnly
  <2>2. QED
    BY <1>9, <1>11, <1>12, <2>1 DEF RowsInv
<1>15. ASSUME NEW s \in Request \ {r}
       PROVE  Frame(s, W)
  <2> DEFINE q == request[s]
  <2>1. \A x \in Member : member'[x] = member[x] \/ x \in W \/ member[x] = Absent
    BY <1>2, <1>5
  <2>2. \A x \in Used : profile'[x].member = profile[x].member \/ x \in W
    BY <1>2, <1>6 DEF Used, Unused
  <2>3. Locking(s) => user'[q.user] = "present"
    BY <1>3 DEF AccessInv, Sound, SoundLock, Present
  <2>4. PICK v, d : (At(s, "ensure") => v = q.user /\ d = q.role)
    OBVIOUS
  <2>5. At(s, "ensure") =>
          /\ \A x \in Used' :
                /\ profile'[x].user = v /\ profile'[x].role = d
                /\ profile'[x].member = None /\ ~profile'[x].erased
                => x \in RoleOnly(v, d)
          /\ \A x \in Used' :
                profile'[x].user = v /\ profile'[x].isDefault /\ ~overtaken'[s]
                => /\ x \in Defaults(v)
                   /\ grant'[v][profile[x].role] = "held" => Held(v, profile[x].role)
    <3>1. \A x \in RoleOnly(v, d)' : x \in RoleOnly(v, d)
      BY <1>13
    <3>2. \A x \in Used' :
                /\ profile'[x].user = v /\ profile'[x].role = d
                /\ profile'[x].member = None /\ ~profile'[x].erased
                => x \in RoleOnly(v, d)'
      BY DEF RoleOnly, Matching, ProfilesOf, Used
    <3>3. \A x \in Used' : profile'[x].user = v /\ profile'[x].isDefault => x \in Defaults(v)
      BY <1>6 DEF Defaults, ProfilesOf, Used, Keeps
    <3>4. QED
      BY <1>3, <3>1, <3>2, <3>3 DEF Held
  <2>6. At(s, "drop") =>
          /\ member'[q.member] # Absent
          /\ ~overtaken'[s] =>
                \A x \in Used' : profile'[x].member = q.member => x \in LinkedTo(q.member)
    <3> SUFFICES ASSUME At(s, "drop")
                 PROVE  /\ member'[q.member] # Absent
                        /\ ~overtaken'[s] =>
                              \A x \in Used' : profile'[x].member = q.member => x \in LinkedTo(q.member)
      OBVIOUS
    <3>1. q.member \in Member /\ member[q.member] # Absent
      BY Shapes DEF AccessInv, Sound, SoundDrop
    <3>2. member'[q.member] # Absent
      BY <1>5, <3>1
    <3>3. ~overtaken'[s] /\ p # None => q.member # m
      BY <1>2, <1>7 DEF Dropping
    <3>4. QED
      BY <1>6, <3>2, <3>3 DEF LinkedTo, Used, Keeps
  <2>7. /\ request'[s] = request[s] /\ (overtaken[s] => overtaken'[s])
        /\ (stale'[s] <=> stale[s] \/ W \cap Writes(request[s]) # {})
    BY <1>7
  <2>8. QED
    BY <1>3, <2>1, <2>2, <2>3, <2>4, <2>5, <2>6, <2>7 DEF Frame, Held
<1>16. QED
  BY <1>7, <1>8, <1>9, <1>14, <1>15, CommitKeeps

LEMMA DeleteMemberKeeps ==
    ASSUME AccessInv, NEW r \in Request, DeleteMember(r)
    PROVE  AccessInv'
<1>1. PICK m \in Member : At(r, "drop") /\ request[r].member = m
  BY Shapes DEF DeleteMember, AccessInv
<1>2. PICK W : W = {m} \cup LinkedTo(m)
  OBVIOUS
<1>3. /\ m \notin led
      /\ member' = [member EXCEPT ![m] = Deleted]
      /\ profile' = [q \in Profile |-> IF q \in LinkedTo(m) THEN Nulled(profile[q]) ELSE profile[q]]
      /\ Commit(r, W, {})
      /\ UNCHANGED <<user, led, grant>>
  BY <1>1, <1>2 DEF DeleteMember, Restricted
<1>4. /\ member'[m] = Deleted
      /\ \A x \in Member \ {m} : member'[x] = member[x]
      /\ member' \in [Member -> User \cup {None, Absent, Deleted}]
      /\ m # None
  BY <1>3 DEF AccessInv, TypeOK
<1>5. ASSUME NEW q \in LinkedTo(m)
      PROVE  /\ profile'[q] \in ProfileRow
             /\ profile'[q].user = profile[q].user /\ profile'[q].role = profile[q].role
             /\ profile'[q].isDefault = profile[q].isDefault
             /\ profile'[q].member = None /\ profile'[q].erased
  <2>1. PICK e \in ProfileRow : e = profile[q]
    BY DEF AccessInv, TypeOK, LinkedTo, Unused
  <2>2. e.user \in User /\ e.role \in Role /\ e.isDefault \in BOOLEAN
    BY DEF ProfileRow
  <2>3. profile'[q] = [user |-> e.user, role |-> e.role, member |-> None,
                       isDefault |-> e.isDefault, erased |-> TRUE]
    BY <1>3, <2>1 DEF Nulled, LinkedTo
  <2>4. QED
    BY <2>1, <2>2, <2>3 DEF ProfileRow
<1>6. /\ Keeps
      /\ \A q \in Used : /\ profile'[q].isDefault <=> profile[q].isDefault
                         /\ q \in LinkedTo(m) => profile'[q].member = None /\ profile'[q].erased
                         /\ q \notin LinkedTo(m) => profile'[q] = profile[q]
  <2>1. \A q \in Profile \ LinkedTo(m) : profile'[q] = profile[q]
    BY <1>3
  <2>2. \A q \in Profile : profile'[q] \in ProfileRow \cup {None}
    BY <1>5, <2>1 DEF AccessInv, TypeOK
  <2>3. profile' \in [Profile -> ProfileRow \cup {None}]
    BY <1>3, <2>2
  <2>4. Used' = Used
    BY <1>5, <2>1 DEF Used, Unused, LinkedTo
  <2>5. \A q \in Used : /\ profile'[q].user = profile[q].user
                        /\ profile'[q].role = profile[q].role
                        /\ profile'[q].isDefault <=> profile[q].isDefault
    BY <1>5, <2>1 DEF Used
  <2>6. QED
    BY <1>3, <1>5, <2>1, <2>3, <2>4, <2>5 DEF Keeps, Used
<1>7. /\ Books
      /\ request'[r] = Idle
      /\ \A s \in Request \ {r} :
            /\ request'[s] = request[s]
            /\ stale'[s] <=> stale[s] \/ W \cap Writes(request[s]) # {}
            /\ overtaken'[s] <=> overtaken[s] \/ s \in {}
  BY <1>3, Commits DEF AccessInv
<1>8. TypeOK'
  BY <1>3, <1>4, <1>6, <1>7 DEF AccessInv, TypeOK, Books, Keeps
<1>9. RowsKept /\ GrantHasProfile' /\ Backed' /\ HasDefault' /\ UniqueDefault(profile)'
  BY <1>3, <1>6, KeptRows, KeptDefaults DEF AccessInv, RowsInv, Backed
<1>10. ProfileFollowsMember'
  <2> SUFFICES ASSUME NEW q \in Used, profile'[q].member # None
               PROVE  member'[profile'[q].member] = profile[q].user
    BY <1>6 DEF ProfileFollowsMember, Used, Keeps
  <2>1. q \notin LinkedTo(m) /\ profile'[q].member = profile[q].member
    BY <1>6
  <2>2. profile[q].member \in Member /\ profile[q].member # m
    BY <2>1, UsedShape DEF AccessInv, LinkedTo, Used
  <2>3. QED
    BY <1>4, <2>1, <2>2 DEF AccessInv, RowsInv, ProfileFollowsMember, Used
<1>11. LeadHasProfile'
  <2> SUFFICES ASSUME NEW x \in led
               PROVE  \E q \in Used' : /\ profile'[q].member = x
                                       /\ profile'[q].role = LeadRole
                                       /\ profile'[q].user = member'[x]
    BY <1>3 DEF LeadHasProfile, LinkedTo, Used
  <2>1. PICK q \in Used : profile[q].member = x /\ profile[q].role = LeadRole
                          /\ profile[q].user = member[x]
    BY DEF AccessInv, RowsInv, LeadHasProfile, LinkedTo, Used
  <2>2. x \in Member /\ x # m /\ q \notin LinkedTo(m)
    BY <1>3, <2>1 DEF AccessInv, TypeOK, LinkedTo
  <2>3. QED
    BY <1>4, <1>6, <2>1, <2>2 DEF Keeps
<1>12. \A v, d : RoleOnly(v, d)' \subseteq RoleOnly(v, d)
  BY <1>6 DEF RoleOnly, Matching, ProfilesOf, Used, Keeps
<1>13. RowsInv'
  <2>1. OneRoleOnly'
    BY <1>12 DEF AccessInv, RowsInv, OneRoleOnly
  <2>2. QED
    BY <1>9, <1>10, <1>11, <2>1 DEF RowsInv
<1>14. ASSUME NEW s \in Request \ {r}
       PROVE  Frame(s, W)
  <2> DEFINE q == request[s]
  <2>1. \A x \in Member : member'[x] = member[x] \/ x \in W \/ member[x] = Absent
    BY <1>2, <1>4
  <2>2. \A x \in Used : profile'[x].member = profile[x].member \/ x \in W
    BY <1>2, <1>6
  <2>3. Locking(s) => user'[q.user] = "present"
    BY <1>3 DEF AccessInv, Sound, SoundLock, Present
  <2>4. PICK v, d : (At(s, "ensure") => v = q.user /\ d = q.role)
    OBVIOUS
  <2>5. At(s, "ensure") =>
          /\ \A x \in Used' :
                /\ profile'[x].user = v /\ profile'[x].role = d
                /\ profile'[x].member = None /\ ~profile'[x].erased
                => x \in RoleOnly(v, d)
          /\ \A x \in Used' :
                profile'[x].user = v /\ profile'[x].isDefault /\ ~overtaken'[s]
                => /\ x \in Defaults(v)
                   /\ grant'[v][profile[x].role] = "held" => Held(v, profile[x].role)
    <3>1. \A x \in RoleOnly(v, d)' : x \in RoleOnly(v, d)
      BY <1>12
    <3>2. \A x \in Used' :
                /\ profile'[x].user = v /\ profile'[x].role = d
                /\ profile'[x].member = None /\ ~profile'[x].erased
                => x \in RoleOnly(v, d)'
      BY DEF RoleOnly, Matching, ProfilesOf, Used
    <3>3. \A x \in Used' : profile'[x].user = v /\ profile'[x].isDefault => x \in Defaults(v)
      BY <1>6 DEF Defaults, ProfilesOf, Used, Keeps
    <3>4. QED
      BY <1>3, <3>1, <3>2, <3>3 DEF Held
  <2>6. At(s, "drop") =>
          /\ member'[q.member] # Absent
          /\ \A x \in Used' : profile'[x].member = q.member => x \in LinkedTo(q.member)
    <3> SUFFICES ASSUME At(s, "drop")
                 PROVE  /\ member'[q.member] # Absent
                        /\ \A x \in Used' : profile'[x].member = q.member => x \in LinkedTo(q.member)
      OBVIOUS
    <3>1. q.member \in Member /\ member[q.member] # Absent /\ q.member # None
      BY Shapes DEF AccessInv, Sound, SoundDrop
    <3>2. member'[q.member] # Absent
      BY <1>4, <3>1
    <3>3. QED
      BY <1>6, <3>1, <3>2 DEF LinkedTo, Used, Keeps
  <2>7. /\ request'[s] = request[s] /\ (overtaken[s] => overtaken'[s])
        /\ (stale'[s] <=> stale[s] \/ W \cap Writes(request[s]) # {})
    BY <1>7
  <2>8. QED
    BY <1>3, <2>1, <2>2, <2>3, <2>4, <2>5, <2>6, <2>7 DEF Frame, Held
<1>15. QED
  BY <1>7, <1>8, <1>9, <1>13, <1>14, CommitKeeps

\* Members and grants stay as they are.
LEMMA SetDefaultKeeps ==
    ASSUME AccessInv, NEW r \in Request, SetDefault(r)
    PROVE  AccessInv'
<1>1. PICK p \in Profile, D \in SUBSET Profile :
          At(r, "choose") /\ request[r].profile = p /\ request[r].demoted = D
  BY Shapes DEF SetDefault, AccessInv
<1>2. PICK u, W, L : u = profile[p].user /\ W = {p} \cup D /\ L = Ensuring(u)
  OBVIOUS
<1>3. /\ profile' = [q \in Profile |->
                       IF q = p THEN [profile[q] EXCEPT !.isDefault = TRUE]
                       ELSE IF q \in D THEN [profile[q] EXCEPT !.isDefault = FALSE]
                       ELSE profile[q]]
      /\ UniqueDefault(profile')
      /\ Commit(r, W, L)
      /\ UNCHANGED <<user, member, led, grant>>
  BY <1>1, <1>2 DEF SetDefault
<1>4. p \in Used /\ D \subseteq ProfilesOf(u) /\ u \in User
  BY <1>1, <1>2, UsedShape DEF AccessInv, Sound, SoundChoose
<1>5. \A q \in Used : profile[q] \in ProfileRow
  BY DEF AccessInv, TypeOK, Used, Unused
<1>6. ASSUME NEW q \in Used, NEW b \in BOOLEAN
      PROVE  /\ [profile[q] EXCEPT !.isDefault = b] \in ProfileRow
             /\ [profile[q] EXCEPT !.isDefault = b].user = profile[q].user
             /\ [profile[q] EXCEPT !.isDefault = b].role = profile[q].role
             /\ [profile[q] EXCEPT !.isDefault = b].member = profile[q].member
             /\ [profile[q] EXCEPT !.isDefault = b].erased <=> profile[q].erased
             /\ [profile[q] EXCEPT !.isDefault = b].isDefault <=> b
  <2>1. PICK x \in ProfileRow : x = profile[q]
    BY <1>5
  <2>2. QED
    BY <2>1 DEF ProfileRow
<1>7. ASSUME NEW q \in Used
      PROVE  /\ profile'[q] \in ProfileRow
             /\ profile'[q].user = profile[q].user /\ profile'[q].role = profile[q].role
             /\ profile'[q].member = profile[q].member
             /\ profile'[q].erased <=> profile[q].erased
             /\ profile'[q].isDefault <=> q = p \/ (profile[q].isDefault /\ q \notin D)
  <2>1. CASE q = p
    <3>1. profile'[q] = [profile[q] EXCEPT !.isDefault = TRUE]
      BY <1>3, <2>1
    <3>2. QED
      BY <1>6, <2>1, <3>1
  <2>2. CASE q # p /\ q \in D
    <3>1. profile'[q] = [profile[q] EXCEPT !.isDefault = FALSE]
      BY <1>3, <2>2
    <3>2. QED
      BY <1>6, <2>2, <3>1
  <2>3. CASE q # p /\ q \notin D
    BY <1>3, <1>5, <2>3 DEF Used
  <2>4. QED
    BY <2>1, <2>2, <2>3
<1>8. Keeps
  <2>1. \A q \in Profile \ Used : profile'[q] = None
    BY <1>3, <1>4 DEF Used, Unused, ProfilesOf
  <2>2. \A q \in Profile : profile'[q] \in ProfileRow \cup {None}
    BY <1>7, <2>1
  <2>3. profile' \in [Profile -> ProfileRow \cup {None}]
    BY <1>3, <2>2
  <2>4. Used' = Used
    BY <1>7, <2>1 DEF Used, Unused
  <2>5. QED
    BY <1>3, <1>7, <2>3, <2>4 DEF Keeps
<1>9. /\ Books
      /\ request'[r] = Idle
      /\ \A s \in Request \ {r} :
            /\ request'[s] = request[s]
            /\ stale'[s] <=> stale[s] \/ W \cap Writes(request[s]) # {}
            /\ overtaken'[s] <=> overtaken[s] \/ s \in L
  BY <1>3, Commits DEF AccessInv
<1>10. TypeOK'
  BY <1>3, <1>8, <1>9 DEF AccessInv, TypeOK, Books, Keeps
<1>11. RowsKept /\ GrantHasProfile' /\ Backed'
  BY <1>3, <1>8, KeptRows DEF AccessInv, RowsInv, Backed
<1>12. ProfileFollowsMember' /\ LeadHasProfile'
  <2>1. ProfileFollowsMember'
    BY <1>3, <1>7, <1>8 DEF AccessInv, RowsInv, ProfileFollowsMember, Used, Keeps
  <2>2. LeadHasProfile'
    <3> SUFFICES ASSUME NEW x \in led
                 PROVE  \E q \in Used' : /\ profile'[q].member = x
                                         /\ profile'[q].role = LeadRole
                                         /\ profile'[q].user = member'[x]
      BY <1>3 DEF LeadHasProfile, LinkedTo, Used
    <3>1. PICK q \in Used : profile[q].member = x /\ profile[q].role = LeadRole
                            /\ profile[q].user = member[x]
      BY DEF AccessInv, RowsInv, LeadHasProfile, LinkedTo, Used
    <3>2. QED
      BY <1>3, <1>7, <1>8, <3>1 DEF Keeps
  <2>3. QED
    BY <2>1, <2>2
<1>13. \A v, d : RoleOnly(v, d)' = RoleOnly(v, d)
  BY <1>7, <1>8 DEF RoleOnly, Matching, ProfilesOf, Used, Keeps
<1>14. HasDefault'
  <2> SUFFICES ASSUME NEW v \in User, NEW o \in Used, profile[o].user = v
               PROVE  \E q \in Used : profile'[q].user = v /\ profile'[q].isDefault
    BY <1>7, <1>8 DEF HasDefault, ProfilesOf, Defaults, Used, Keeps
  <2>1. CASE v = u
    BY <1>2, <1>4, <1>7, <2>1
  <2>2. CASE v # u
    <3>1. PICK q \in Used : profile[q].user = v /\ profile[q].isDefault
      BY DEF AccessInv, RowsInv, HasDefault, Defaults, ProfilesOf, Used
    <3>2. q \notin D
      BY <1>4, <2>2, <3>1 DEF ProfilesOf
    <3>3. QED
      BY <1>7, <3>1, <3>2
  <2>3. QED
    BY <2>1, <2>2
<1>15. RowsInv'
  <2>1. OneRoleOnly'
    BY <1>13 DEF AccessInv, RowsInv, OneRoleOnly
  <2>2. UniqueDefault(profile)'
    BY <1>3 DEF UniqueDefault
  <2>3. QED
    BY <1>11, <1>12, <1>14, <2>1, <2>2 DEF RowsInv
<1>16. ASSUME NEW s \in Request \ {r}
       PROVE  Frame(s, W)
  <2> DEFINE q == request[s]
  <2>1. Locking(s) => user'[q.user] = "present"
    BY <1>3 DEF AccessInv, Sound, SoundLock, Present
  <2>2. PICK v, d : (At(s, "ensure") => v = q.user /\ d = q.role)
    OBVIOUS
  <2>3. At(s, "ensure") =>
          /\ \A x \in Used' :
                /\ profile'[x].user = v /\ profile'[x].role = d
                /\ profile'[x].member = None /\ ~profile'[x].erased
                => x \in RoleOnly(v, d)
          /\ \A x \in Used' :
                profile'[x].user = v /\ profile'[x].isDefault /\ ~overtaken'[s]
                => /\ x \in Defaults(v)
                   /\ grant'[v][profile[x].role] = "held" => Held(v, profile[x].role)
    <3> SUFFICES ASSUME At(s, "ensure")
                 PROVE  /\ \A x \in Used' :
                              /\ profile'[x].user = v /\ profile'[x].role = d
                              /\ profile'[x].member = None /\ ~profile'[x].erased
                              => x \in RoleOnly(v, d)
                        /\ \A x \in Used' :
                              profile'[x].user = v /\ profile'[x].isDefault /\ ~overtaken'[s]
                              => /\ x \in Defaults(v)
                                 /\ grant'[v][profile[x].role] = "held"
                                        => Held(v, profile[x].role)
      OBVIOUS
    <3>1. \A x \in Used' :
                /\ profile'[x].user = v /\ profile'[x].role = d
                /\ profile'[x].member = None /\ ~profile'[x].erased
                => x \in RoleOnly(v, d)
      BY <1>7, <1>8 DEF RoleOnly, Matching, ProfilesOf, Used, Keeps
    <3>2. ~overtaken'[s] => v # u
      BY <1>2, <1>9, <2>2 DEF Ensuring
    <3>3. \A x \in Used' :
                profile'[x].user = v /\ profile'[x].isDefault /\ ~overtaken'[s] => x \in Defaults(v)
      BY <1>2, <1>7, <1>8, <3>2 DEF Defaults, ProfilesOf, Used, Keeps
    <3>4. QED
      BY <1>3, <3>1, <3>3 DEF Held
  <2>4. At(s, "drop") =>
          /\ member'[q.member] # Absent
          /\ \A x \in Used' : profile'[x].member = q.member => x \in LinkedTo(q.member)
    BY <1>3, <1>7, <1>8 DEF AccessInv, Sound, SoundDrop, LinkedTo, Used, Keeps
  <2>5. \A x \in Used : profile'[x].member = profile[x].member
    BY <1>7
  <2>6. /\ request'[s] = request[s] /\ (overtaken[s] => overtaken'[s])
        /\ (stale'[s] <=> stale[s] \/ W \cap Writes(request[s]) # {})
    BY <1>9
  <2>7. QED
    BY <1>3, <2>1, <2>2, <2>3, <2>4, <2>5, <2>6 DEF Frame, Held
<1>17. QED
  BY <1>9, <1>10, <1>11, <1>15, <1>16, CommitKeeps

----------------------------------------------------------------------------
(* Steps that change no profile *)

LEMMA QuietFrame ==
    ASSUME TypeOK, NEW s \in Request, Sound(s), NEW W, UNCHANGED <<profile, request, overtaken>>,
           stale'[s] <=> stale[s] \/ W \cap Writes(request[s]) # {},
           \A v \in User, d \in Role : grant'[v][d] = "held" => grant[v][d] = "held",
           \A x \in Member : /\ member'[x] = member[x] \/ x \in W
                             /\ member[x] # Absent => member'[x] # Absent,
           Locking(s) => user'[request[s].user] = user[request[s].user]
    PROVE  Frame(s, W)
<1> DEFINE q == request[s]
<1>1. Used' = Used /\ \A x \in Used : profile[x].role \in Role
  BY UsedShape DEF Used, Unused
<1>2. Locking(s) => user'[q.user] = "present"
  BY DEF Sound, SoundLock, Present
<1>3. q.pc \in {"ensure", "lead"} => q.user \in User
  BY Shapes DEF At
<1>4. At(s, "drop") => q.member \in Member /\ member[q.member] # Absent
  BY Shapes DEF Sound, SoundDrop
<1>5. At(s, "ensure") =>
        /\ \A x \in Used' :
              /\ profile'[x].user = q.user /\ profile'[x].role = q.role
              /\ profile'[x].member = None /\ ~profile'[x].erased
              => x \in RoleOnly(q.user, q.role)
        /\ \A x \in Used' :
              profile'[x].user = q.user /\ profile'[x].isDefault /\ ~overtaken'[s]
              => /\ x \in Defaults(q.user)
                 /\ grant'[q.user][profile[x].role] = "held" => Held(q.user, profile[x].role)
  BY <1>1, <1>3 DEF RoleOnly, Matching, ProfilesOf, Defaults, Used, Held, At
<1>6. At(s, "drop") =>
        /\ member'[q.member] # Absent
        /\ ~overtaken'[s] =>
              \A x \in Used' : profile'[x].member = q.member => x \in LinkedTo(q.member)
  BY <1>1, <1>4 DEF LinkedTo, Used
<1>7. QED
  BY <1>1, <1>2, <1>3, <1>5, <1>6 DEF Frame, Held, At

LEMMA RevokeRoleKeeps ==
    ASSUME AccessInv, NEW u \in User, NEW c \in Role, RevokeRole(u, c)
    PROVE  AccessInv'
<1>1. /\ grant' = [grant EXCEPT ![u][c] = "revoked"]
      /\ UNCHANGED <<user, member, led, profile>>
      /\ CommitAlone({})
  BY DEF RevokeRole
<1>2. /\ Books
      /\ UNCHANGED <<request, overtaken>>
      /\ \A s \in Request : stale'[s] <=> stale[s] \/ {} \cap Writes(request[s]) # {}
  BY <1>1, CommitsAlone DEF AccessInv
<1>3. /\ grant' \in [User -> [Role -> {"none", "held", "revoked"}]]
      /\ \A v \in User, d \in Role : /\ grant'[v][d] = "held" => grant[v][d] = "held"
                                     /\ grant[v][d] # "none" => grant'[v][d] # "none"
  BY <1>1 DEF AccessInv, TypeOK
<1>4. TypeOK'
  BY <1>1, <1>2, <1>3 DEF AccessInv, TypeOK, Books
<1>5. RowsKept
  BY <1>1, <1>3 DEF RowsKept, Used, Unused
<1>6. RowsInv'
  <2>1. ProfileFollowsMember' /\ LeadHasProfile' /\ HasDefault' /\ UniqueDefault(profile)' /\ OneRoleOnly'
    BY <1>1 DEF AccessInv, RowsInv, ProfileFollowsMember, LeadHasProfile, HasDefault, UniqueDefault,
       OneRoleOnly, RoleOnly, Matching, ProfilesOf, Defaults, LinkedTo, Unused
  <2>2. GrantHasProfile'
    BY <1>1, <1>3 DEF AccessInv, RowsInv, GrantHasProfile, Held, ProfilesOf, Unused
  <2>3. Backed'
    <3>1. \A q \in Used : profile[q].user \in User /\ profile[q].role \in Role
      BY UsedShape DEF AccessInv
    <3>2. QED
      BY <1>1, <1>3, <3>1 DEF AccessInv, RowsInv, Backed, Used, Unused
  <2>4. QED
    BY <2>1, <2>2, <2>3 DEF RowsInv
<1>7. \A s \in Request : Frame(s, {})
  <2> TAKE s \in Request
  <2>1. \A x \in Member : /\ member'[x] = member[x] \/ x \in {}
                          /\ member[x] # Absent => member'[x] # Absent
    BY <1>1
  <2>2. QED
    BY <1>1, <1>2, <1>3, <2>1, QuietFrame DEF AccessInv
<1>8. QED
  BY <1>4, <1>5, <1>6, <1>7, CommitAloneKeeps

LEMMA CreateUserKeeps ==
    ASSUME AccessInv, NEW u \in User, CreateUser(u)
    PROVE  AccessInv'
<1>1. /\ user' = [user EXCEPT ![u] = "present"]
      /\ user[u] = "absent"
      /\ UNCHANGED <<member, led, grant, profile>>
      /\ CommitAlone({})
  BY DEF CreateUser
<1>2. /\ Books
      /\ UNCHANGED <<request, overtaken>>
      /\ \A s \in Request : stale'[s] <=> stale[s] \/ {} \cap Writes(request[s]) # {}
  BY <1>1, CommitsAlone DEF AccessInv
<1>3. /\ user' \in [User -> {"absent", "present", "deleted"}]
      /\ \A v \in User : user[v] # "absent" => user'[v] = user[v]
  BY <1>1 DEF AccessInv, TypeOK
<1>4. TypeOK'
  BY <1>1, <1>2, <1>3 DEF AccessInv, TypeOK, Books
<1>5. RowsKept
  BY <1>1 DEF RowsKept, Used, Unused
<1>6. RowsInv'
  <2>1. Backed'
    <3>1. \A q \in Used : profile[q].user \in User
      BY UsedShape DEF AccessInv
    <3>2. QED
      BY <1>1, <1>3, <3>1 DEF AccessInv, RowsInv, Backed, Used, Unused
  <2>2. QED
    BY <1>1, <2>1 DEF AccessInv, RowsInv, ProfileFollowsMember, GrantHasProfile, LeadHasProfile,
       HasDefault, UniqueDefault, OneRoleOnly, RoleOnly, Matching, ProfilesOf, Defaults, LinkedTo,
       Unused, Held
<1>7. \A s \in Request : Frame(s, {})
  <2> TAKE s \in Request
  <2>1. \A x \in Member : /\ member'[x] = member[x] \/ x \in {}
                          /\ member[x] # Absent => member'[x] # Absent
    BY <1>1
  <2>2. Locking(s) => request[s].user \in User /\ user[request[s].user] = "present"
    BY Shapes DEF AccessInv, Sound, SoundLock, Locking, Present, At
  <2>3. Locking(s) => user'[request[s].user] = user[request[s].user]
    BY <1>3, <2>2
  <2>4. \A v \in User, d \in Role : grant'[v][d] = "held" => grant[v][d] = "held"
    BY <1>1
  <2>5. QED
    BY <1>1, <1>2, <2>1, <2>3, <2>4, QuietFrame DEF AccessInv
<1>8. QED
  BY <1>4, <1>5, <1>6, <1>7, CommitAloneKeeps

\* Who never was granted a role has no profiles.
LEMMA DeleteUserKeeps ==
    ASSUME AccessInv, NEW u \in User, DeleteUser(u)
    PROVE  AccessInv'
<1>1. PICK W : W = {x \in Member : member[x] = u}
  OBVIOUS
<1>2. /\ user' = [user EXCEPT ![u] = "deleted"]
      /\ member' = [x \in Member |-> IF member[x] = u THEN None ELSE member[x]]
      /\ \A c \in Role : grant[u][c] = "none"
      /\ Unlocked(u)
      /\ CommitAlone(W)
      /\ UNCHANGED <<led, grant, profile>>
  BY <1>1 DEF DeleteUser
<1>3. /\ Books
      /\ UNCHANGED <<request, overtaken>>
      /\ \A s \in Request : stale'[s] <=> stale[s] \/ W \cap Writes(request[s]) # {}
  BY <1>2, CommitsAlone DEF AccessInv
<1>4. /\ user' \in [User -> {"absent", "present", "deleted"}]
      /\ \A v \in User \ {u} : user'[v] = user[v]
      /\ member' \in [Member -> User \cup {None, Absent, Deleted}]
      /\ \A x \in Member : member[x] # u => member'[x] = member[x]
      /\ \A x \in Member : member[x] # Absent => member'[x] # Absent
  BY <1>2 DEF AccessInv, TypeOK
<1>5. \A q \in Used : /\ profile[q].user \in User \ {u}
                      /\ profile[q].role \in Role
                      /\ profile[q].member \in Member \cup {None}
  BY <1>2, UsedShape DEF AccessInv, RowsInv, Backed
<1>6. TypeOK'
  BY <1>2, <1>3, <1>4 DEF AccessInv, TypeOK, Books
<1>7. RowsKept
  BY <1>2 DEF RowsKept, Used, Unused
<1>8. RowsInv'
  <2>1. Backed'
    BY <1>2, <1>4, <1>5 DEF AccessInv, RowsInv, Backed, Used, Unused
  <2>2. ProfileFollowsMember'
    BY <1>2, <1>4, <1>5 DEF AccessInv, RowsInv, ProfileFollowsMember, Used, Unused
  <2>3. LeadHasProfile'
    <3> SUFFICES ASSUME NEW x \in led
                 PROVE  \E q \in Used : /\ profile[q].member = x
                                        /\ profile[q].role = LeadRole
                                        /\ profile[q].user = member'[x]
      BY <1>2 DEF LeadHasProfile, LinkedTo, Used, Unused
    <3>1. PICK q \in Used : profile[q].member = x /\ profile[q].role = LeadRole
                            /\ profile[q].user = member[x]
      BY DEF AccessInv, RowsInv, LeadHasProfile, LinkedTo, Used
    <3>2. x \in Member /\ member[x] # u
      BY <1>5, <3>1 DEF AccessInv, TypeOK
    <3>3. QED
      BY <1>4, <3>1, <3>2
  <2>4. GrantHasProfile' /\ HasDefault' /\ UniqueDefault(profile)' /\ OneRoleOnly'
    BY <1>2 DEF AccessInv, RowsInv, GrantHasProfile, HasDefault, UniqueDefault, OneRoleOnly,
       RoleOnly, Matching, ProfilesOf, Defaults, Unused, Held
  <2>5. QED
    BY <2>1, <2>2, <2>3, <2>4 DEF RowsInv
<1>9. \A s \in Request : Frame(s, W)
  <2> TAKE s \in Request
  <2>1. \A x \in Member : /\ member'[x] = member[x] \/ x \in W
                          /\ member[x] # Absent => member'[x] # Absent
    BY <1>1, <1>4
  <2>2. Locking(s) => request[s].user \in User \ {u}
    BY <1>2, Shapes DEF AccessInv, Unlocked, Locking, At
  <2>3. Locking(s) => user'[request[s].user] = user[request[s].user]
    BY <1>4, <2>2
  <2>4. \A v \in User, d \in Role : grant'[v][d] = "held" => grant[v][d] = "held"
    BY <1>2
  <2>5. QED
    BY <1>2, <1>3, <2>1, <2>3, <2>4, QuietFrame DEF AccessInv
<1>10. QED
  BY <1>6, <1>7, <1>8, <1>9, CommitAloneKeeps

----------------------------------------------------------------------------
(* The invariant is inductive *)

LEMMA NextKeeps ==
    ASSUME AccessInv, [Next]_vars
    PROVE  AccessInv'
<1>1. CASE RoleStep
  BY <1>1, LockUserKeeps, FindProfileKeeps, EnsureProfileKeeps, RevokeRoleKeeps DEF RoleStep
<1>2. CASE LeadStep
  BY <1>2, BeginLeadKeeps, CommitLeadKeeps DEF LeadStep
<1>3. CASE MemberStep
  BY <1>3, OnboardKeeps, BeginLinkKeeps, CheckDropKeeps, CommitLinkKeeps, DeleteMemberKeeps
  DEF MemberStep
<1>4. CASE UserStep
  BY <1>4, BeginChooseKeeps, SetDefaultKeeps, CreateUserKeeps, DeleteUserKeeps DEF UserStep
<1>5. CASE \E r \in Request : Fail(r)
  BY <1>5, FailKeeps
<1>6. CASE UNCHANGED vars
  BY <1>6 DEF vars, rows, AccessInv, TypeOK, RowsInv, ProfileFollowsMember, GrantHasProfile,
     LeadHasProfile, Backed, HasDefault, UniqueDefault, OneRoleOnly, RoleOnly, Used, Unused,
     ProfilesOf, Defaults, Matching, LinkedTo, Held, LockIsExclusive, Locking, Sound, SoundLock,
     SoundEnsure, SoundLead, SoundLink, SoundChoose, SoundDrop, IsOf, Present, At
<1>7. QED
  BY <1>1, <1>2, <1>3, <1>4, <1>5, <1>6 DEF Next

LEMMA AccessInvHolds == Spec => []AccessInv
BY InitKeeps, NextKeeps, PTL DEF Spec

----------------------------------------------------------------------------
(* What it gives *)

\* A profile that speaks for a member is a profile of the member's user, for any number
\* of requests: the unchecked foreign key is kept by what each service reads and locks.
THEOREM ProfilesFollowMembers == Spec => []ProfileFollowsMember
<1>1. AccessInv => ProfileFollowsMember
  BY DEF AccessInv, RowsInv
<1>2. QED
  BY <1>1, AccessInvHolds, PTL

\* Whoever holds a role has a profile to act in it: assignUserRole, the assignment of a
\* lead and createWithAccess grant none without one, and nothing deletes a profile.
THEOREM GrantsHaveProfiles == Spec => []GrantHasProfile
<1>1. AccessInv => GrantHasProfile
  BY DEF AccessInv, RowsInv
<1>2. QED
  BY <1>1, AccessInvHolds, PTL

\* Every member in division_leads keeps a profile to act as lead in.
THEOREM LeadsHaveProfiles == Spec => []LeadHasProfile
<1>1. AccessInv => LeadHasProfile
  BY DEF AccessInv, RowsInv
<1>2. QED
  BY <1>1, AccessInvHolds, PTL

\* A user with profiles has exactly one default: the partial unique index forbids two, and
\* no transaction takes the last one away.
THEOREM DefaultIsSole == Spec => []SoleDefault
<1>1. ASSUME AccessInv
      PROVE  SoleDefault
  <2> SUFFICES ASSUME NEW u \in User, ProfilesOf(u) # {}
               PROVE  Cardinality(Defaults(u)) = 1
    BY DEF SoleDefault
  <2>1. PICK p : p \in Defaults(u)
    BY <1>1 DEF AccessInv, RowsInv, HasDefault
  <2>2. \A q \in Defaults(u) : q = p
    BY <1>1, <2>1 DEF AccessInv, RowsInv, UniqueDefault, Defaults, ProfilesOf, Unused
  <2>3. Defaults(u) = {p}
    BY <2>1, <2>2
  <2>4. QED
    BY <2>3, FS_Singleton
<1>2. QED
  BY <1>1, AccessInvHolds, PTL

\* The lock of the user's row makes one role-only profile of a role, however often the role
\* is assigned and revoked.
THEOREM RolesOnlyOnce == Spec => []RoleOnlyOnce
<1>1. ASSUME AccessInv
      PROVE  RoleOnlyOnce
  <2> SUFFICES ASSUME NEW u \in User, NEW c \in Role
               PROVE  Cardinality(RoleOnly(u, c)) <= 1
    BY DEF RoleOnlyOnce, RoleOnly
  <2>1. \A p, q \in RoleOnly(u, c) : p = q
    BY <1>1 DEF AccessInv, RowsInv, OneRoleOnly
  <2>2. CASE RoleOnly(u, c) = {}
    BY <2>2, FS_EmptySet
  <2>3. CASE RoleOnly(u, c) # {}
    <3>1. PICK p : p \in RoleOnly(u, c)
      BY <2>3
    <3>2. RoleOnly(u, c) = {p}
      BY <2>1, <3>1
    <3>3. QED
      BY <3>2, FS_Singleton
  <2>4. QED
    BY <2>2, <2>3
<1>2. QED
  BY <1>1, AccessInvHolds, PTL

----------------------------------------------------------------------------
(* What a step may take away *)

LEMMA DefaultEdit ==
    ASSUME TypeOK, NEW p \in Used, NEW b \in BOOLEAN
    PROVE  [profile[p] EXCEPT !.isDefault = b].member = profile[p].member
<1>1. PICK x \in ProfileRow : x = profile[p]
  BY DEF TypeOK, Used, Unused
<1>2. QED
  BY <1>1 DEF ProfileRow

LEMMA MemberEdit ==
    ASSUME TypeOK, NEW p \in Used, NEW m \in Member
    PROVE  /\ [profile[p] EXCEPT !.member = m].isDefault = profile[p].isDefault
           /\ [profile[p] EXCEPT !.member = m].member = m
<1>1. PICK x \in ProfileRow : x = profile[p]
  BY DEF TypeOK, Used, Unused
<1>2. QED
  BY <1>1 DEF ProfileRow

\* The request of r ends.
Ends(r) == request'[r] = Idle

LEMMA CommitEnds ==
    ASSUME TypeOK, NEW r \in Request, NEW W, NEW L, Commit(r, W, L)
    PROVE  Ends(r)
BY DEF TypeOK, Commit, Ends

\* Profile p is no default any more, or speaks for another member.
Demoted(p) == profile[p].isDefault /\ ~profile'[p].isDefault
Unlinked(p) == profile'[p].member # profile[p].member /\ profile[p].member # None

LEMMA EnsureProfileTakes ==
    ASSUME AccessInv, NEW r \in Request, EnsureProfile(r), NEW p \in Used
    PROVE  /\ ~Unlinked(p)
           /\ Demoted(p) /\ Held(profile[p].user, profile[p].role) =>
                 At(r, "ensure") /\ overtaken[r] /\ Ends(r)
<1>1. PICK u \in User, c \in Role, f \in BOOLEAN, k \in BOOLEAN, fd \in Profile \cup {None} :
          /\ At(r, "ensure")
          /\ request[r].user = u /\ request[r].role = c /\ request[r].fresh = f
          /\ request[r].keep = k /\ request[r].found = fd
  BY Shapes DEF EnsureProfile, AccessInv
<1>2. PICK m, D, L : /\ m = (IF fd = None THEN None ELSE profile[fd].member)
                     /\ D = (IF k THEN {} ELSE Defaults(u))
                     /\ L = (IF f THEN Assigning(u) ELSE {})
  OBVIOUS
<1>3. PICK t \in Target(fd) : profile' = Ensured(u, c, m, t, k, D) /\ Commit(r, {t} \cup D, L)
  BY <1>1, <1>2 DEF EnsureProfile
<1>4. /\ fd # None => IsOf(fd, u, c)
      /\ ~k /\ ~overtaken[r] => \A d \in Defaults(u) : ~Held(u, profile[d].role)
  BY <1>1 DEF AccessInv, Sound, SoundEnsure
<1>5. CASE p = t
  <2>1. p = fd /\ fd # None /\ m = profile[p].member
    BY <1>2, <1>3, <1>5 DEF Target, Used, Unused
  <2>2. profile'[p].member = m /\ (profile'[p].isDefault <=> ~k \/ p \in Defaults(u))
    BY <1>3, <1>5 DEF Ensured, Used
  <2>3. profile[p].isDefault => p \in Defaults(u)
    BY <1>4, <2>1 DEF IsOf, Defaults, ProfilesOf, Used
  <2>4. QED
    BY <2>1, <2>2, <2>3 DEF Unlinked, Demoted
<1>6. CASE p # t /\ p \in D
  <2>1. profile'[p] = [profile[p] EXCEPT !.isDefault = FALSE]
    BY <1>3, <1>6 DEF Ensured, Used
  <2>2. profile'[p].member = profile[p].member
    BY <2>1, DefaultEdit DEF AccessInv
  <2>3. ~k /\ p \in Defaults(u) /\ profile[p].user = u
    BY <1>2, <1>6 DEF Defaults, ProfilesOf
  <2>4. Ends(r)
    BY <1>3, CommitEnds DEF AccessInv
  <2>5. QED
    BY <1>1, <1>4, <2>2, <2>3, <2>4 DEF Unlinked, Demoted
<1>7. CASE p # t /\ p \notin D
  BY <1>3, <1>7 DEF Ensured, Used, Unlinked, Demoted
<1>8. QED
  BY <1>5, <1>6, <1>7

LEMMA CommitLeadTakes ==
    ASSUME AccessInv, NEW r \in Request, CommitLead(r), NEW p \in Used
    PROVE  /\ ~Unlinked(p)
           /\ Demoted(p) /\ Held(profile[p].user, profile[p].role) =>
                 At(r, "lead") /\ overtaken[r] /\ Ends(r)
<1>1. PICK u \in User, m \in Member, f \in BOOLEAN, k \in BOOLEAN, fd \in Profile \cup {None},
           D \in SUBSET Profile :
          /\ At(r, "lead")
          /\ request[r].user = u /\ request[r].member = m /\ request[r].fresh = f
          /\ request[r].keep = k /\ request[r].found = fd /\ request[r].demoted = D
  BY Shapes DEF CommitLead, AccessInv
<1>2. PICK t \in Target(fd) : /\ profile' = Ensured(u, LeadRole, m, t, k, D)
                              /\ Commit(r, {m, t} \cup D, Dropping(m))
  BY <1>1 DEF CommitLead
<1>3. /\ fd # None => IsOf(fd, u, LeadRole) /\ profile[fd].member \in {None, m}
      /\ \A d \in D : d \in ProfilesOf(u) /\ (~overtaken[r] => ~Held(u, profile[d].role))
  BY <1>1 DEF AccessInv, Sound, SoundLead, CommitLead
<1>4. CASE p = t
  <2>1. p = fd /\ fd # None
    BY <1>2, <1>4 DEF Target, Used, Unused
  <2>2. profile'[p].member = m /\ (profile'[p].isDefault <=> ~k \/ p \in Defaults(u))
    BY <1>2, <1>4 DEF Ensured, Used
  <2>3. profile[p].isDefault => p \in Defaults(u)
    BY <1>3, <2>1 DEF IsOf, Defaults, ProfilesOf, Used
  <2>4. QED
    BY <1>3, <2>1, <2>2, <2>3 DEF Unlinked, Demoted
<1>5. CASE p # t /\ p \in D
  <2>1. profile'[p] = [profile[p] EXCEPT !.isDefault = FALSE]
    BY <1>2, <1>5 DEF Ensured, Used
  <2>2. profile'[p].member = profile[p].member
    BY <2>1, DefaultEdit DEF AccessInv
  <2>3. profile[p].user = u /\ (~overtaken[r] => ~Held(u, profile[p].role))
    BY <1>3, <1>5 DEF ProfilesOf
  <2>4. Ends(r)
    BY <1>2, CommitEnds DEF AccessInv
  <2>5. QED
    BY <1>1, <2>2, <2>3, <2>4 DEF Unlinked, Demoted
<1>6. CASE p # t /\ p \notin D
  BY <1>2, <1>6 DEF Ensured, Used, Unlinked, Demoted
<1>7. QED
  BY <1>4, <1>5, <1>6

LEMMA OnboardTakes ==
    ASSUME AccessInv, NEW u \in User, NEW m \in Member, NEW c \in Role, NEW q \in Profile,
           Onboard(u, m, c, q), NEW p \in Used
    PROVE  ~Unlinked(p) /\ ~Demoted(p)
<1>1. profile'[p] = profile[p]
  BY DEF Onboard, Ensured, Used
<1>2. QED
  BY <1>1 DEF Unlinked, Demoted

LEMMA CommitLinkTakes ==
    ASSUME AccessInv, NEW r \in Request, CommitLink(r), NEW p \in Used
    PROVE  ~Unlinked(p) /\ ~Demoted(p)
<1>1. PICK u \in User, m \in Member, q \in Profile \cup {None} :
          At(r, "link") /\ request[r].user = u /\ request[r].member = m /\ request[r].profile = q
  BY Shapes DEF CommitLink, AccessInv
<1>2. /\ ~stale[r]
      /\ profile' = IF q = None THEN profile ELSE [profile EXCEPT ![q].member = m]
  BY <1>1 DEF CommitLink
<1>3. q # None => profile[q].member \in {None, m}
  BY <1>1, <1>2 DEF AccessInv, Sound, SoundLink
<1>4. CASE p = q
  <2>1. profile'[p] = [profile[p] EXCEPT !.member = m] /\ q # None
    BY <1>2, <1>4 DEF AccessInv, TypeOK, Used, Unused
  <2>2. QED
    BY <1>3, <1>4, <2>1, MemberEdit DEF AccessInv, Unlinked, Demoted
<1>5. CASE p # q
  <2>1. profile'[p] = profile[p]
    BY <1>2, <1>5 DEF AccessInv, TypeOK, Used
  <2>2. QED
    BY <2>1 DEF Unlinked, Demoted
<1>6. QED
  BY <1>4, <1>5

LEMMA DeleteMemberTakes ==
    ASSUME AccessInv, NEW r \in Request, DeleteMember(r), NEW p \in Used
    PROVE  /\ Unlinked(p) => At(r, "drop") /\ overtaken[r] /\ Ends(r)
           /\ ~Demoted(p)
<1>1. PICK m \in Member : At(r, "drop") /\ request[r].member = m
  BY Shapes DEF DeleteMember, AccessInv
<1>2. /\ profile' = [q \in Profile |-> IF q \in LinkedTo(m) THEN Nulled(profile[q]) ELSE profile[q]]
      /\ Commit(r, {m} \cup LinkedTo(m), {})
  BY <1>1 DEF DeleteMember
<1>3. ~overtaken[r] => LinkedTo(m) = {}
  BY <1>1 DEF AccessInv, Sound, SoundDrop
<1>4. Ends(r)
  BY <1>2, CommitEnds DEF AccessInv
<1>5. CASE p \in LinkedTo(m)
  <2>1. profile'[p].isDefault = profile[p].isDefault
    BY <1>2, <1>5 DEF Nulled, Used
  <2>2. QED
    BY <1>1, <1>3, <1>4, <1>5, <2>1 DEF Demoted
<1>6. CASE p \notin LinkedTo(m)
  <2>1. profile'[p] = profile[p]
    BY <1>2, <1>6 DEF Used
  <2>2. QED
    BY <2>1 DEF Unlinked, Demoted
<1>7. QED
  BY <1>5, <1>6

LEMMA SetDefaultTakes ==
    ASSUME AccessInv, NEW r \in Request, SetDefault(r), NEW p \in Used
    PROVE  ~Unlinked(p) /\ At(r, "choose") /\ Ends(r)
<1>1. PICK q, D, L : /\ profile' = [x \in Profile |->
                           IF x = q THEN [profile[x] EXCEPT !.isDefault = TRUE]
                           ELSE IF x \in D THEN [profile[x] EXCEPT !.isDefault = FALSE]
                           ELSE profile[x]]
                     /\ Commit(r, {q} \cup D, L)
  BY DEF SetDefault
<1>2. profile'[p].member = profile[p].member
  <2>1. \/ profile'[p] = profile[p]
        \/ profile'[p] = [profile[p] EXCEPT !.isDefault = TRUE]
        \/ profile'[p] = [profile[p] EXCEPT !.isDefault = FALSE]
    BY <1>1 DEF Used
  <2>2. /\ [profile[p] EXCEPT !.isDefault = TRUE].member = profile[p].member
        /\ [profile[p] EXCEPT !.isDefault = FALSE].member = profile[p].member
    BY DefaultEdit DEF AccessInv
  <2>3. QED
    BY <2>1, <2>2
<1>3. Ends(r)
  BY <1>1, CommitEnds DEF AccessInv
<1>4. QED
  BY <1>2, <1>3 DEF Unlinked, SetDefault

\* Who may take what.
LEMMA StepTakes ==
    ASSUME AccessInv, [Next]_vars, NEW p \in Used
    PROVE  /\ Unlinked(p) => \E r \in Request : At(r, "drop") /\ overtaken[r] /\ Ends(r)
           /\ Demoted(p) /\ Held(profile[p].user, profile[p].role) =>
                 \E r \in Request : /\ Ends(r)
                                    /\ \/ At(r, "choose")
                                       \/ request[r].pc \in {"ensure", "lead"} /\ overtaken[r]
<1>1. CASE profile' = profile
  BY <1>1 DEF Unlinked, Demoted
<1>2. CASE \E r \in Request : EnsureProfile(r)
  BY <1>2, EnsureProfileTakes DEF At
<1>3. CASE \E r \in Request : CommitLead(r)
  BY <1>3, CommitLeadTakes DEF At
<1>4. CASE \E u \in User, m \in Member, c \in Role, q \in Profile : Onboard(u, m, c, q)
  BY <1>4, OnboardTakes
<1>5. CASE \E r \in Request : CommitLink(r)
  BY <1>5, CommitLinkTakes
<1>6. CASE \E r \in Request : DeleteMember(r)
  BY <1>6, DeleteMemberTakes
<1>7. CASE \E r \in Request : SetDefault(r)
  BY <1>7, SetDefaultTakes
<1>8. \/ profile' = profile
      \/ \E r \in Request : EnsureProfile(r)
      \/ \E r \in Request : CommitLead(r)
      \/ \E u \in User, m \in Member, c \in Role, q \in Profile : Onboard(u, m, c, q)
      \/ \E r \in Request : CommitLink(r)
      \/ \E r \in Request : DeleteMember(r)
      \/ \E r \in Request : SetDefault(r)
  BY DEF Next, RoleStep, LeadStep, MemberStep, UserStep, LockUser, FindProfile, RevokeRole,
     BeginLead, BeginLink, CheckDrop, BeginChoose, CreateUser, DeleteUser, Fail, vars, rows
<1>9. QED
  BY <1>1, <1>2, <1>3, <1>4, <1>5, <1>6, <1>7, <1>8

\* A default whose role is granted is demoted by its user's choice only, or by an assignment
\* that had looked before: what each transaction demotes was no valid default when it looked.
THEOREM DefaultsAreKept == Spec => DefaultKept
<1> DEFINE Kept == \A u \in User : \A p \in Defaults(u) :
                      Held(u, profile[p].role) /\ ~profile'[p].isDefault
                          => Chosen \/ Overtakes({"ensure", "lead"})
<1>1. ASSUME AccessInv, [Next]_vars
      PROVE  Kept
  <2> SUFFICES ASSUME NEW u \in User, NEW p \in Defaults(u), Held(u, profile[p].role),
                      ~profile'[p].isDefault
               PROVE  Chosen \/ Overtakes({"ensure", "lead"})
    OBVIOUS
  <2>1. p \in Used /\ profile[p].user = u /\ profile[p].isDefault
    BY DEF Defaults, ProfilesOf, Used
  <2>2. PICK r \in Request : /\ Ends(r)
                             /\ \/ At(r, "choose")
                                \/ request[r].pc \in {"ensure", "lead"} /\ overtaken[r]
    BY <1>1, <2>1, StepTakes DEF Demoted
  <2>3. QED
    BY <2>2 DEF Chosen, Overtakes, Ends
<1>2. AccessInv /\ [Next]_vars => [Kept]_vars
  BY <1>1
<1>3. QED
  BY <1>2, AccessInvHolds, PTL DEF Spec, DefaultKept, Kept

\* No profile loses its member but to a deletion that looked before the profile was linked.
THEOREM LinksAreKept == Spec => LinkKept
<1> DEFINE Kept == \A p \in Profile \ Unused :
                      profile'[p].member # profile[p].member /\ profile[p].member # None
                          => Overtakes({"drop"})
<1>1. ASSUME AccessInv, [Next]_vars
      PROVE  Kept
  <2> SUFFICES ASSUME NEW p \in Used, Unlinked(p)
               PROVE  Overtakes({"drop"})
    BY DEF Used, Unlinked
  <2>1. PICK r \in Request : At(r, "drop") /\ overtaken[r] /\ Ends(r)
    BY <1>1, StepTakes
  <2>2. QED
    BY <2>1 DEF Overtakes, Ends, At
<1>2. AccessInv /\ [Next]_vars => [Kept]_vars
  BY <1>1
<1>3. QED
  BY <1>2, AccessInvHolds, PTL DEF Spec, LinkKept, Kept

=============================================================================
