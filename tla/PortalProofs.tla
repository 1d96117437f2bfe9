---------------------------- MODULE PortalProofs ----------------------------
(***************************************************************************)
(* Proofs about ClientPortal for every set of clients, contacts and        *)
(* requests, and every finite set of users: profiles, defaults and primary *)
(* contacts under any interleaving, and the client_owner role when         *)
(* requests come one at a time.                                            *)
(***************************************************************************)
EXTENDS MCClientPortal, FiniteSetTheorems, TLAPS

USE ContactAssumption, NoneAssumption

----------------------------------------------------------------------------
(* The rows *)

\* A contact is of a client that exists.
ContactsHaveClients(d) == \A c \in Contact : Exists(d, c) => d.client[ClientOf[c]] # None

\* A contact that is linked to a user has a profile.
LinkedHaveProfiles(d) ==
    \A c \in Contact : Exists(d, c) /\ d.contact[c].user # None
        => \E i \in DOMAIN d.profiles : d.profiles[i].contact = c

\* A profile of a contact is of the user the contact is linked to, and the only one.
ProfilesAreLinked(d) ==
    \A i \in DOMAIN d.profiles : d.profiles[i].contact # None =>
        /\ Exists(d, d.profiles[i].contact)
        /\ d.contact[d.profiles[i].contact].user = d.profiles[i].user
        /\ \A j \in DOMAIN d.profiles : d.profiles[j].contact = d.profiles[i].contact => i = j

PrimariesAreActive(d) ==
    \A c \in Contact : Exists(d, c) /\ d.contact[c].primary => d.contact[c].active

SolePrimary(d) ==
    \A b, c \in Contact :
        /\ Exists(d, b) /\ d.contact[b].primary
        /\ Exists(d, c) /\ d.contact[c].primary
        /\ ClientOf[b] = ClientOf[c]
        => b = c

\* A user with a profile has a default.
SomeDefault(d) ==
    \A i \in DOMAIN d.profiles : \E j \in DOMAIN d.profiles :
        d.profiles[j].user = d.profiles[i].user /\ d.profiles[j].default

SoleDefault(d) ==
    \A i, j \in DOMAIN d.profiles :
        /\ d.profiles[i].user = d.profiles[j].user
        /\ d.profiles[i].default /\ d.profiles[j].default
        => i = j

ContactsSound(d) == ContactsHaveClients(d) /\ PrimariesAreActive(d) /\ SolePrimary(d)
LinksSound(d) == LinkedHaveProfiles(d) /\ ProfilesAreLinked(d)
DefaultsSound(d) == SomeDefault(d) /\ SoleDefault(d)

Good(d) == d \in Rows /\ ContactsSound(d) /\ LinksSound(d) /\ DefaultsSound(d)

\* The rows d become e: clients stay, and so do profiles, with their user and contact.
Grows(d, e) ==
    /\ \A k \in Client : d.client[k] # None => e.client[k] # None
    /\ \A i \in DOMAIN d.profiles :
          /\ i \in DOMAIN e.profiles
          /\ e.profiles[i].user = d.profiles[i].user
          /\ e.profiles[i].contact = d.profiles[i].contact

\* Two members of a set of at most one are the same.
LEMMA AtMostOne ==
    ASSUME NEW S, IsFiniteSet(S), Cardinality(S) <= 1, NEW x \in S, NEW y \in S
    PROVE  x = y
<1>1. /\ IsFiniteSet(S \ {x}) /\ Cardinality(S) \in Nat
      /\ Cardinality(S \ {x}) = Cardinality(S) - 1 /\ Cardinality(S \ {x}) \in Nat
  BY FS_RemoveElement, FS_CardinalityType
<1>2. S \ {x} = {}
  BY <1>1, FS_EmptySet
<1> QED BY <1>2

\* A set whose members are all the same has at most one.
LEMMA AllEqual ==
    ASSUME NEW S, \A x, y \in S : x = y
    PROVE  Cardinality(S) <= 1
<1>1. CASE S = {}
  BY <1>1, FS_EmptySet
<1>2. CASE S # {}
  <2>1. PICK x \in S : TRUE
    BY <1>2
  <2>2. S = {x}
    BY <2>1
  <2> QED BY <2>2, FS_Singleton
<1> QED BY <1>1, <1>2

\* The profiles are a finite table.
LEMMA ProfileRows ==
    ASSUME NEW d \in Rows
    PROVE  /\ d.profiles \in Seq(Profile)
           /\ Len(d.profiles) \in Nat
           /\ DOMAIN d.profiles = 1 .. Len(d.profiles)
           /\ \A i \in DOMAIN d.profiles : d.profiles[i] \in Profile
           /\ IsFiniteSet(DOMAIN d.profiles)
<1>1. d.profiles \in Seq(Profile)
  BY DEF Rows
<1>2. /\ Len(d.profiles) \in Nat /\ DOMAIN d.profiles = 1 .. Len(d.profiles)
      /\ \A i \in DOMAIN d.profiles : d.profiles[i] \in Profile
  BY <1>1
<1>3. IsFiniteSet(1 .. Len(d.profiles))
  BY <1>2, FS_Interval
<1> QED BY <1>1, <1>2, <1>3

\* Rows of another table for the profiles.
LEMMA TableRows ==
    ASSUME NEW d \in Rows, NEW f, DOMAIN f = DOMAIN d.profiles,
           \A i \in DOMAIN f : f[i] \in Profile, f = [i \in DOMAIN f |-> f[i]]
    PROVE  f \in Seq(Profile) /\ Len(f) = Len(d.profiles)
BY ProfileRows

LEMMA AppendRows ==
    ASSUME NEW f \in Seq(Profile), NEW x \in Profile, NEW g, g = Append(f, x)
    PROVE  /\ g \in Seq(Profile)
           /\ DOMAIN f = 1 .. Len(f) /\ Len(f) \in Nat
           /\ DOMAIN g = DOMAIN f \cup {Len(f) + 1}
           /\ Len(f) + 1 \notin DOMAIN f
           /\ \A i \in DOMAIN f : g[i] = f[i]
           /\ g[Len(f) + 1] = x
<1>1. g \in Seq(Profile) /\ Len(f) \in Nat /\ Len(g) = Len(f) + 1
      /\ DOMAIN f = 1 .. Len(f) /\ DOMAIN g = 1 .. Len(f) + 1
  OBVIOUS
<1> QED BY <1>1

\* The unique index on the default.
LEMMA IndexIsSole ==
    ASSUME NEW d \in Rows, OneDefault(d)
    PROVE  SoleDefault(d)
<1> SUFFICES ASSUME NEW i \in DOMAIN d.profiles, NEW j \in DOMAIN d.profiles,
                    d.profiles[i].user = d.profiles[j].user,
                    d.profiles[i].default, d.profiles[j].default
             PROVE  i = j
  BY DEF SoleDefault
<1>1. PICK u \in User : u = d.profiles[i].user
  BY ProfileRows DEF Profile
<1>2. PICK S : S = {x \in Own(d, u) : d.profiles[x].default}
  OBVIOUS
<1>3. S \subseteq DOMAIN d.profiles /\ i \in S /\ j \in S
  BY <1>1, <1>2 DEF Own
<1>4. IsFiniteSet(S) /\ Cardinality(S) <= 1
  BY <1>1, <1>2, <1>3, ProfileRows, FS_Subset DEF OneDefault
<1> QED BY <1>3, <1>4, AtMostOne

----------------------------------------------------------------------------
(* What a request in flight knows *)

\* A plan, on the rows of its start: whom the contact was linked to decides whether there
\* is a profile to keep, and there is one of the user if no default is to be set.
Planned(d, p) ==
    /\ p.contact \in Contact /\ p.user \in User /\ p.row \in ContactRow
    /\ p.newUser \in BOOLEAN /\ p.newRole \in BOOLEAN /\ p.first \in BOOLEAN
    /\ p.row.user # None => p.user = p.row.user
    /\ p.row.user = None <=> p.profile = {}
    /\ p.profile \subseteq DOMAIN p.seen
    /\ DOMAIN p.seen \subseteq Own(d, p.user)
    /\ \A i \in p.profile : d.profiles[i].contact = p.contact
    /\ ~p.first => /\ DOMAIN p.seen = p.profile
                   /\ Own(d, p.user) # {}

\* The rows that a request is about to write, as far as nobody can change them.
Knows(d, q) ==
    /\ q.pc \in {"onboard", "grant"} => Planned(d, q.plan)
    /\ q.pc = "onboard" => q.plan.row.user = None
    /\ q.pc \in {"check", "revoke"} =>
         /\ q.user \in User /\ q.off \subseteq Own(d, q.user)
    /\ q.pc = "add" => q.contact \in Contact /\ d.client[ClientOf[q.contact]] # None
    /\ q.pc = "primary" =>
         /\ DOMAIN q.seen \subseteq Contact
         /\ q.contact \in DOMAIN q.seen
         /\ \A b \in DOMAIN q.seen : q.seen[b] \in ContactRow
         /\ q.seen[q.contact].active
    /\ q.pc = "default" =>
         /\ q.profile \in DOMAIN q.seen
         /\ DOMAIN q.seen \subseteq DOMAIN d.profiles
         /\ \A j \in DOMAIN q.seen : d.profiles[j].user = d.profiles[q.profile].user

PortalInv ==
    /\ Good(db)
    /\ DOMAIN request = Request
    /\ \A r \in Request : Knows(db, request[r])

\* What is known stays known while rows are only added.
LEMMA StaysKnown ==
    ASSUME NEW d \in Rows, NEW e \in Rows, NEW q, Grows(d, e), Knows(d, q)
    PROVE  Knows(e, q)
<1>1. \A u : Own(d, u) \subseteq Own(e, u)
  BY DEF Own, Grows
<1>2. ASSUME NEW p, Planned(d, p) PROVE Planned(e, p)
  BY <1>1, <1>2 DEF Planned, Own, Grows
<1>3. CASE q.pc = "primary"
  BY <1>3 DEF Knows
<1>4. CASE q.pc = "default"
  BY <1>4 DEF Knows, Grows
<1>5. CASE q.pc = "add"
  BY <1>5 DEF Knows, Grows
<1>6. CASE q.pc \in {"check", "revoke"}
  BY <1>1, <1>6 DEF Knows
<1>7. CASE q.pc \in {"onboard", "grant"}
  BY <1>2, <1>7 DEF Knows
<1> QED BY <1>3, <1>4, <1>5, <1>6, <1>7 DEF Knows

----------------------------------------------------------------------------
(* What each transaction makes of the rows *)

\* The first contact of a client.
LEMMA WithClientKeeps ==
    ASSUME NEW d, Good(d), NEW c \in Contact, d.client[ClientOf[c]] = None,
           NEW e, e = WithClient(d, c)
    PROVE  /\ Good(e) /\ Grows(d, e)
           /\ Exists(e, c) /\ e.contact[c].user = None /\ e.contact[c] \in ContactRow
           /\ e.profiles = d.profiles
           /\ \A i \in DOMAIN d.profiles : d.profiles[i].contact # c
<1>1. d \in Rows
  BY DEF Good
<1>2. PICK row \in ContactRow : row = [active |-> TRUE, primary |-> TRUE, email |-> Owner[c],
                                       user |-> None]
  BY DEF ContactRow
<1>3. /\ e \in Rows /\ e.profiles = d.profiles
      /\ e.client = [d.client EXCEPT ![ClientOf[c]] = TRUE]
      /\ e.contact = [d.contact EXCEPT ![c] = row]
  BY <1>1, <1>2 DEF WithClient, Rows
<1>4. /\ row.active /\ row.primary /\ row.user = None /\ row # None
  BY <1>2
<1>5. \A b \in Contact : ClientOf[b] = ClientOf[c] => ~Exists(d, b)
  BY DEF Good, ContactsSound, ContactsHaveClients
<1>6. /\ e.contact[c] = row
      /\ \A b \in Contact \ {c} : e.contact[b] = d.contact[b]
      /\ e.client[ClientOf[c]] # None
      /\ \A k \in Client \ {ClientOf[c]} : e.client[k] = d.client[k]
  <2>1. d.client \in [Client -> BOOLEAN \cup {None}] /\ d.contact \in [Contact -> ContactRow \cup {None}]
    BY <1>1 DEF Rows
  <2>2. ClientOf[c] \in Client
    OBVIOUS
  <2>3. e.client[ClientOf[c]] \in BOOLEAN
    BY <1>3, <2>1, <2>2
  <2>4. e.client[ClientOf[c]] # None
    BY <2>3
  <2> QED BY <1>3, <2>1, <2>2, <2>4
<1>7. ContactsSound(e)
  BY <1>4, <1>5, <1>6
     DEF Good, ContactsSound, ContactsHaveClients, PrimariesAreActive, SolePrimary, Exists
<1>8. \A i \in DOMAIN d.profiles : d.profiles[i].contact # None =>
          d.profiles[i].contact \in Contact \ {c}
  BY <1>1, <1>5, ProfileRows DEF Good, LinksSound, ProfilesAreLinked, Profile, Exists
<1>9. LinksSound(e)
  BY <1>3, <1>4, <1>6, <1>8
     DEF Good, LinksSound, LinkedHaveProfiles, ProfilesAreLinked, Exists
<1>10. DefaultsSound(e)
  BY <1>3 DEF Good, DefaultsSound, SomeDefault, SoleDefault
<1>11. Grows(d, e)
  BY <1>3, <1>6 DEF Grows
<1> QED BY <1>3, <1>4, <1>6, <1>7, <1>8, <1>9, <1>10, <1>11 DEF Good, Exists

\* The profile i after the plan p.
Rewritten(d, p, i) ==
    [d.profiles[i] EXCEPT !.active = @ \/ i \in p.profile, !.default = Default(p, i, d.profiles[i])]

LEMMA RewrittenRow ==
    ASSUME NEW d \in Rows, NEW p, p.first \in BOOLEAN, NEW i \in DOMAIN d.profiles, NEW row,
           row = Rewritten(d, p, i)
    PROVE  /\ row \in Profile
           /\ row.user = d.profiles[i].user
           /\ row.contact = d.profiles[i].contact
           /\ row.default <=> Default(p, i, d.profiles[i])
           /\ row.active <=> d.profiles[i].active \/ i \in p.profile
<1>1. PICK old \in Profile : old = d.profiles[i]
  BY ProfileRows
<1>2. /\ (old.active \/ i \in p.profile) \in BOOLEAN
      /\ Default(p, i, old) \in BOOLEAN
  BY DEF Default
<1> HIDE DEF Default
<1> QED BY <1>1, <1>2 DEF Rewritten, Profile

\* The rows e are those of d after the plan p.
Granted(d, p, e) ==
    /\ e \in Rows
    /\ e.client = d.client
    /\ e.contact = [d.contact EXCEPT ![p.contact] = [@ EXCEPT !.user = p.user]]
    /\ e.owners = IF p.newRole THEN d.owners \cup {p.user} ELSE d.owners
    /\ \A i \in DOMAIN d.profiles : /\ i \in DOMAIN e.profiles
                                    /\ e.profiles[i] = Rewritten(d, p, i)
    /\ p.profile # {} => DOMAIN e.profiles = DOMAIN d.profiles
    /\ p.profile = {} =>
         \E n : /\ n \notin DOMAIN d.profiles
                /\ DOMAIN e.profiles = DOMAIN d.profiles \cup {n}
                /\ e.profiles[n] = [user |-> p.user, contact |-> p.contact,
                                    active |-> TRUE, default |-> p.first]

LEMMA EstablishedRows ==
    ASSUME NEW d \in Rows, NEW p, Planned(d, p), Exists(d, p.contact),
           NEW e, e = Established(d, p)
    PROVE  Granted(d, p, e)
<1>1. PICK kept : kept = [i \in DOMAIN d.profiles |-> Rewritten(d, p, i)]
  OBVIOUS
<1>2. PICK created : created = [user |-> p.user, contact |-> p.contact, active |-> TRUE,
                                default |-> p.first]
  OBVIOUS
<1>3. created \in Profile
  BY <1>2 DEF Profile, Planned
<1>4. \A i \in DOMAIN d.profiles : Rewritten(d, p, i) \in Profile
  BY RewrittenRow DEF Planned
<1>5. /\ kept \in Seq(Profile) /\ DOMAIN kept = DOMAIN d.profiles
      /\ \A i \in DOMAIN d.profiles : kept[i] = Rewritten(d, p, i)
  BY <1>1, <1>4, TableRows
<1>6. PICK table : table = IF p.profile = {} THEN Append(kept, created) ELSE kept
  OBVIOUS
<1>7. e = [d EXCEPT !.users = IF p.newUser THEN @ \cup {p.user} ELSE @,
                    !.owners = IF p.newRole THEN @ \cup {p.user} ELSE @,
                    !.profiles = table,
                    !.contact[p.contact].user = p.user]
  BY <1>1, <1>2, <1>6 DEF Established, Rewritten
<1>8. table \in Seq(Profile)
  BY <1>3, <1>5, <1>6, AppendRows
<1>9. /\ e.client = d.client
      /\ e.contact = [d.contact EXCEPT ![p.contact] = [@ EXCEPT !.user = p.user]]
      /\ e.owners = IF p.newRole THEN d.owners \cup {p.user} ELSE d.owners
      /\ e.users = IF p.newUser THEN d.users \cup {p.user} ELSE d.users
      /\ e.profiles = table
      /\ e = [client |-> e.client, contact |-> e.contact, users |-> e.users,
              owners |-> e.owners, profiles |-> e.profiles]
  BY <1>7 DEF Rows
<1>10. [d.contact[p.contact] EXCEPT !.user = p.user] \in ContactRow
  BY DEF Planned, Rows, ContactRow, Exists
<1>11. e \in Rows
  BY <1>8, <1>9, <1>10 DEF Rows, Planned
<1>12. CASE p.profile # {}
  BY <1>5, <1>6, <1>9, <1>11, <1>12 DEF Granted
<1>13. CASE p.profile = {}
  <2>1. table = Append(kept, created)
    BY <1>6, <1>13
  <2>2. PICK n : n = Len(kept) + 1
    OBVIOUS
  <2>3. /\ DOMAIN table = DOMAIN d.profiles \cup {n}
        /\ n \notin DOMAIN d.profiles
        /\ \A i \in DOMAIN d.profiles : table[i] = kept[i]
        /\ table[n] = created
    BY <1>3, <1>5, <2>1, <2>2, AppendRows
  <2>4. \A i \in DOMAIN d.profiles : table[i] = Rewritten(d, p, i)
    BY <1>5, <2>3
  <2> HIDE DEF Rewritten
  <2> QED BY <1>2, <1>9, <1>11, <1>13, <2>3, <2>4 DEF Granted
<1> QED BY <1>12, <1>13

\* Granting a contact the access that was planned for it.
LEMMA EstablishedKeeps ==
    ASSUME NEW d, Good(d), NEW p, Planned(d, p), Exists(d, p.contact),
           d.contact[p.contact].user = p.row.user,
           NEW e, e = Established(d, p), OneDefault(e)
    PROVE  Good(e) /\ Grows(d, e)
<1> HIDE DEF Rewritten
<1>1. d \in Rows /\ p.first \in BOOLEAN
  BY DEF Good, Planned
<1>2. Granted(d, p, e)
  BY <1>1, EstablishedRows
<1>3. PICK c \in Contact, u \in User, P \in {p.profile} : c = p.contact /\ u = p.user
  BY DEF Planned
<1>4. /\ e \in Rows /\ e.client = d.client
      /\ e.contact = [d.contact EXCEPT ![c] = [@ EXCEPT !.user = u]]
      /\ P # {} => DOMAIN e.profiles = DOMAIN d.profiles
  BY <1>3, <1>2 DEF Granted
<1>5. ASSUME NEW i \in DOMAIN d.profiles
      PROVE  /\ i \in DOMAIN e.profiles
             /\ e.profiles[i].user = d.profiles[i].user
             /\ e.profiles[i].contact = d.profiles[i].contact
             /\ e.profiles[i].default <=> Default(p, i, d.profiles[i])
  BY <1>1, <1>2, RewrittenRow DEF Granted
<1>6. P = {} => \E n : /\ n \notin DOMAIN d.profiles
                       /\ DOMAIN e.profiles = DOMAIN d.profiles \cup {n}
                       /\ e.profiles[n].user = u
                       /\ e.profiles[n].contact = c
                       /\ e.profiles[n].default <=> p.first
  BY <1>3, <1>2 DEF Granted
<1>7. d.contact \in [Contact -> ContactRow \cup {None}] /\ d.contact[c] \in ContactRow
  BY <1>1, <1>3 DEF Rows, Exists
<1>8. /\ e.contact[c] \in ContactRow /\ e.contact[c].user = u
      /\ e.contact[c].primary = d.contact[c].primary /\ e.contact[c].active = d.contact[c].active
      /\ \A b \in Contact \ {c} : e.contact[b] = d.contact[b]
  BY <1>4, <1>7 DEF ContactRow
<1>9. \A b \in Contact : Exists(e, b) <=> Exists(d, b)
  BY <1>3, <1>8 DEF Exists
<1>10. ContactsSound(e)
  BY <1>3, <1>4, <1>8, <1>9
     DEF Good, ContactsSound, ContactsHaveClients, PrimariesAreActive, SolePrimary
<1>11. Grows(d, e)
  BY <1>4, <1>5 DEF Grows
<1>12. /\ P \subseteq DOMAIN d.profiles
       /\ \A i \in P : d.profiles[i].user = u /\ d.profiles[i].contact = c
       /\ P = {} <=> d.contact[c].user = None
       /\ P # {} => u = d.contact[c].user
  BY <1>3 DEF Planned, Own
<1>13. \A i \in DOMAIN d.profiles : d.profiles[i].contact = c => P # {} /\ d.profiles[i].user = u
  <2> SUFFICES ASSUME NEW i \in DOMAIN d.profiles, d.profiles[i].contact = c
               PROVE  P # {} /\ d.profiles[i].user = u
    OBVIOUS
  <2>1. d.profiles[i].user \in User /\ d.contact[c].user = d.profiles[i].user
    BY <1>1, ProfileRows DEF Good, LinksSound, ProfilesAreLinked, Profile
  <2> QED BY <1>12, <2>1
<1>14. LinkedHaveProfiles(e)
  <2>1. ASSUME NEW b \in Contact \ {c}, Exists(e, b), e.contact[b].user # None
        PROVE  \E i \in DOMAIN e.profiles : e.profiles[i].contact = b
    BY <1>5, <1>8, <1>9, <2>1 DEF Good, LinksSound, LinkedHaveProfiles
  <2>2. \E i \in DOMAIN e.profiles : e.profiles[i].contact = c
    BY <1>5, <1>6, <1>12
  <2> QED BY <2>1, <2>2 DEF LinkedHaveProfiles
<1>15. ProfilesAreLinked(e)
  <2>1. \A i \in DOMAIN d.profiles : d.profiles[i].contact # None =>
            /\ Exists(d, d.profiles[i].contact)
            /\ d.profiles[i].contact \in Contact
            /\ d.contact[d.profiles[i].contact].user = d.profiles[i].user
            /\ \A j \in DOMAIN d.profiles :
                   d.profiles[j].contact = d.profiles[i].contact => i = j
    BY <1>1, ProfileRows DEF Good, LinksSound, ProfilesAreLinked, Profile
  <2>2. ASSUME NEW i \in DOMAIN d.profiles, d.profiles[i].contact # None
        PROVE  e.contact[d.profiles[i].contact].user = d.profiles[i].user
    BY <1>8, <1>13, <2>1, <2>2
  <2>3. CASE P # {}
    BY <1>4, <1>5, <1>9, <2>1, <2>2, <2>3 DEF ProfilesAreLinked
  <2>4. CASE P = {}
    <3>1. \A i \in DOMAIN d.profiles : d.profiles[i].contact # c
      BY <1>13, <2>4
    <3>2. Exists(e, c) /\ e.contact[c].user = u
      BY <1>3, <1>8, <1>9
    <3> QED BY <1>5, <1>6, <1>9, <2>1, <2>2, <2>4, <3>1, <3>2 DEF ProfilesAreLinked
  <2> QED BY <2>3, <2>4
<1>16. SomeDefault(e)
  <2>1. \A i \in DOMAIN d.profiles : d.profiles[i].user # u
            => (e.profiles[i].default <=> d.profiles[i].default)
    BY <1>3, <1>5 DEF Default, Planned, Own
  <2>2. CASE p.first
    <3>1. \E j \in DOMAIN e.profiles : e.profiles[j].user = u /\ e.profiles[j].default
      BY <1>5, <1>6, <1>12, <2>2 DEF Default
    <3>2. ASSUME NEW i \in DOMAIN d.profiles, d.profiles[i].user # u
          PROVE  \E j \in DOMAIN d.profiles :
                    d.profiles[j].user = d.profiles[i].user /\ d.profiles[j].default
      BY DEF Good, DefaultsSound, SomeDefault
    <3>3. ASSUME NEW i \in DOMAIN e.profiles, e.profiles[i].user # u
          PROVE  i \in DOMAIN d.profiles
      BY <1>4, <1>6, <3>3
    <3> QED BY <1>5, <2>1, <3>1, <3>2, <3>3 DEF SomeDefault
  <2>3. CASE ~p.first
    <3>1. \A i \in DOMAIN d.profiles : d.profiles[i].default => e.profiles[i].default
      BY <1>3, <1>5, <2>3 DEF Default, Planned
    <3>2. \E i \in DOMAIN d.profiles : d.profiles[i].user = u
      BY <1>3, <2>3 DEF Planned, Own
    <3>3. ASSUME NEW i \in DOMAIN e.profiles
          PROVE  \E j \in DOMAIN d.profiles : d.profiles[j].user = e.profiles[i].user
      BY <1>4, <1>5, <1>6, <3>2
    <3> QED BY <1>5, <3>1, <3>3 DEF Good, DefaultsSound, SomeDefault
  <2> QED BY <2>2, <2>3
<1>17. SoleDefault(e)
  BY <1>4, IndexIsSole
<1> QED BY <1>4, <1>10, <1>11, <1>14, <1>15, <1>16, <1>17 DEF Good, LinksSound, DefaultsSound

\* Rows that differ in the profiles alone, and there only in who is active or default.
LEMMA ProfilesWritten ==
    ASSUME NEW d, Good(d), NEW e \in Rows, DefaultsSound(e),
           e.client = d.client, e.contact = d.contact,
           DOMAIN e.profiles = DOMAIN d.profiles,
           \A i \in DOMAIN d.profiles : /\ e.profiles[i].user = d.profiles[i].user
                                        /\ e.profiles[i].contact = d.profiles[i].contact
    PROVE  Good(e) /\ Grows(d, e)
<1>1. ContactsSound(e)
  BY DEF Good, ContactsSound, ContactsHaveClients, PrimariesAreActive, SolePrimary, Exists
<1>2. LinkedHaveProfiles(e)
  BY DEF Good, LinksSound, LinkedHaveProfiles, Exists
<1>3. ProfilesAreLinked(e)
  BY DEF Good, LinksSound, ProfilesAreLinked, Exists
<1> QED BY <1>1, <1>2, <1>3 DEF Good, LinksSound, Grows

\* A revocation leaves the defaults alone, and so the rows sound.
LEMMA RevokedKeeps ==
    ASSUME NEW d, Good(d), NEW off, NEW o \in SUBSET User,
           NEW t, t = [i \in DOMAIN d.profiles |->
                         IF i \in off THEN [d.profiles[i] EXCEPT !.active = FALSE]
                                      ELSE d.profiles[i]],
           NEW e, e = [d EXCEPT !.profiles = t, !.owners = o]
    PROVE  Good(e) /\ Grows(d, e)
<1>1. d \in Rows
  BY DEF Good
<1>2. \A i \in DOMAIN d.profiles : /\ t[i] \in Profile
                                   /\ t[i].user = d.profiles[i].user
                                   /\ t[i].contact = d.profiles[i].contact
                                   /\ t[i].default = d.profiles[i].default
  BY <1>1, ProfileRows DEF Profile
<1>3. t \in Seq(Profile) /\ DOMAIN t = DOMAIN d.profiles
  BY <1>1, <1>2, TableRows
<1>4. e \in Rows /\ e.profiles = t /\ e.client = d.client /\ e.contact = d.contact
  BY <1>1, <1>3 DEF Rows
<1>5. DefaultsSound(e)
  BY <1>2, <1>3, <1>4 DEF Good, DefaultsSound, SomeDefault, SoleDefault
<1> QED BY <1>2, <1>3, <1>4, <1>5, ProfilesWritten

\* Making a profile the default: the index says that there is no other.
LEMMA DefaultKeeps ==
    ASSUME NEW d, Good(d), NEW p, NEW S \in SUBSET DOMAIN d.profiles, p \in S,
           \A j \in S : d.profiles[j].user = d.profiles[p].user,
           NEW t, t = [j \in DOMAIN d.profiles |->
                         IF j \in S THEN [d.profiles[j] EXCEPT !.default = (j = p)]
                                    ELSE d.profiles[j]],
           NEW e, e = [d EXCEPT !.profiles = t], OneDefault(e)
    PROVE  Good(e) /\ Grows(d, e)
<1>1. d \in Rows
  BY DEF Good
<1>2. \A i \in DOMAIN d.profiles : /\ t[i] \in Profile
                                   /\ t[i].user = d.profiles[i].user
                                   /\ t[i].contact = d.profiles[i].contact
                                   /\ i \notin S => t[i].default = d.profiles[i].default
  BY <1>1, ProfileRows DEF Profile
<1>3. t[p].default
  BY <1>1, ProfileRows DEF Profile
<1>4. t \in Seq(Profile) /\ DOMAIN t = DOMAIN d.profiles
  BY <1>1, <1>2, TableRows
<1>5. e \in Rows /\ e.profiles = t /\ e.client = d.client /\ e.contact = d.contact
  BY <1>1, <1>4 DEF Rows
<1>6. SomeDefault(e)
  BY <1>2, <1>3, <1>4, <1>5 DEF Good, DefaultsSound, SomeDefault
<1>7. SoleDefault(e)
  BY <1>5, IndexIsSole
<1>8. DefaultsSound(e)
  BY <1>6, <1>7 DEF DefaultsSound
<1>9. /\ DOMAIN e.profiles = DOMAIN d.profiles
      /\ \A i \in DOMAIN d.profiles : /\ e.profiles[i].user = d.profiles[i].user
                                       /\ e.profiles[i].contact = d.profiles[i].contact
  BY <1>2, <1>4, <1>5
<1> QED BY <1>5, <1>8, <1>9, ProfilesWritten

\* Rows that differ in the contacts alone, where nobody is linked to another user.
LEMMA ContactsWritten ==
    ASSUME NEW d, Good(d), NEW e \in Rows, ContactsSound(e),
           e.client = d.client, e.profiles = d.profiles,
           \A c \in Contact :
              IF Exists(d, c) THEN Exists(e, c) /\ e.contact[c].user = d.contact[c].user
                              ELSE Exists(e, c) => e.contact[c].user = None
    PROVE  Good(e) /\ Grows(d, e)
<1>1. d \in Rows
  BY DEF Good
<1>2. LinkedHaveProfiles(e)
  BY DEF Good, LinksSound, LinkedHaveProfiles
<1>3. \A i \in DOMAIN d.profiles : d.profiles[i].contact \in Contact \cup {None}
  BY <1>1, ProfileRows DEF Profile
<1>4. ProfilesAreLinked(e)
  BY <1>3 DEF Good, LinksSound, ProfilesAreLinked
<1>5. DefaultsSound(e)
  BY DEF Good, DefaultsSound, SomeDefault, SoleDefault
<1> QED BY <1>2, <1>4, <1>5 DEF Good, LinksSound, Grows

\* A contact that is written as it is, inactive and not primary, or with another address.
LEMMA ContactKeeps ==
    ASSUME NEW d, Good(d), NEW c \in Contact, NEW row \in ContactRow,
           row.primary => Exists(d, c) /\ d.contact[c].primary /\ row.active,
           IF Exists(d, c) THEN row.user = d.contact[c].user ELSE row.user = None,
           d.client[ClientOf[c]] # None \/ Exists(d, c),
           NEW e, e = [d EXCEPT !.contact[c] = row]
    PROVE  Good(e) /\ Grows(d, e)
<1>1. d \in Rows
  BY DEF Good
<1>2. PICK f : f = [d.contact EXCEPT ![c] = row]
  OBVIOUS
<1>3. /\ d.contact \in [Contact -> ContactRow \cup {None}]
      /\ f \in [Contact -> ContactRow \cup {None}]
      /\ f[c] = row /\ \A b \in Contact \ {c} : f[b] = d.contact[b]
      /\ e \in Rows /\ e.contact = f /\ e.client = d.client /\ e.profiles = d.profiles
  BY <1>1, <1>2 DEF Rows
<1>4. ContactsSound(e)
  BY <1>3 DEF Good, ContactsSound, ContactsHaveClients, PrimariesAreActive, SolePrimary, Exists
<1>5. \A b \in Contact :
         IF Exists(d, b) THEN Exists(e, b) /\ e.contact[b].user = d.contact[b].user
                         ELSE Exists(e, b) => e.contact[b].user = None
  BY <1>3 DEF Exists
<1> QED BY <1>3, <1>4, <1>5, ContactsWritten

\* Making a contact the primary: the index says that there is no other.
LEMMA PrimaryKeeps ==
    ASSUME NEW d, Good(d), NEW S \in SUBSET Contact, NEW c \in S,
           \A b \in S : d.contact[b] \in ContactRow,
           d.contact[c].active,
           NEW f, f = [b \in Contact |->
                         IF b \in S THEN [d.contact[b] EXCEPT !.primary = (b = c)]
                                    ELSE d.contact[b]],
           NEW e, e = [d EXCEPT !.contact = f], OnePrimary(e)
    PROVE  Good(e) /\ Grows(d, e)
<1>1. d \in Rows /\ d.contact \in [Contact -> ContactRow \cup {None}]
  BY DEF Good, Rows
<1>2. ASSUME NEW b \in S
      PROVE  /\ f[b] \in ContactRow
             /\ f[b].primary <=> b = c
             /\ f[b].active <=> d.contact[b].active
             /\ f[b].user = d.contact[b].user
  BY <1>2 DEF ContactRow
<1>3. \A b \in Contact \ S : f[b] = d.contact[b]
  OBVIOUS
<1>4. f \in [Contact -> ContactRow \cup {None}]
  BY <1>1, <1>2, <1>3
<1>5. e \in Rows /\ e.contact = f /\ e.client = d.client /\ e.profiles = d.profiles
  BY <1>1, <1>4 DEF Rows
<1>6. \A b \in Contact : Exists(e, b) <=> Exists(d, b)
  BY <1>2, <1>3, <1>5 DEF Exists
<1>7. PrimariesAreActive(e)
  <2> SUFFICES ASSUME NEW b \in Contact, Exists(e, b), e.contact[b].primary
               PROVE  e.contact[b].active
    BY DEF PrimariesAreActive
  <2>1. CASE b \in S
    BY <1>2, <1>5, <2>1
  <2>2. CASE b \notin S
    BY <1>3, <1>5, <1>6, <2>2 DEF Good, ContactsSound, PrimariesAreActive
  <2> QED BY <2>1, <2>2
<1>8. SolePrimary(e)
  <2>1. ASSUME NEW b \in Contact \ {c}, Exists(e, b), e.contact[b].primary
        PROVE  Exists(d, b) /\ d.contact[b].primary
    <3>1. b \notin S
      BY <1>2, <1>5, <2>1
    <3> QED BY <1>3, <1>5, <1>6, <2>1, <3>1
  <2>2. ASSUME NEW b \in Contact \ {c}, Exists(e, b), e.contact[b].primary, Exists(e, c),
               e.contact[c].primary, ClientOf[b] = ClientOf[c]
        PROVE  FALSE
    <3>1. PICK T : T = {x \in OfClient(e, ClientOf[c]) : e.contact[x].active /\ e.contact[x].primary}
      OBVIOUS
    <3>2. b \in T /\ c \in T
      BY <1>7, <2>2, <3>1 DEF OfClient, PrimariesAreActive
    <3>3. T \subseteq {b, c}
      <4> SUFFICES ASSUME NEW x \in T, x # c PROVE x = b
        OBVIOUS
      <4>1. x \in Contact /\ Exists(e, x) /\ e.contact[x].primary /\ ClientOf[x] = ClientOf[b]
        BY <2>2, <3>1 DEF OfClient
      <4>2. Exists(d, x) /\ d.contact[x].primary /\ Exists(d, b) /\ d.contact[b].primary
        BY <2>1, <2>2, <4>1
      <4> QED BY <4>1, <4>2 DEF Good, ContactsSound, SolePrimary
    <3>4. IsFiniteSet({b, c})
      <4>1. IsFiniteSet({b}) /\ {b, c} = {b} \cup {c}
        BY FS_Singleton
      <4>2. IsFiniteSet({b} \cup {c})
        BY <4>1, FS_AddElement
      <4> QED BY <4>1, <4>2
    <3>5. IsFiniteSet(T)
      BY <3>3, <3>4, FS_Subset
    <3>6. ClientOf[c] \in Client
      OBVIOUS
    <3>7. Cardinality(T) <= 1
      BY <3>1, <3>6 DEF OnePrimary
    <3> QED BY <3>2, <3>5, <3>7, AtMostOne
  <2> QED BY <2>1, <2>2 DEF SolePrimary, Good, ContactsSound
<1>9. ContactsSound(e)
  BY <1>5, <1>6, <1>7, <1>8 DEF Good, ContactsSound, ContactsHaveClients
<1>10. \A b \in Contact :
          IF Exists(d, b) THEN Exists(e, b) /\ e.contact[b].user = d.contact[b].user
                          ELSE Exists(e, b) => e.contact[b].user = None
  BY <1>2, <1>3, <1>5, <1>6
<1> QED BY <1>5, <1>9, <1>10, ContactsWritten

\* What a new plan is made from.
LEMMA PlanKnows ==
    ASSUME NEW d, Good(d), NEW c \in Contact, Exists(d, c), NEW p, p = Plan(d, c)
    PROVE  Planned(d, p) /\ p.contact = c /\ p.row = d.contact[c]
<1>1. d \in Rows /\ d.contact[c] \in ContactRow
  BY DEF Good, Rows, Exists
<1>2. PICK u : u = UserFor(d, c)
  OBVIOUS
<1>3. u \in User /\ (d.contact[c].user # None => u = d.contact[c].user)
  BY <1>1, <1>2 DEF UserFor, ContactRow
<1>4. PICK P : P = ProfileFor(d, u, c)
  OBVIOUS
<1>5. PICK stale : stale = IF HasDefault(d, u) THEN {}
                                              ELSE {i \in Own(d, u) : d.profiles[i].default}
  OBVIOUS
<1>6. /\ p.contact = c /\ p.user = u /\ p.row = d.contact[c] /\ p.profile = P
      /\ p.newUser \in BOOLEAN /\ p.newRole \in BOOLEAN
      /\ p.first = ~HasDefault(d, u)
      /\ DOMAIN p.seen = P \cup stale
  BY <1>2, <1>4, <1>5 DEF Plan
<1>7. P \subseteq Own(d, u) /\ \A i \in P : d.profiles[i].contact = c
  BY <1>4 DEF ProfileFor
<1>8. stale \subseteq Own(d, u)
  BY <1>5
<1>9. d.contact[c].user = None <=> P = {}
  <2>1. ASSUME d.contact[c].user # None PROVE P # {}
    <3>1. PICK i \in DOMAIN d.profiles : d.profiles[i].contact = c
      BY <2>1 DEF Good, LinksSound, LinkedHaveProfiles
    <3>2. c # None
      OBVIOUS
    <3>3. d.profiles[i].user = u
      BY <1>3, <2>1, <3>1, <3>2 DEF Good, LinksSound, ProfilesAreLinked
    <3> QED BY <1>4, <3>1, <3>3 DEF ProfileFor, Own
  <2>2. ASSUME NEW i \in P PROVE d.contact[c].user # None
    <3>1. i \in DOMAIN d.profiles /\ d.profiles[i].contact = c /\ c # None
      BY <1>7, <2>2 DEF Own
    <3>2. d.profiles[i].user \in User
      BY <1>1, <3>1, ProfileRows DEF Profile
    <3> QED BY <3>1, <3>2 DEF Good, LinksSound, ProfilesAreLinked
  <2> QED BY <2>1, <2>2
<1>10. HasDefault(d, u) => stale = {} /\ Own(d, u) # {}
  BY <1>5 DEF HasDefault
<1> QED BY <1>1, <1>3, <1>6, <1>7, <1>8, <1>9, <1>10 DEF Planned

----------------------------------------------------------------------------
(* The steps *)

\* A user's first profile is the default.
LEMMA InitGood == Init => PortalInv
<1> SUFFICES ASSUME Init PROVE PortalInv
  OBVIOUS
<1>1. PICK users \in SUBSET User :
        db = [client |-> [k \in Client |-> None], contact |-> [c \in Contact |-> None],
              users |-> users, owners |-> {},
              profiles |-> SetToSeq([user : users, contact : {None}, active : {TRUE},
                                     default : {TRUE}])]
  BY DEF Init
<1>2. PICK S : S = [user : users, contact : {None}, active : {TRUE}, default : {TRUE}]
  OBVIOUS
<1>3. ASSUME NEW x \in S
      PROVE  /\ x.user \in users /\ x.contact = None /\ x.default
             /\ x.active \in BOOLEAN /\ x.default \in BOOLEAN
             /\ x = [user |-> x.user, contact |-> None, active |-> TRUE, default |-> TRUE]
  <2>1. /\ x.user \in users /\ x.contact = None
        /\ x.active \in {TRUE} /\ x.default \in {TRUE}
        /\ x = [user |-> x.user, contact |-> x.contact, active |-> x.active,
                default |-> x.default]
    BY <1>2, <1>3
  <2>2. x.active = TRUE /\ x.default = TRUE /\ x.default
    BY <2>1, Zenon
  <2>3. x = [user |-> x.user, contact |-> None, active |-> TRUE, default |-> TRUE]
    BY <2>1, <2>2, Zenon
  <2>4. x.active \in BOOLEAN /\ x.default \in BOOLEAN
    BY <2>2, Zenon
  <2> QED BY <2>1, <2>2, <2>3, <2>4, Zenon
<1>4. IsFiniteSet(S)
  <2>1. IsFiniteSet(users)
    BY UserAssumption, FS_Subset
  <2>2. PICK f : f = [u \in users |-> [user |-> u, contact |-> None, active |-> TRUE,
                                      default |-> TRUE]]
    OBVIOUS
  <2>3. f \in [users -> S]
    BY <1>2, <2>2
  <2>4. \A x \in S : \E u \in users : f[u] = x
    BY <1>3, <2>2, Zenon
  <2>5. f \in Surjection(users, S)
    BY <2>3, <2>4 DEF Surjection
  <2> QED BY <2>1, <2>5, FS_Surjection
<1>5. PICK n \in Nat : n = Cardinality(S)
  BY <1>4, FS_CardinalityType
<1>6. PICK t : t = SetToSeq(S)
  OBVIOUS
<1>7. t \in [1 .. n -> S] /\ \A i, j \in 1 .. n : t[i] = t[j] => i = j
  <2>1. PICK f \in Bijection(1 .. n, S) : TRUE
    BY <1>4, <1>5, FS_CardinalityType DEF ExistsBijection
  <2>2. f \in [1 .. n -> S] /\ IsInjective(f)
    BY <2>1 DEF Bijection, Injection
  <2>3. t \in [1 .. n -> S] /\ IsInjective(t)
    BY <1>5, <1>6, <2>2 DEF SetToSeq
  <2> QED BY <2>3 DEF IsInjective
<1>8. /\ t \in Seq(Profile) /\ DOMAIN t = 1 .. n
      /\ \A i \in 1 .. n : t[i].contact = None /\ t[i].default
      /\ \A i, j \in 1 .. n : t[i].user = t[j].user => i = j
  <2>1. ASSUME NEW x \in S PROVE x \in Profile /\ x.contact = None /\ x.default
    <3>1. PICK u \in users, b \in BOOLEAN, a \in BOOLEAN :
            x = [user |-> u, contact |-> None, active |-> a, default |-> b]
      BY <1>3, <2>1, Zenon
    <3> QED BY <1>3, <2>1, <3>1 DEF Profile
  <2>2. \A x, y \in S : x.user = y.user => x = y
    BY <1>3, Zenon
  <2> QED BY <1>7, <2>1, <2>2
<1>9. /\ db.client = [k \in Client |-> None] /\ db.contact = [c \in Contact |-> None]
      /\ db.profiles = t
      /\ db \in Rows
  BY <1>1, <1>2, <1>6, <1>8 DEF Rows
<1>10. \A c \in Contact : ~Exists(db, c)
  BY <1>9 DEF Exists
<1>11. ContactsSound(db) /\ LinksSound(db)
  BY <1>8, <1>9, <1>10
     DEF ContactsSound, ContactsHaveClients, PrimariesAreActive, SolePrimary,
         LinksSound, LinkedHaveProfiles, ProfilesAreLinked
<1>12. DefaultsSound(db)
  BY <1>8, <1>9 DEF DefaultsSound, SomeDefault, SoleDefault
<1>13. DOMAIN request = Request /\ \A r \in Request : request[r].pc = "idle"
  BY DEF Init, Idle
<1> QED BY <1>9, <1>11, <1>12, <1>13 DEF PortalInv, Good, Knows

\* A step that moves one request, over rows that stay sound.
LEMMA MoveKeeps ==
    ASSUME PortalInv, NEW r \in Request, NEW q, Become(r, q),
           Good(db'), Grows(db, db'), Knows(db', q)
    PROVE  PortalInv'
<1>1. /\ DOMAIN request' = Request /\ request'[r] = q
      /\ \A s \in Request \ {r} : request'[s] = request[s]
  BY DEF PortalInv, Become
<1>2. \A s \in Request : Knows(db', request[s])
  BY StaysKnown DEF PortalInv, Good
<1> QED BY <1>1, <1>2 DEF PortalInv

\* A step that ends a request.
LEMMA EndKeeps ==
    ASSUME PortalInv, NEW r \in Request, Become(r, Idle), Good(db'), Grows(db, db')
    PROVE  PortalInv'
<1>1. Knows(db', Idle)
  BY DEF Knows, Idle
<1> QED BY <1>1, MoveKeeps

\* A step that only reads.
LEMMA ReadKeeps ==
    ASSUME PortalInv, NEW r \in Request, NEW q, Become(r, q), UNCHANGED db, Knows(db, q)
    PROVE  PortalInv'
<1>1. Good(db') /\ Grows(db, db') /\ Knows(db', q)
  BY DEF PortalInv, Grows
<1> QED BY <1>1, MoveKeeps

\* A step of one statement.
LEMMA StatementKeeps ==
    ASSUME PortalInv, UNCHANGED request, Good(db'), Grows(db, db')
    PROVE  PortalInv'
<1>1. \A s \in Request : Knows(db', request[s])
  BY StaysKnown DEF PortalInv, Good
<1> QED BY <1>1 DEF PortalInv

LEMMA OnboardStarts ==
    ASSUME PortalInv, NEW r \in Request, NEW c \in Contact, BeginOnboard(r, c)
    PROVE  PortalInv'
<1>1. PICK e : e = WithClient(db, c)
  OBVIOUS
<1>2. PICK p : p = Plan(e, c)
  OBVIOUS
<1>3. /\ Good(e) /\ Exists(e, c) /\ e.contact[c].user = None /\ e.profiles = db.profiles
  BY <1>1, WithClientKeeps DEF BeginOnboard, PortalInv
<1>4. Planned(e, p) /\ p.row.user = None
  BY <1>2, <1>3, PlanKnows
<1>5. Planned(db, p)
  BY <1>3, <1>4 DEF Planned, Own
<1>6. PICK q : q = [pc |-> "onboard", plan |-> p]
  OBVIOUS
<1>7. Knows(db, q)
  BY <1>4, <1>5, <1>6 DEF Knows
<1>8. Become(r, q) /\ UNCHANGED db
  BY <1>1, <1>2, <1>6 DEF BeginOnboard
<1> QED BY <1>7, <1>8, ReadKeeps

LEMMA OnboardCommits ==
    ASSUME PortalInv, NEW r \in Request, CommitOnboard(r)
    PROVE  PortalInv'
<1>1. PICK p : p = request[r].plan
  OBVIOUS
<1>2. Planned(db, p) /\ p.row.user = None
  BY <1>1 DEF PortalInv, Knows, CommitOnboard, At
<1>3. PICK c \in Contact : c = p.contact
  BY <1>2 DEF Planned
<1>4. PICK d : d = WithClient(db, c)
  OBVIOUS
<1>5. /\ Good(d) /\ Grows(db, d) /\ Exists(d, c) /\ d.contact[c].user = None
      /\ d.profiles = db.profiles
  BY <1>1, <1>3, <1>4, WithClientKeeps DEF CommitOnboard, PortalInv
<1>6. CASE db' = d
  BY <1>5, <1>6, EndKeeps DEF CommitOnboard
<1>7. CASE db' = Established(d, p) /\ OneDefault(db')
  <2>1. Planned(d, p)
    BY <1>2, <1>5 DEF Planned, Own
  <2>2. PICK e : e = Established(d, p)
    OBVIOUS
  <2>3. Good(e) /\ Grows(d, e)
    BY <1>2, <1>3, <1>5, <1>7, <2>1, <2>2, EstablishedKeeps
  <2>4. Grows(db, e)
    BY <1>5, <2>3 DEF Grows
  <2> QED BY <1>7, <2>2, <2>3, <2>4, EndKeeps DEF CommitOnboard
<1> QED BY <1>1, <1>3, <1>4, <1>6, <1>7 DEF CommitOnboard

LEMMA GrantStarts ==
    ASSUME PortalInv, NEW r \in Request, NEW c \in Contact, BeginGrant(r, c)
    PROVE  PortalInv'
<1>1. PICK p : p = Plan(db, c)
  OBVIOUS
<1>2. Planned(db, p)
  BY <1>1, PlanKnows DEF BeginGrant, PortalInv
<1>3. PICK q : q = [pc |-> "grant", plan |-> p]
  OBVIOUS
<1>4. Knows(db, q)
  BY <1>2, <1>3 DEF Knows
<1>5. Become(r, q) /\ UNCHANGED db
  BY <1>1, <1>3 DEF BeginGrant
<1> QED BY <1>4, <1>5, ReadKeeps

LEMMA GrantCommits ==
    ASSUME PortalInv, NEW r \in Request, CommitGrant(r)
    PROVE  PortalInv'
<1>1. PICK p : p = request[r].plan
  OBVIOUS
<1>2. Planned(db, p)
  BY <1>1 DEF PortalInv, Knows, CommitGrant, At
<1>3. db.contact[p.contact] = p.row /\ p.row \in ContactRow
  BY <1>1, <1>2 DEF CommitGrant, Unwritten, Planned
<1>4. Exists(db, p.contact) /\ db.contact[p.contact].user = p.row.user
  BY <1>3 DEF Exists
<1>5. PICK e : e = Established(db, p)
  OBVIOUS
<1>6. db' = e /\ OneDefault(e)
  BY <1>1, <1>5 DEF CommitGrant
<1>7. Good(e) /\ Grows(db, e)
  BY <1>2, <1>4, <1>5, <1>6, EstablishedKeeps DEF PortalInv
<1> QED BY <1>6, <1>7, EndKeeps DEF CommitGrant

LEMMA RevokeStarts ==
    ASSUME PortalInv, NEW r \in Request,
           CheckOther(r) \/ \E c \in Contact : BeginRevoke(r, c)
    PROVE  PortalInv'
<1>1. ASSUME NEW u \in User, NEW off, off \subseteq Own(db, u), NEW q, Become(r, q), UNCHANGED db,
             q.pc \in {"check", "revoke"}, q.user = u, q.off = off
      PROVE  PortalInv'
  BY <1>1, ReadKeeps DEF Knows
<1>2. ASSUME NEW c \in Contact, BeginRevoke(r, c) PROVE PortalInv'
  <2>1. db.contact[c].user \in User
    BY <1>2 DEF PortalInv, Good, Rows, BeginRevoke, Exists, ContactRow
  <2>2. PICK u \in User : u = db.contact[c].user
    BY <2>1
  <2>3. PICK off \in SUBSET Own(db, u) :
          Become(r, [pc |-> "check", user |-> u, off |-> off]) /\ UNCHANGED db
    BY <1>2, <2>2 DEF BeginRevoke
  <2> QED BY <1>1, <2>3
<1>3. CASE CheckOther(r)
  <2>1. PICK u \in User, off \in SUBSET DOMAIN db.profiles :
          u = request[r].user /\ off = request[r].off /\ off \subseteq Own(db, u)
    BY <1>3 DEF CheckOther, At, PortalInv, Knows, Own
  <2>2. PICK q : q = [pc |-> "revoke", user |-> u, off |-> off, last |-> ~OtherActive(u, off)]
    OBVIOUS
  <2>3. Become(r, q) /\ UNCHANGED db
    BY <1>3, <2>1, <2>2 DEF CheckOther
  <2>4. q.pc = "revoke" /\ q.user = u /\ q.off = off
    BY <2>2
  <2> QED BY <1>1, <2>1, <2>3, <2>4
<1> QED BY <1>2, <1>3

LEMMA RevokeCommits ==
    ASSUME PortalInv, NEW r \in Request, CommitRevoke(r)
    PROVE  PortalInv'
<1>1. PICK off : off = request[r].off
  OBVIOUS
<1>2. PICK o \in SUBSET User :
        o = IF request[r].last THEN db.owners \ {request[r].user} ELSE db.owners
  BY DEF PortalInv, Good, Rows
<1>3. PICK t : t = [i \in DOMAIN db.profiles |->
                      IF i \in off THEN [db.profiles[i] EXCEPT !.active = FALSE]
                                   ELSE db.profiles[i]]
  OBVIOUS
<1>4. PICK e : e = [db EXCEPT !.profiles = t, !.owners = o]
  OBVIOUS
<1>5. db' = e
  BY <1>1, <1>2, <1>3, <1>4 DEF CommitRevoke
<1>6. Good(e) /\ Grows(db, e)
  BY <1>3, <1>4, RevokedKeeps DEF PortalInv
<1> QED BY <1>5, <1>6, EndKeeps DEF CommitRevoke

LEMMA AddingKeeps ==
    ASSUME PortalInv, NEW r \in Request, AddContact(r) \/ \E c \in Contact : CheckClient(r, c)
    PROVE  PortalInv'
<1>1. ASSUME NEW c \in Contact, CheckClient(r, c) PROVE PortalInv'
  <2>1. PICK q : q = [pc |-> "add", contact |-> c]
    OBVIOUS
  <2>2. db.client[ClientOf[c]] \in BOOLEAN
    BY <1>1, Zenon DEF CheckClient
  <2>3. Knows(db, q)
    BY <2>1, <2>2 DEF Knows
  <2> QED BY <1>1, <2>1, <2>3, ReadKeeps DEF CheckClient
<1>2. CASE AddContact(r)
  <2>1. PICK c \in Contact : c = request[r].contact /\ db.client[ClientOf[c]] # None
    BY <1>2 DEF AddContact, At, PortalInv, Knows
  <2>2. PICK row \in ContactRow : row = [active |-> TRUE, primary |-> FALSE, email |-> Owner[c],
                                         user |-> None]
    BY DEF ContactRow
  <2>3. PICK e : e = [db EXCEPT !.contact[c] = row]
    OBVIOUS
  <2>4. db' = e /\ ~Exists(db, c)
    BY <1>2, <2>1, <2>2, <2>3 DEF AddContact
  <2>5. ~row.primary /\ row.user = None
    BY <2>2
  <2>6. Good(e) /\ Grows(db, e)
    BY <2>1, <2>3, <2>4, <2>5, ContactKeeps DEF PortalInv
  <2> QED BY <1>2, <2>4, <2>6, EndKeeps DEF AddContact
<1> QED BY <1>1, <1>2

\* The statements that change one contact.
LEMMA ContactChanges ==
    ASSUME PortalInv, NEW r \in Request, NEW c \in Contact,
           Deactivate(r, c) \/ Reactivate(r, c) \/ \E u \in User : ChangeEmail(r, c, u)
    PROVE  PortalInv'
<1>1. Exists(db, c) /\ UNCHANGED request
  BY DEF Deactivate, Reactivate, ChangeEmail
<1>2. PICK old \in ContactRow : old = db.contact[c]
  BY <1>1 DEF PortalInv, Good, Rows, Exists
<1>3. old.primary => old.active
  BY <1>1, <1>2 DEF PortalInv, Good, ContactsSound, PrimariesAreActive
<1>4. ASSUME NEW row \in ContactRow, row.user = old.user, row.primary => old.primary /\ row.active,
             NEW e, e = [db EXCEPT !.contact[c] = row], db' = e
      PROVE  PortalInv'
  <2>1. Good(e) /\ Grows(db, e)
    BY <1>1, <1>2, <1>4, ContactKeeps DEF PortalInv
  <2> QED BY <1>1, <1>4, <2>1, StatementKeeps
<1>5. CASE Deactivate(r, c)
  <2>1. PICK row : row = Deactivated(old)
    OBVIOUS
  <2>2. row \in ContactRow /\ row.user = old.user /\ ~row.primary
    BY <2>1 DEF Deactivated, ContactRow
  <2>3. db' = [db EXCEPT !.contact[c] = row]
    BY <1>2, <1>5, <2>1 DEF Deactivate
  <2> QED BY <1>4, <2>2, <2>3
<1>6. CASE Reactivate(r, c)
  <2>1. PICK row : row = [old EXCEPT !.active = TRUE]
    OBVIOUS
  <2>2. row \in ContactRow /\ row.user = old.user /\ row.active /\ (row.primary <=> old.primary)
    BY <2>1 DEF ContactRow
  <2>3. db' = [db EXCEPT !.contact[c] = row]
    BY <1>2, <1>6, <2>1 DEF Reactivate, PortalInv, Good, Rows
  <2> QED BY <1>4, <2>2, <2>3
<1>7. ASSUME NEW u \in User, ChangeEmail(r, c, u) PROVE PortalInv'
  <2>1. PICK row : row = [old EXCEPT !.email = u]
    OBVIOUS
  <2>2. /\ row \in ContactRow /\ row.user = old.user
        /\ row.active <=> old.active
        /\ row.primary <=> old.primary
    BY <2>1 DEF ContactRow
  <2>3. db' = [db EXCEPT !.contact[c] = row]
    BY <1>2, <1>7, <2>1 DEF ChangeEmail, PortalInv, Good, Rows
  <2> QED BY <1>3, <1>4, <2>2, <2>3
<1> QED BY <1>5, <1>6, <1>7

LEMMA PrimaryChanges ==
    ASSUME PortalInv, NEW r \in Request, CommitPrimary(r) \/ \E c \in Contact : BeginPrimary(r, c)
    PROVE  PortalInv'
<1>1. ASSUME NEW c \in Contact, BeginPrimary(r, c) PROVE PortalInv'
  <2>1. PICK S : S = {b \in OfClient(db, ClientOf[c]) : db.contact[b].primary} \cup {c}
    OBVIOUS
  <2>2. PICK q : q = [pc |-> "primary", contact |-> c, seen |-> [b \in S |-> db.contact[b]]]
    OBVIOUS
  <2>3. Become(r, q) /\ UNCHANGED db /\ db.contact[c].active /\ Exists(db, c)
    BY <1>1, <2>1, <2>2 DEF BeginPrimary
  <2>4. S \subseteq Contact /\ c \in S /\ \A b \in S : Exists(db, b)
    BY <2>1, <2>3 DEF OfClient
  <2>5. \A b \in S : db.contact[b] \in ContactRow
    BY <2>4 DEF PortalInv, Good, Rows, Exists
  <2>6. Knows(db, q)
    BY <2>2, <2>3, <2>4, <2>5 DEF Knows
  <2> QED BY <2>3, <2>6, ReadKeeps
<1>2. CASE CommitPrimary(r)
  <2>1. PICK c, S : c = request[r].contact /\ S = DOMAIN request[r].seen
    OBVIOUS
  <2>2. /\ S \subseteq Contact /\ c \in S
        /\ \A b \in S : db.contact[b] \in ContactRow
        /\ db.contact[c].active
    BY <1>2, <2>1 DEF CommitPrimary, At, PortalInv, Knows
  <2>3. PICK f : f = [b \in Contact |-> IF b \in S THEN [db.contact[b] EXCEPT !.primary = (b = c)]
                                                   ELSE db.contact[b]]
    OBVIOUS
  <2>4. PICK e : e = [db EXCEPT !.contact = f]
    OBVIOUS
  <2>5. db' = e /\ OnePrimary(e)
    BY <1>2, <2>1, <2>3, <2>4 DEF CommitPrimary
  <2>6. Good(e) /\ Grows(db, e)
    BY <2>2, <2>3, <2>4, <2>5, PrimaryKeeps DEF PortalInv
  <2> QED BY <1>2, <2>5, <2>6, EndKeeps DEF CommitPrimary
<1> QED BY <1>1, <1>2

LEMMA DefaultChanges ==
    ASSUME PortalInv, NEW r \in Request,
           CommitDefault(r) \/ \E i \in DOMAIN db.profiles : BeginDefault(r, i)
    PROVE  PortalInv'
<1>1. ASSUME NEW i \in DOMAIN db.profiles, BeginDefault(r, i) PROVE PortalInv'
  <2>1. PICK S : S = {j \in Own(db, db.profiles[i].user) : db.profiles[j].default} \cup {i}
    OBVIOUS
  <2>2. PICK q : q = [pc |-> "default", profile |-> i, seen |-> [j \in S |-> db.profiles[j]]]
    OBVIOUS
  <2>3. Become(r, q) /\ UNCHANGED db
    BY <1>1, <2>1, <2>2 DEF BeginDefault
  <2>4. /\ S \subseteq DOMAIN db.profiles /\ i \in S
        /\ \A j \in S : db.profiles[j].user = db.profiles[i].user
    BY <2>1 DEF Own
  <2>5. Knows(db, q)
    BY <2>2, <2>4 DEF Knows
  <2> QED BY <2>3, <2>5, ReadKeeps
<1>2. CASE CommitDefault(r)
  <2>1. PICK i, S : i = request[r].profile /\ S = DOMAIN request[r].seen
    OBVIOUS
  <2>2. /\ i \in S /\ S \subseteq DOMAIN db.profiles
        /\ \A j \in S : db.profiles[j].user = db.profiles[i].user
    BY <1>2, <2>1 DEF CommitDefault, At, PortalInv, Knows
  <2>3. PICK t : t = [j \in DOMAIN db.profiles |->
                        IF j \in S THEN [db.profiles[j] EXCEPT !.default = (j = i)]
                                   ELSE db.profiles[j]]
    OBVIOUS
  <2>4. PICK e : e = [db EXCEPT !.profiles = t]
    OBVIOUS
  <2>5. db' = e /\ OneDefault(e)
    BY <1>2, <2>1, <2>3, <2>4 DEF CommitDefault
  <2>6. Good(e) /\ Grows(db, e)
    BY <2>2, <2>3, <2>4, <2>5, DefaultKeeps DEF PortalInv
  <2> QED BY <1>2, <2>5, <2>6, EndKeeps DEF CommitDefault
<1> QED BY <1>1, <1>2

LEMMA ClientChanges ==
    ASSUME PortalInv, NEW r \in Request, NEW k \in Client, NEW b \in BOOLEAN,
           SetClientActive(r, k, b)
    PROVE  PortalInv'
<1>1. PICK e : e = [db EXCEPT !.client[k] = b]
  OBVIOUS
<1>2. db' = e /\ UNCHANGED request
  BY <1>1 DEF SetClientActive
<1>3. /\ db \in Rows /\ e \in Rows
      /\ e.client = [db.client EXCEPT ![k] = b]
      /\ e.contact = db.contact /\ e.profiles = db.profiles
  BY <1>1 DEF PortalInv, Good, Rows
<1>4. \A x \in Client : db.client[x] # None => e.client[x] # None
  BY <1>3 DEF Rows
<1>5. \A c : Exists(e, c) <=> Exists(db, c)
  BY <1>3 DEF Exists
<1>6. ContactsSound(e)
  BY <1>3, <1>4, <1>5
     DEF PortalInv, Good, ContactsSound, ContactsHaveClients, PrimariesAreActive, SolePrimary
<1>7. LinksSound(e)
  BY <1>3, <1>5 DEF PortalInv, Good, LinksSound, LinkedHaveProfiles, ProfilesAreLinked
<1>8. DefaultsSound(e)
  BY <1>3 DEF PortalInv, Good, DefaultsSound, SomeDefault, SoleDefault
<1>9. Good(e) /\ Grows(db, e)
  BY <1>3, <1>4, <1>6, <1>7, <1>8 DEF Good, Grows
<1> QED BY <1>2, <1>9, StatementKeeps

LEMMA StepKeeps ==
    ASSUME PortalInv, NEW C \in SUBSET Contact, NEW N \in SUBSET Contact, Step(C, N)
    PROVE  PortalInv'
<1>1. ASSUME NEW r \in Request, Fail(r) PROVE PortalInv'
  <2>1. Good(db') /\ Grows(db, db')
    BY <1>1 DEF Fail, PortalInv, Grows
  <2> QED BY <1>1, <2>1, EndKeeps DEF Fail
<1> QED BY <1>1, OnboardStarts, OnboardCommits, GrantStarts, GrantCommits, RevokeStarts,
           RevokeCommits, AddingKeeps, ContactChanges, PrimaryChanges, DefaultChanges,
           ClientChanges
        DEF Step

LEMMA NextKeeps == PortalInv /\ [Next]_vars => PortalInv'
<1>1. PortalInv /\ UNCHANGED vars => PortalInv'
  BY DEF PortalInv, vars
<1> QED BY <1>1, StepKeeps DEF Next

LEMMA PortalInvHolds == Spec => []PortalInv
BY InitGood, NextKeeps, PTL DEF Spec

----------------------------------------------------------------------------
(* The theorems *)

\* However grants of ClientAccessRepository repeat and race, and whatever becomes of its
\* address, a contact has one profile, of the user it is linked to.
THEOREM ContactsHaveOneProfile == Spec => []OneProfilePerContact
<1>1. PortalInv => OneProfilePerContact
  BY DEF PortalInv, Good, LinksSound, ProfilesAreLinked, OneProfilePerContact
<1> QED BY <1>1, PortalInvHolds, PTL

\* Grants, revocations and ActorProfileRepository.setDefault leave every user with profiles
\* exactly one default, although each decides on what it has read before.
THEOREM OneDefaultEach == Spec => []ExactlyOneDefault
<1>1. ASSUME PortalInv PROVE ExactlyOneDefault
  <2> SUFFICES ASSUME NEW u \in User, Own(db, u) # {}
               PROVE  Cardinality({i \in Own(db, u) : db.profiles[i].default}) = 1
    BY DEF ExactlyOneDefault
  <2>1. PICK S : S = {i \in Own(db, u) : db.profiles[i].default}
    OBVIOUS
  <2>2. PICK i \in S : TRUE
    BY <1>1, <2>1 DEF PortalInv, Good, DefaultsSound, SomeDefault, Own
  <2>3. \A j \in S : j = i
    BY <1>1, <2>1, <2>2 DEF PortalInv, Good, DefaultsSound, SoleDefault, Own
  <2>4. S = {i}
    BY <2>2, <2>3
  <2> QED BY <2>1, <2>4, FS_Singleton
<1> QED BY <1>1, PortalInvHolds, PTL

\* Of the contacts of a client, ClientContactRepository makes at most one primary, and never
\* one that is deactivated meanwhile.
THEOREM PrimariesAreInForce == Spec => []PrimaryIsActive
<1>1. ASSUME PortalInv PROVE PrimaryIsActive
  <2> SUFFICES ASSUME NEW k \in Client,
                      NEW S, S = {c \in OfClient(db, k) : db.contact[c].primary}
               PROVE  Cardinality(S) <= 1 /\ \A c \in S : db.contact[c].active
    BY DEF PrimaryIsActive
  <2>1. \A c \in S : db.contact[c].active
    BY <1>1 DEF PortalInv, Good, ContactsSound, PrimariesAreActive, OfClient
  <2>2. \A b, c \in S : b = c
    BY <1>1 DEF PortalInv, Good, ContactsSound, SolePrimary, OfClient
  <2> QED BY <2>1, <2>2, AllEqual
<1> QED BY <1>1, PortalInvHolds, PTL

----------------------------------------------------------------------------
(* Requests that are taken one at a time *)

\* A user has the role exactly if it has an active profile of a contact.
RoleIsAccess(d) ==
    /\ \A i \in DOMAIN d.profiles :
          d.profiles[i].active /\ d.profiles[i].contact # None => d.profiles[i].user \in d.owners
    /\ \A u \in d.owners : \E i \in DOMAIN d.profiles :
          d.profiles[i].active /\ d.profiles[i].contact # None /\ d.profiles[i].user = u

\* What the request in flight has read of roles and profiles is still so.
Current(d, q) ==
    /\ q.pc \in {"onboard", "grant"} => (q.plan.newRole <=> q.plan.user \notin d.owners)
    /\ q.pc = "revoke" =>
         (q.last <=> ~\E i \in Own(d, q.user) \ q.off :
                        d.profiles[i].active /\ d.profiles[i].contact # None)

OneAtATime == \A r, s \in Request : ~At(r, "idle") /\ ~At(s, "idle") => r = s

Alone == OneAtATime /\ RoleIsAccess(db) /\ \A r \in Request : Current(db, request[r])

AloneInv == scenario.width = 1 => Alone

\* The guard of MCNext.
LEMMA WidthOne ==
    ASSUME Alone, MCNext, scenario.width = 1, NEW r \in Request,
           \A s \in Request \ {r} : request'[s] = request[s]
    PROVE  OneAtATime'
<1>1. PICK S : S = {s \in Request : ~At(s, "idle")}
  OBVIOUS
<1>2. PICK T : T = {s \in Request : ~At(s, "idle")}'
  OBVIOUS
<1>3. T \subseteq S \cup {r}
  BY <1>1, <1>2 DEF At
<1>4. IsFiniteSet(S)
  <2>1. CASE S = {}
    BY <2>1, FS_EmptySet
  <2>2. CASE S # {}
    <3>1. PICK x \in S : TRUE
      BY <2>2
    <3>2. S = {x}
      BY <1>1, <3>1 DEF Alone, OneAtATime
    <3> QED BY <3>2, FS_Singleton
  <2> QED BY <2>1, <2>2
<1>5. IsFiniteSet(T)
  BY <1>3, <1>4, FS_AddElement, FS_Subset
<1>6. Cardinality(T) <= 1
  BY <1>2 DEF MCNext
<1>7. \A x, y \in T : x = y
  BY <1>5, <1>6, AtMostOne
<1> QED BY <1>2, <1>7 DEF OneAtATime

\* A step that reads, or ends a request without a trace.
LEMMA ReadAlone ==
    ASSUME PortalInv, Alone, MCNext, scenario.width = 1, NEW r \in Request, NEW q, Become(r, q),
           UNCHANGED db, Current(db, q)
    PROVE  Alone'
<1>1. request'[r] = q /\ \A s \in Request \ {r} : request'[s] = request[s]
  BY DEF PortalInv, Become
<1>2. OneAtATime'
  BY <1>1, WidthOne
<1>3. \A s \in Request : Current(db', request'[s])
  BY <1>1 DEF Alone
<1> QED BY <1>2, <1>3 DEF Alone

\* A step of one statement that leaves roles and profiles alone.
LEMMA StatementAlone ==
    ASSUME Alone, UNCHANGED request, db'.owners = db.owners, db'.profiles = db.profiles
    PROVE  Alone'
<1>1. \A s \in Request : Current(db', request[s])
  BY DEF Alone, Current, Own
<1>2. RoleIsAccess(db')
  BY DEF Alone, RoleIsAccess
<1> QED BY <1>1, <1>2 DEF Alone, OneAtATime, At

\* The commit of the request in flight: nobody else is under way.
LEMMA CommitAlone ==
    ASSUME PortalInv, Alone, NEW r \in Request, ~At(r, "idle"), Become(r, Idle), RoleIsAccess(db')
    PROVE  Alone'
<1>1. \A s \in Request : request'[s].pc = "idle"
  BY DEF PortalInv, Alone, OneAtATime, At, Become, Idle
<1>2. \A s \in Request : Current(db', request'[s])
  BY <1>1 DEF Current
<1>3. OneAtATime'
  BY <1>1 DEF OneAtATime, At
<1> QED BY <1>2, <1>3 DEF Alone

\* A plan that is carried out gives the user both the role and the access.
LEMMA EstablishedAlone ==
    ASSUME NEW d \in Rows, RoleIsAccess(d), NEW p, Planned(d, p), Exists(d, p.contact),
           p.newRole <=> p.user \notin d.owners,
           NEW e, e = Established(d, p)
    PROVE  RoleIsAccess(e)
<1> HIDE DEF Rewritten
<1>1. Granted(d, p, e)
  BY EstablishedRows
<1>2. PICK u \in User, c \in Contact, P \in {p.profile} : u = p.user /\ c = p.contact
  BY DEF Planned
<1>3. e.owners = d.owners \cup {u}
  BY <1>1, <1>2 DEF Granted
<1>4. ASSUME NEW i \in DOMAIN d.profiles
      PROVE  /\ i \in DOMAIN e.profiles
             /\ e.profiles[i].user = d.profiles[i].user
             /\ e.profiles[i].contact = d.profiles[i].contact
             /\ e.profiles[i].active <=> d.profiles[i].active \/ i \in P
  BY <1>1, <1>2, RewrittenRow DEF Granted, Planned
<1>5. \A i \in P : i \in DOMAIN d.profiles /\ d.profiles[i].user = u /\ d.profiles[i].contact = c
  BY <1>2 DEF Planned, Own
<1>6. P # {} => DOMAIN e.profiles = DOMAIN d.profiles
  BY <1>1, <1>2 DEF Granted
<1>7. P = {} => \E n : /\ DOMAIN e.profiles = DOMAIN d.profiles \cup {n}
                       /\ e.profiles[n].user = u
                       /\ e.profiles[n].contact = c
                       /\ e.profiles[n].active
  BY <1>1, <1>2 DEF Granted
<1>8. c # None
  OBVIOUS
<1>9. \E i \in DOMAIN e.profiles : /\ e.profiles[i].active /\ e.profiles[i].contact # None
                                   /\ e.profiles[i].user = u
  BY <1>4, <1>5, <1>7, <1>8
<1>10. ASSUME NEW i \in DOMAIN e.profiles, e.profiles[i].active, e.profiles[i].contact # None
       PROVE  e.profiles[i].user \in e.owners
  BY <1>3, <1>4, <1>5, <1>6, <1>7, <1>10 DEF RoleIsAccess
<1>11. ASSUME NEW v \in d.owners
       PROVE  \E i \in DOMAIN e.profiles : /\ e.profiles[i].active /\ e.profiles[i].contact # None
                                           /\ e.profiles[i].user = v
  BY <1>4 DEF RoleIsAccess
<1> QED BY <1>3, <1>9, <1>10, <1>11 DEF RoleIsAccess

\* What a request has read when it starts, or looks for other access, is so.
LEMMA PlanAlone ==
    ASSUME PortalInv, Alone, MCNext, scenario.width = 1, NEW r \in Request, NEW c \in Contact,
           BeginOnboard(r, c) \/ BeginGrant(r, c)
    PROVE  Alone'
<1>1. ASSUME NEW s, s.owners = db.owners, NEW q, q.pc # "revoke", q.plan = Plan(s, c),
             Become(r, q), UNCHANGED db
      PROVE  Alone'
  <2>1. PICK p : p = Plan(s, c)
    OBVIOUS
  <2>2. p.newRole <=> p.user \notin s.owners
    BY <2>1 DEF Plan
  <2>3. Current(db, q)
    BY <1>1, <2>1, <2>2 DEF Current
  <2> QED BY <1>1, <2>3, ReadAlone
<1>2. CASE BeginOnboard(r, c)
  <2>1. PICK s : s = WithClient(db, c)
    OBVIOUS
  <2>2. PICK q : q = [pc |-> "onboard", plan |-> Plan(s, c)]
    OBVIOUS
  <2>3. Become(r, q) /\ UNCHANGED db
    BY <1>2, <2>1, <2>2 DEF BeginOnboard
  <2>4. s.owners = db.owners
    BY <2>1 DEF WithClient, PortalInv, Good, Rows
  <2>5. q.pc # "revoke" /\ q.plan = Plan(s, c)
    BY <2>2
  <2> QED BY <1>1, <2>3, <2>4, <2>5
<1>3. CASE BeginGrant(r, c)
  <2>1. PICK q : q = [pc |-> "grant", plan |-> Plan(db, c)]
    OBVIOUS
  <2>2. Become(r, q) /\ UNCHANGED db
    BY <1>3, <2>1 DEF BeginGrant
  <2>3. q.pc # "revoke" /\ q.plan = Plan(db, c)
    BY <2>1
  <2> QED BY <1>1, <2>2, <2>3
<1> QED BY <1>2, <1>3

LEMMA CheckAlone ==
    ASSUME PortalInv, Alone, MCNext, scenario.width = 1, NEW r \in Request, CheckOther(r)
    PROVE  Alone'
<1>1. PICK u, off : u = request[r].user /\ off = request[r].off
  OBVIOUS
<1>2. PICK q : q = [pc |-> "revoke", user |-> u, off |-> off, last |-> ~OtherActive(u, off)]
  OBVIOUS
<1>3. Become(r, q) /\ UNCHANGED db
  BY <1>1, <1>2 DEF CheckOther
<1>4. q.pc = "revoke" /\ q.user = u /\ q.off = off /\ (q.last <=> ~OtherActive(u, off))
  BY <1>2
<1>5. Current(db, q)
  BY <1>4 DEF Current, OtherActive
<1> QED BY <1>3, <1>5, ReadAlone

\* A request starts that relies on no role.
LEMMA OtherAlone ==
    ASSUME PortalInv, Alone, MCNext, scenario.width = 1, NEW r \in Request,
           \/ \E c \in Contact : BeginRevoke(r, c) \/ CheckClient(r, c) \/ BeginPrimary(r, c)
           \/ \E i \in DOMAIN db.profiles : BeginDefault(r, i)
           \/ Fail(r)
    PROVE  Alone'
<1>1. ASSUME NEW q, Become(r, q), UNCHANGED db, q.pc \notin {"onboard", "grant", "revoke"}
      PROVE  Alone'
  <2>1. Current(db, q)
    BY <1>1 DEF Current
  <2> QED BY <1>1, <2>1, ReadAlone
<1>2. ASSUME NEW c \in Contact, BeginRevoke(r, c) PROVE Alone'
  <2>1. PICK u, off : /\ Become(r, [pc |-> "check", user |-> u, off |-> off])
                      /\ UNCHANGED db
    BY <1>2 DEF BeginRevoke
  <2> QED BY <1>1, <2>1
<1>3. ASSUME NEW c \in Contact, CheckClient(r, c) PROVE Alone'
  BY <1>1, <1>3 DEF CheckClient
<1>4. ASSUME NEW c \in Contact, BeginPrimary(r, c) PROVE Alone'
  <2>1. PICK seen : /\ Become(r, [pc |-> "primary", contact |-> c, seen |-> seen])
                    /\ UNCHANGED db
    BY <1>4 DEF BeginPrimary
  <2> QED BY <1>1, <2>1
<1>5. ASSUME NEW i \in DOMAIN db.profiles, BeginDefault(r, i) PROVE Alone'
  <2>1. PICK seen : /\ Become(r, [pc |-> "default", profile |-> i, seen |-> seen])
                    /\ UNCHANGED db
    BY <1>5 DEF BeginDefault
  <2> QED BY <1>1, <2>1
<1>6. CASE Fail(r)
  BY <1>1, <1>6 DEF Fail, Idle
<1> QED BY <1>2, <1>3, <1>4, <1>5, <1>6

\* Steps that change no role, and no profile.
LEMMA RowsAlone ==
    ASSUME PortalInv, Alone, NEW r \in Request,
           \/ \E c \in Contact : Deactivate(r, c) \/ Reactivate(r, c)
           \/ \E c \in Contact, u \in User : ChangeEmail(r, c, u)
           \/ \E k \in Client, b \in BOOLEAN : SetClientActive(r, k, b)
    PROVE  Alone'
<1>1. /\ UNCHANGED request
      /\ db'.owners = db.owners /\ db'.profiles = db.profiles
  BY DEF Deactivate, Reactivate, ChangeEmail, SetClientActive, PortalInv, Good, Rows
<1> QED BY <1>1, StatementAlone

LEMMA ContactsAlone ==
    ASSUME PortalInv, Alone, NEW r \in Request, AddContact(r) \/ CommitPrimary(r)
    PROVE  Alone'
<1>1. db'.owners = db.owners /\ db'.profiles = db.profiles
  BY DEF AddContact, CommitPrimary, PortalInv, Good, Rows
<1>2. RoleIsAccess(db')
  BY <1>1 DEF Alone, RoleIsAccess
<1>3. ~At(r, "idle") /\ Become(r, Idle)
  BY DEF AddContact, CommitPrimary, At
<1> QED BY <1>2, <1>3, CommitAlone

\* A change of the default leaves active what is active.
LEMMA DefaultAlone ==
    ASSUME PortalInv, Alone, NEW r \in Request, CommitDefault(r)
    PROVE  Alone'
<1>1. PICK t : t = [j \in DOMAIN db.profiles |->
                      IF j \in DOMAIN request[r].seen
                      THEN [db.profiles[j] EXCEPT !.default = (j = request[r].profile)]
                      ELSE db.profiles[j]]
  OBVIOUS
<1>2. db'.owners = db.owners /\ db'.profiles = t
  BY <1>1 DEF CommitDefault, PortalInv, Good, Rows
<1>3. ASSUME NEW j \in DOMAIN t
      PROVE  /\ t[j].active <=> db.profiles[j].active
             /\ t[j].contact = db.profiles[j].contact
             /\ t[j].user = db.profiles[j].user
  <2>1. PICK old \in Profile : old = db.profiles[j]
    BY <1>1, <1>3, ProfileRows DEF PortalInv, Good
  <2>2. t[j] = old \/ t[j] = [old EXCEPT !.default = (j = request[r].profile)]
    BY <1>1, <1>3, <2>1
  <2> QED BY <2>1, <2>2 DEF Profile
<1>4. DOMAIN t = DOMAIN db.profiles
  BY <1>1
<1>5. RoleIsAccess(db')
  BY <1>2, <1>3, <1>4 DEF Alone, RoleIsAccess
<1>6. ~At(r, "idle") /\ Become(r, Idle)
  BY DEF CommitDefault, At
<1> QED BY <1>5, <1>6, CommitAlone

LEMMA GrantAlone ==
    ASSUME PortalInv, Alone, NEW r \in Request, CommitGrant(r)
    PROVE  Alone'
<1>1. PICK p : p = request[r].plan
  OBVIOUS
<1>2. Planned(db, p) /\ (p.newRole <=> p.user \notin db.owners)
  BY <1>1 DEF PortalInv, Knows, CommitGrant, At, Alone, Current
<1>3. db.contact[p.contact] = p.row /\ p.row \in ContactRow
  BY <1>1, <1>2 DEF CommitGrant, Unwritten, Planned
<1>4. PICK e : e = Established(db, p)
  OBVIOUS
<1>5. db' = e
  BY <1>1, <1>4 DEF CommitGrant
<1>6. RoleIsAccess(e)
  BY <1>2, <1>3, <1>4, EstablishedAlone DEF PortalInv, Good, Alone, Exists
<1>7. ~At(r, "idle") /\ Become(r, Idle)
  BY DEF CommitGrant, At
<1> QED BY <1>5, <1>6, <1>7, CommitAlone

LEMMA OnboardAlone ==
    ASSUME PortalInv, Alone, NEW r \in Request, CommitOnboard(r)
    PROVE  Alone'
<1>1. PICK p : p = request[r].plan
  OBVIOUS
<1>2. Planned(db, p) /\ (p.newRole <=> p.user \notin db.owners)
  BY <1>1 DEF PortalInv, Knows, CommitOnboard, At, Alone, Current
<1>3. PICK c \in Contact : c = p.contact
  BY <1>2 DEF Planned
<1>4. PICK d : d = WithClient(db, c)
  OBVIOUS
<1>5. Good(d) /\ Exists(d, c) /\ d.profiles = db.profiles
  BY <1>1, <1>3, <1>4, WithClientKeeps DEF CommitOnboard, PortalInv
<1>6. d.owners = db.owners
  BY <1>4 DEF WithClient, PortalInv, Good, Rows
<1>7. RoleIsAccess(d)
  BY <1>5, <1>6 DEF Alone, RoleIsAccess
<1>8. ~At(r, "idle") /\ Become(r, Idle)
  BY DEF CommitOnboard, At
<1>9. CASE db' = d
  BY <1>7, <1>8, <1>9, CommitAlone
<1>10. CASE db' = Established(d, p)
  <2>1. Planned(d, p)
    BY <1>2, <1>5 DEF Planned, Own
  <2>2. PICK e : e = Established(d, p)
    OBVIOUS
  <2>3. RoleIsAccess(e)
    BY <1>2, <1>3, <1>5, <1>6, <1>7, <2>1, <2>2, EstablishedAlone DEF Good
  <2> QED BY <1>8, <1>10, <2>2, <2>3, CommitAlone
<1> QED BY <1>1, <1>3, <1>4, <1>9, <1>10 DEF CommitOnboard

\* A revocation that has found no other access ends the last one with the role.
LEMMA RevokeAlone ==
    ASSUME PortalInv, Alone, NEW r \in Request, CommitRevoke(r)
    PROVE  Alone'
<1>1. PICK u \in User, off \in SUBSET DOMAIN db.profiles :
        u = request[r].user /\ off = request[r].off /\ off \subseteq Own(db, u)
  BY DEF CommitRevoke, At, PortalInv, Knows, Own
<1>2. request[r].last <=> ~\E i \in Own(db, u) \ off :
                             db.profiles[i].active /\ db.profiles[i].contact # None
  BY <1>1 DEF CommitRevoke, At, Alone, Current
<1>3. PICK o \in SUBSET User : o = IF request[r].last THEN db.owners \ {u} ELSE db.owners
  BY DEF PortalInv, Good, Rows
<1>4. PICK t : t = [i \in DOMAIN db.profiles |->
                      IF i \in off THEN [db.profiles[i] EXCEPT !.active = FALSE]
                                   ELSE db.profiles[i]]
  OBVIOUS
<1>5. db'.owners = o /\ db'.profiles = t
  BY <1>1, <1>3, <1>4 DEF CommitRevoke, PortalInv, Good, Rows
<1>6. ASSUME NEW i \in DOMAIN t
      PROVE  /\ t[i].active <=> i \notin off /\ db.profiles[i].active
             /\ t[i].contact = db.profiles[i].contact
             /\ t[i].user = db.profiles[i].user
  <2>1. PICK old \in Profile : old = db.profiles[i]
    BY <1>4, <1>6, ProfileRows DEF PortalInv, Good
  <2>2. t[i] = IF i \in off THEN [old EXCEPT !.active = FALSE] ELSE old
    BY <1>4, <1>6, <2>1
  <2>3. CASE i \in off
    <3>1. t[i] = [old EXCEPT !.active = FALSE]
      BY <2>2, <2>3
    <3>2. ~t[i].active
      BY <3>1 DEF Profile
    <3> QED BY <2>1, <2>3, <3>1, <3>2 DEF Profile
  <2>4. CASE i \notin off
    BY <2>1, <2>2, <2>4
  <2> QED BY <2>3, <2>4
<1>7. DOMAIN t = DOMAIN db.profiles
  BY <1>4
<1>8. ASSUME NEW i \in DOMAIN t, t[i].active, t[i].contact # None
      PROVE  t[i].user \in o
  <2>1. db.profiles[i].user \in db.owners
    BY <1>6, <1>7, <1>8 DEF Alone, RoleIsAccess
  <2>2. t[i].user = u => ~request[r].last
    BY <1>2, <1>6, <1>7, <1>8 DEF Own
  <2> QED BY <1>3, <1>6, <2>1, <2>2
<1>9. ASSUME NEW v \in o
      PROVE  \E i \in DOMAIN t : t[i].active /\ t[i].contact # None /\ t[i].user = v
  <2>1. PICK i \in DOMAIN db.profiles : /\ db.profiles[i].active /\ db.profiles[i].contact # None
                                        /\ db.profiles[i].user = v
    BY <1>3, <1>9 DEF Alone, RoleIsAccess
  <2>2. CASE v # u
    <3>1. i \notin off
      BY <1>1, <2>1, <2>2 DEF Own
    <3> QED BY <1>6, <1>7, <2>1, <3>1
  <2>3. CASE v = u
    <3>1. PICK j \in Own(db, u) \ off : db.profiles[j].active /\ db.profiles[j].contact # None
      BY <1>2, <1>3, <1>9, <2>3
    <3> QED BY <1>6, <1>7, <2>3, <3>1 DEF Own
  <2> QED BY <2>2, <2>3
<1>10. RoleIsAccess(db')
  BY <1>5, <1>8, <1>9 DEF RoleIsAccess
<1>11. ~At(r, "idle") /\ Become(r, Idle)
  BY DEF CommitRevoke, At
<1> QED BY <1>10, <1>11, CommitAlone

LEMMA StepAlone ==
    ASSUME PortalInv, Alone, MCNext, scenario.width = 1, scenario \in Scenarios
    PROVE  Alone'
<1>1. Step(Contact, Contact)
  BY ScenarioAssumption DEF MCNext, Step, Scenarios
<1> QED BY <1>1, PlanAlone, CheckAlone, OtherAlone, RowsAlone, ContactsAlone, DefaultAlone,
           GrantAlone, OnboardAlone, RevokeAlone
        DEF Step

MCPortalInv == PortalInv /\ scenario \in Scenarios /\ AloneInv

LEMMA InitAlone == MCInit => MCPortalInv
<1> SUFFICES ASSUME MCInit PROVE MCPortalInv
  OBVIOUS
<1>1. PortalInv
  BY InitGood DEF MCInit
<1>2. db.owners = {} /\ \A r \in Request : At(r, "idle")
  BY DEF MCInit, Init, At, Idle
<1>3. \A i \in DOMAIN db.profiles : db.profiles[i].contact = None
  <2>1. \A c \in Contact : ~Exists(db, c)
    BY DEF MCInit, Init, Exists
  <2> QED BY <1>1, <2>1, ProfileRows
           DEF PortalInv, Good, LinksSound, ProfilesAreLinked, Exists, Profile
<1>4. RoleIsAccess(db)
  BY <1>2, <1>3 DEF RoleIsAccess
<1>5. Alone
  BY <1>2, <1>4 DEF Alone, OneAtATime, At, Current
<1> QED BY <1>1, <1>5 DEF MCPortalInv, MCInit, AloneInv

LEMMA NextAlone == MCPortalInv /\ [MCNext]_<<vars, scenario>> => MCPortalInv'
<1> SUFFICES ASSUME MCPortalInv, [MCNext]_<<vars, scenario>> PROVE MCPortalInv'
  OBVIOUS
<1>1. CASE MCNext
  <2>1. Step(Contact, Contact)
    BY <1>1, ScenarioAssumption DEF MCPortalInv, MCNext, Step, Scenarios
  <2>2. PortalInv'
    BY <2>1, StepKeeps DEF MCPortalInv
  <2>3. AloneInv'
    BY <1>1, StepAlone DEF MCPortalInv, AloneInv, MCNext
  <2> QED BY <1>1, <2>2, <2>3 DEF MCPortalInv, MCNext
<1>2. CASE UNCHANGED <<vars, scenario>>
  BY <1>2 DEF MCPortalInv, PortalInv, AloneInv, Alone, OneAtATime, At, vars
<1> QED BY <1>1, <1>2

\* Grants and revocations of ClientAccessRepository that come one after the other give and
\* take the client_owner role with the first and the last access of a user, to however many
\* clients and through however many contacts.
THEOREM RoleFollowsAccess == MCSpec => []RoleIsAccessAlone
<1>1. MCPortalInv => RoleIsAccessAlone
  BY DEF MCPortalInv, AloneInv, Alone, RoleIsAccess, RoleIsAccessAlone, AccessHasRole,
         RoleHasAccess, Access
<1> QED BY <1>1, InitAlone, NextAlone, PTL DEF MCSpec
=============================================================================
