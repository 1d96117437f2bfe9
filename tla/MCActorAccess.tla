--------------------------- MODULE MCActorAccess ---------------------------
(***************************************************************************)
(* Actor access on small instances with two requests at a time: two users  *)
(* with one member and two profiles, or one user with two members and two  *)
(* profiles, or with one member and three profiles.                        *)
(***************************************************************************)
EXTENDS ActorAccess, TLC

CONSTANT MaxRows    \* how many users, members and profiles there may be in all

Small ==
    /\ Cardinality({u \in User : user[u] # "absent"})
         + Cardinality({m \in Member : member[m] # Absent})
         + Cardinality(Profile \ Unused) <= MaxRows

MCInit == Init /\ Small

MCNext == Next /\ Small'

MCSpec == MCInit /\ [][MCNext]_vars

Symmetry ==
    Permutations(User) \cup Permutations(Member)
        \cup Permutations(Profile) \cup Permutations(Request)
=============================================================================
