--------------------------- MODULE MCClientPortal ---------------------------
(***************************************************************************)
(* The client portal on small instances: two contacts of the first client  *)
(* and one of the second, which shares its user with the first contact.    *)
(* All three with one request at a time, or two of them with two requests  *)
(* that interleave; or one contact, two requests and changes of address.   *)
(***************************************************************************)
EXTENDS ClientPortal, TLC

CONSTANTS k1, k2, c1, c2, c3, u1, u2

ASSUME ScenarioAssumption == {c1, c2, c3} \subseteq Contact

VARIABLE scenario    \* the contacts in play, those whose address changes, the users
                     \* that may exist before, and how many requests run at once

MCClientOf == [c \in Contact |-> IF c = c3 THEN k2 ELSE k1]
MCOwner == [c \in Contact |-> IF c = c2 THEN u2 ELSE u1]

Scenarios ==
    {[contacts |-> {c1, c2, c3}, renamed |-> {}, users |-> {u1}, width |-> 1],
     [contacts |-> {c1, c2}, renamed |-> {}, users |-> {}, width |-> 2],
     [contacts |-> {c1, c3}, renamed |-> {}, users |-> {u1}, width |-> 2],
     [contacts |-> {c1}, renamed |-> {c1}, users |-> {u1}, width |-> 2]}

MCInit ==
    /\ scenario \in Scenarios
    /\ Init
    /\ db.users \subseteq scenario.users

MCNext ==
    /\ Step(scenario.contacts, scenario.renamed)
    /\ UNCHANGED scenario
    /\ Cardinality({r \in Request : ~At(r, "idle")})' <= scenario.width

MCSpec == MCInit /\ [][MCNext]_<<vars, scenario>>

\* Taken one at a time, grants and revocations (ClientAccessRepository) leave a
\* user the client_owner role exactly while one of its contacts has access.
RoleIsAccessAlone == scenario.width = 1 => AccessHasRole /\ RoleHasAccess

Symmetry == Permutations(Request)
=============================================================================
