----------------------------- MODULE MCTenancy -----------------------------
(* Constants for checking Tenancy *)
EXTENDS Tenancy, TLC

CONSTANTS acme, zeta

\* One tenant with a user and a session, another with or without users, or
\* before its sign-up.
MCInit ==
    /\ Init
    /\ status[acme] = "active" /\ status[zeta] # "inactive"
    /\ \E u \in User : user[u] # None /\ user[u].tenant = acme
    /\ session # {}

Symmetry == Permutations(User) \cup Permutations(Email) \cup Permutations(Request)
                \cup Permutations(Connection)

Signs(x) == x.op \in {<<"company_signup", "signup">>, <<"auth", "login">>}
Reads(x) == x.op \in {<<"auth", "refresh">>, <<"auth", "forgotPassword">>}

\* Of two requests at once, one signs up or signs in, and the other writes; only
\* one tenant is switched off.
Scenario ==
    /\ \/ \E r \in Request : pc[r] = "idle"
       \/ /\ \E r \in Request : Signs(task[r])
          /\ \A r \in Request : ~Reads(task[r])
    /\ status[zeta] # "inactive"

MCSpec == MCInit /\ [][Next]_vars
=============================================================================
