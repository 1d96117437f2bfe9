----------------------------- MODULE MCIdentity -----------------------------
(***************************************************************************)
(* Identity on small instances.  Model values stand for ids and random     *)
(* tokens, which the code only compares.                                   *)
(***************************************************************************)
EXTENDS Identity, TLC

VARIABLE scenario    \* how many sessions, tokens and so on there are

Limits(s, t, k, b, time, writes) ==
    [sessions |-> s, tokens |-> t, resets |-> k, bearers |-> b,
     time |-> time, writes |-> writes]

\* Rotation and administration, authentication, recovery with a session, and
\* competing recoveries.
Scenarios == {Limits(2, 3, 0, 0, 2, 3), Limits(1, 2, 0, 2, 2, 3),
              Limits(1, 1, 1, 0, 1, 3), Limits(0, 0, 2, 0, 1, 2)}

\* Reset tokens that are stored or about to be.
Keys ==
    {k \in ResetToken : resetTokens[k] # None}
        \cup {request[r].key : r \in {q \in Request : request[q].pc \in Issuing}}

WithinScenario ==
    /\ Cardinality({s \in Session : SessionExists(s)}) <= scenario.sessions
    /\ Cardinality(StoredTokens) <= scenario.tokens
    /\ Cardinality(Keys) <= scenario.resets
    /\ now <= scenario.time
    /\ \A u \in User : users[u].version <= scenario.writes
    /\ Cardinality({r \in Request : request[r].pc \in Authenticating}) <= scenario.bearers

MCInit == Init /\ scenario \in Scenarios

MCNext == Next /\ UNCHANGED scenario /\ WithinScenario'

MCSpec == MCInit /\ [][MCNext]_<<vars, scenario>>

\* Sessions, tokens and requests are interchangeable.
Symmetry == Permutations(Session) \cup Permutations(Token)
                \cup Permutations(ResetToken) \cup Permutations(Request)
=============================================================================
