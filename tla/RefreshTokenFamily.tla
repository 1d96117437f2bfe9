------------------------- MODULE RefreshTokenFamily -------------------------
(***************************************************************************)
(* What the session store promises about refresh tokens, with the requests *)
(* and the users left out.  A session opens with one token; the token it   *)
(* holds is exchanged for a new one that no session ever held; a spent     *)
(* token never returns; a dead session stays as it died; and no exchange   *)
(* carries a session past the deadline it was opened with.                 *)
(***************************************************************************)
EXTENDS Integers

CONSTANTS Session, Token

VARIABLES
    state,      \* "none", "live" or "dead"
    current,    \* the token a session holds
    spent,      \* the tokens it has exchanged
    lease,      \* the time until which the token it holds is good
    deadline    \* the time until which the session may be renewed

family == <<state, current, spent, lease, deadline>>

Known == {current[s] : s \in {x \in Session : state[x] # "none"}}
             \cup UNION {spent[s] : s \in Session}

Init ==
    /\ state = [s \in Session |-> "none"]
    /\ spent = [s \in Session |-> {}]

\* The only change of a function is at s.
ChangesOnlyAt(s, before, after) ==
    \A x \in Session \ {s} : after[x] = before[x]

Open(s) ==
    /\ state[s] = "none"
    /\ state' = [state EXCEPT ![s] = "live"]
    /\ current'[s] \in Token \ Known
    /\ lease'[s] <= deadline'[s]
    /\ ChangesOnlyAt(s, current, current')
    /\ ChangesOnlyAt(s, lease, lease')
    /\ ChangesOnlyAt(s, deadline, deadline')
    /\ UNCHANGED spent

Exchange(s) ==
    /\ state[s] = "live"
    /\ current'[s] \in Token \ Known
    /\ spent' = [spent EXCEPT ![s] = @ \cup {current[s]}]
    /\ lease'[s] <= deadline[s]
    /\ ChangesOnlyAt(s, current, current')
    /\ ChangesOnlyAt(s, lease, lease')
    /\ UNCHANGED <<state, deadline>>

\* Any number of sessions are revoked together.
Kill ==
    /\ \A s \in Session : \/ state'[s] = state[s]
                          \/ state[s] = "live" /\ state'[s] = "dead"
    /\ UNCHANGED <<current, spent, lease, deadline>>

Next == Kill \/ \E s \in Session : Open(s) \/ Exchange(s)

Spec == Init /\ [][Next]_family
=============================================================================
