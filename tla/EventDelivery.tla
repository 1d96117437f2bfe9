--------------------------- MODULE EventDelivery ---------------------------
(***************************************************************************)
(* What the messaging module promises: an event is raised together with    *)
(* the fact it announces, and each consumer's effect of it is committed at *)
(* most once, and only if it was raised.                                   *)
(***************************************************************************)
EXTENDS Integers

CONSTANTS Event, Consumer

VARIABLES
    raised,     \* events whose fact is committed
    effects     \* effects[e, c]: how often consumer c has acted on e

Init ==
    /\ raised = {}
    /\ effects = [d \in Event \X Consumer |-> 0]

Raise(e) ==
    /\ e \notin raised
    /\ raised' = raised \cup {e}
    /\ UNCHANGED effects

Act(e, c) ==
    /\ e \in raised
    /\ effects[<<e, c>>] = 0
    /\ effects' = [effects EXCEPT ![<<e, c>>] = 1]
    /\ UNCHANGED raised

Next == \E e \in Event : Raise(e) \/ \E c \in Consumer : Act(e, c)

Spec == Init /\ [][Next]_<<raised, effects>>
=============================================================================
