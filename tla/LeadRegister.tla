---------------------------- MODULE LeadRegister ----------------------------
(***************************************************************************)
(* What division leadership promises: a register of at most one lead per   *)
(* division.  Appointing replaces the lead in one step, revoking empties   *)
(* the register, and a division that opens or is gone has no lead.         *)
(***************************************************************************)
CONSTANTS Division, Member

VARIABLES leads, open

Init ==
    /\ leads = [d \in Division |-> {}]
    /\ open \subseteq Division

Appoint(d, m) ==
    /\ d \in open
    /\ leads' = [leads EXCEPT ![d] = {m}]
    /\ UNCHANGED open

Revoke(d) ==
    /\ leads' = [leads EXCEPT ![d] = {}]
    /\ UNCHANGED open

Open(d) ==
    /\ leads[d] = {}
    /\ open' = open \cup {d}
    /\ UNCHANGED leads

Close(d) ==
    /\ leads[d] = {}
    /\ open' = open \ {d}
    /\ UNCHANGED leads

Next ==
    \E d \in Division :
       \/ \E m \in Member : Appoint(d, m)
       \/ Revoke(d) \/ Open(d) \/ Close(d)

Spec == Init /\ [][Next]_<<leads, open>>
=============================================================================
